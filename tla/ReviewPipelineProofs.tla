------------------------- MODULE ReviewPipelineProofs -------------------------
(***************************************************************************)
(* What the way from a diff to its evidence promises for any diff and any  *)
(* parse of its files: no changed line is lost, files are refused only for *)
(* cause, nothing goes out for a change that is not whole, evidence keeps  *)
(* to its share of the budget and names what it leaves uncovered, and the  *)
(* AI only adds to it.                                                     *)
(***************************************************************************)
EXTENDS ReviewPipeline, ContextPlanProofs

-----------------------------------------------------------------------------
(* Change review: what becomes of the lines of a source.                   *)

\* A line that some region holds is given to a region.
LEMMA RegionsTakeLines ==
  ASSUME NEW source, IsSource(source), NEW lines, NEW l \in lines,
         NEW q \in source.regions, Has(q, l)
  PROVE  \E r \in source.regions : l \in RegionLines(r, source, lines)
<1> DEFINE around == {r \in source.regions : Has(r, l)}
           S == {r.to - r.from : r \in around}
<1>1. \A r \in around : r.to \in Nat /\ r.from \in Nat /\ r.from < r.to
  BY DEF IsSource, IsRegion
<1>2. S \subseteq Nat /\ S # {}
  BY <1>1
<1>3. PICK w \in S : \A y \in S : w <= y
  <2> HIDE DEF S
  <2> QED BY <1>2, LeastNumber
<1>4. PICK r \in around : w = r.to - r.from
  OBVIOUS
<1>5. ASSUME NEW other \in source.regions, Has(other, l), InsideRegion(r, other) PROVE FALSE
  <2>1. other \in around
    BY <1>5
  <2>2. r.to - r.from <= other.to - other.from
    BY <1>3, <1>4, <2>1
  <2> QED BY <1>1, <1>5, <2>1, <2>2 DEF InsideRegion
<1> QED BY <1>5 DEF RegionLines

\* The runs of a set of lines are in it, and hold all of it.
LEMMA RunShape ==
  ASSUME NEW lines, lines \subseteq Nat \ {0}, NEW run \in Runs(lines)
  PROVE  /\ run = <<run[1], run[2]>> /\ run[1] \in lines /\ run[2] \in lines
         /\ run[1] \in Nat \ {0} /\ run[2] \in Nat \ {0}
         /\ run[1] <= run[2] /\ run[1] .. run[2] \subseteq lines
<1>1. run \in lines \X lines /\ run[1] .. run[2] \subseteq lines /\ run[1] <= run[2]
  BY DEF Runs
<1>2. run = <<run[1], run[2]>> /\ run[1] \in lines /\ run[2] \in lines
  BY <1>1
<1> QED BY <1>1, <1>2

LEMMA RunsCover ==
  ASSUME NEW n \in Nat, NEW lines, lines \subseteq 1 .. n, NEW l \in lines
  PROVE  \E run \in Runs(lines) : l \in run[1] .. run[2]
<1> DEFINE A == {a \in lines : a <= l /\ a .. l \subseteq lines}
           B == {b \in lines : l <= b /\ l .. b \subseteq lines}
<1>1. l \in A /\ l \in B
  OBVIOUS
<1>2. PICK a \in A : \A y \in A : a <= y
  <2>1. A \subseteq Nat
    <3>1. lines \subseteq Nat
      OBVIOUS
    <3> QED BY <3>1
  <2> HIDE DEF A
  <2> QED BY <1>1, <2>1, LeastNumber
<1>3. PICK b \in B : \A y \in B : y <= b
  <2>1. B \subseteq 0 .. n
    <3>1. \A x \in lines : x \in 0 .. n
      OBVIOUS
    <3> QED BY <3>1
  <2> HIDE DEF B
  <2> QED BY <1>1, <2>1, GreatestNumber
<1>4. a - 1 \notin lines
  <2>1. SUFFICES ASSUME a - 1 \in lines PROVE FALSE
    OBVIOUS
  <2>2. (a - 1) .. l \subseteq lines
    <3>1. \A x \in (a - 1) .. l : x = a - 1 \/ x \in a .. l
      OBVIOUS
    <3> QED BY <2>1, <3>1
  <2> QED BY <1>2, <2>1, <2>2
<1>5. b + 1 \notin lines
  <2>1. SUFFICES ASSUME b + 1 \in lines PROVE FALSE
    OBVIOUS
  <2>2. l .. (b + 1) \subseteq lines
    <3>1. \A x \in l .. (b + 1) : x = b + 1 \/ x \in l .. b
      OBVIOUS
    <3> QED BY <2>1, <3>1
  <2> QED BY <1>3, <2>1, <2>2
<1>6. a .. b \subseteq lines
  <2>1. \A x \in a .. b : x \in a .. l \/ x \in l .. b
    OBVIOUS
  <2> QED BY <2>1
<1>7. <<a, b>> \in Runs(lines)
  BY <1>4, <1>5, <1>6 DEF Runs
<1> QED BY <1>7

\* The declarations that lines of a run are given to.
LEMMA LinewiseShape ==
  ASSUME NEW candidates, NEW run, NEW a \in Linewise(candidates, run)
  PROVE  /\ a.owner \in candidates /\ a = [owner |-> a.owner, lines |-> a.lines]
         /\ a.lines # {} /\ a.lines \subseteq run[1] .. run[2]
         /\ \A l \in a.lines : Has(a.owner, l)
BY DEF Linewise

\* A line that some candidate holds is given to one.
LEMMA LinewiseTakes ==
  ASSUME NEW candidates, \A d \in candidates : IsDeclaration(d), NEW run,
         NEW l \in run[1] .. run[2], NEW c \in candidates, Has(c, l)
  PROVE  \E a \in Linewise(candidates, run) : l \in a.lines
<1> DEFINE around == {d \in candidates : Has(d, l)}
           S == {d.last - d.first : d \in around}
<1>1. \A d \in around : d.first \in Nat /\ d.last \in Nat /\ d.first <= d.last
  BY DEF IsDeclaration
<1>2. S \subseteq Nat /\ S # {}
  BY <1>1
<1>3. PICK w \in S : \A y \in S : w <= y
  <2> HIDE DEF S
  <2> QED BY <1>2, LeastNumber
<1>4. PICK d \in around : w = d.last - d.first
  OBVIOUS
<1>5. ASSUME NEW other \in candidates, Has(other, l), StrictlyWithin(d, other) PROVE FALSE
  <2>1. other \in around
    BY <1>5
  <2>2. d.last - d.first <= other.last - other.first
    BY <1>3, <1>4, <2>1
  <2> QED BY <1>1, <1>5, <2>1, <2>2 DEF StrictlyWithin, Within
<1> DEFINE ls == {x \in run[1] .. run[2] :
                    Has(d, x) /\ ~\E other \in candidates : Has(other, x) /\ StrictlyWithin(d, other)}
<1>6. l \in ls
  BY <1>5
<1>7. [owner |-> d, lines |-> ls] \in Linewise(candidates, run)
  BY <1>6 DEF Linewise
<1> QED BY <1>6, <1>7

-----------------------------------------------------------------------------
(* Units.                                                                  *)

\* the lines that some units claim
Claimed(us) == UNION {u.lines : u \in us}

\* why a declaration is shown, whatever the run
WhyShown(source, d) ==
  IF d \in UiBlocks(source.declarations) THEN "large_build_ui_block" ELSE "innermost_changed_declaration"

\* what every unit of some lines of a source looks like
UnitOf(source, lines, u) ==
  /\ u = Unit(u.what, u.owner, u.context, u.lines, u.reason)
  /\ u.lines # {} /\ u.lines \subseteq lines
  /\ \A l \in u.lines : Has(u.context, l)
  /\ u.context.first <= u.owner.first /\ u.owner.last <= u.context.last
  /\ 1 <= u.context.first /\ u.context.last <= source.lines
  /\ \/ u.what = "region" /\ u.owner \in source.regions /\ u.reason = "changed_review_region"
     \/ u.what = "declaration" /\ u.owner \in source.declarations /\ u.reason = WhyShown(source, u.owner)
     \/ u.what = "fallback" /\ u.reason = "fallback_window"

\* The reason of a declaration does not depend on the run.
LEMMA ReasonsAgree ==
  ASSUME NEW source, IsSource(source), NEW run, run[1] \in Nat, run[2] \in Nat,
         NEW d \in source.declarations, Overlaps(d, run)
  PROVE  ReasonOf(source, run, d) = WhyShown(source, d)
<1> DEFINE covering == {x \in source.declarations : Overlaps(x, run)}
<1>1. d \in covering
  OBVIOUS
<1>2. ASSUME NEW b \in source.declarations, Within(b, d) PROVE b \in covering
  <2>1. b.first \in Nat /\ b.last \in Nat /\ d.first \in Nat /\ d.last \in Nat
    BY DEF IsSource, IsDeclaration
  <2>2. Overlaps(b, run)
    BY <1>2, <2>1 DEF Overlaps, Within
  <2> QED BY <2>2
<1>3. \A b : b \in LargeBuilds(covering) => b \in LargeBuilds(source.declarations)
  BY DEF LargeBuilds
<1>4. \A b : b \in LargeBuilds(source.declarations) /\ Within(b, d) => b \in LargeBuilds(covering)
  <2> HIDE DEF covering
  <2> QED BY <1>2 DEF LargeBuilds
<1>5. d \in UiBlocks(covering) <=> d \in UiBlocks(source.declarations)
  <2> HIDE DEF covering
  <2> QED BY <1>1, <1>3, <1>4 DEF UiBlocks
<1> QED BY <1>5 DEF ReasonOf, WhyShown

\* Lines of a run are given to declarations that hold them.
LEMMA AssignShape ==
  ASSUME NEW source, NEW run, NEW a \in AssignDeclarations(source, run)
  PROVE  /\ a.owner \in source.declarations /\ Overlaps(a.owner, run)
         /\ a.lines # {} /\ a.lines \subseteq run[1] .. run[2]
         /\ \A l \in a.lines : Has(a.owner, l)
<1> DEFINE covering == {d \in source.declarations : Overlaps(d, run)}
           hosts == {d \in covering : d.kind \in Host}
<1>1. PICK candidates \in {Candidates(covering), hosts, covering} : a \in Linewise(candidates, run)
  BY DEF AssignDeclarations
<1>2. candidates \subseteq covering
  BY DEF Candidates, UiBlocks
<1>3. a.owner \in candidates
  BY <1>1, LinewiseShape
<1> HIDE DEF hosts
<1>4. a.owner \in covering
  BY <1>2, <1>3
<1>5. a.lines # {} /\ a.lines \subseteq run[1] .. run[2] /\ \A l \in a.lines : Has(a.owner, l)
  BY <1>1, LinewiseShape
<1> QED BY <1>4, <1>5

\* A line of a run that a method, function or builder holds is given to a
\* declaration.
LEMMA PreciseTake ==
  ASSUME NEW source, IsSource(source), NEW run, run[1] \in Nat, run[2] \in Nat, NEW l \in run[1] .. run[2],
         NEW d \in source.declarations, d.kind \in Precise, Has(d, l)
  PROVE  \E a \in AssignDeclarations(source, run) : l \in a.lines
<1> DEFINE covering == {x \in source.declarations : Overlaps(x, run)}
           precise == Linewise(Candidates(covering), run)
<1>1. d.first \in Nat /\ d.last \in Nat
  BY DEF IsSource, IsDeclaration
<1>2. d \in covering
  BY <1>1 DEF Overlaps, Has
<1>3. d \in Candidates(covering)
  BY <1>2 DEF Candidates
<1>4. \A x \in Candidates(covering) : IsDeclaration(x)
  <2>1. Candidates(covering) \subseteq source.declarations
    BY DEF Candidates, UiBlocks
  <2> HIDE DEF covering
  <2> QED BY <2>1 DEF IsSource
<1>5. \E a \in precise : l \in a.lines
  <2> HIDE DEF covering
  <2> QED BY <1>3, <1>4, LinewiseTakes
<1>6. AssignDeclarations(source, run) = precise
  <2>1. precise # {}
    BY <1>5
  <2> QED BY <2>1 DEF AssignDeclarations
<1> QED BY <1>5, <1>6

\* The window of a run without declarations is around it.
LEMMA WindowAround ==
  ASSUME NEW source, IsSource(source), NEW run, run[1] \in Nat \ {0}, run[2] \in Nat,
         run[1] <= run[2], run[2] <= source.lines
  PROVE  LET u == FallbackUnit(source, run) IN
         /\ u = Unit("fallback", [first |-> run[1], last |-> run[2]], u.context, run[1] .. run[2],
                     "fallback_window")
         /\ u.context.first \in Nat \ {0} /\ u.context.first <= run[1]
         /\ u.context.last \in Nat /\ run[2] <= u.context.last /\ u.context.last <= source.lines
<1> DEFINE u == FallbackUnit(source, run)
<1>1. source.lines \in Nat /\ Window \in Nat
  BY ChangeAssumption DEF IsSource
<1> DEFINE end == run[2] + Window
<1>2. /\ Min({source.lines, end}) = source.lines \/ Min({source.lines, end}) = end
      /\ Min({source.lines, end}) <= source.lines
  <2>1. end \in Nat
    BY <1>1
  <2> HIDE DEF end
  <2>2. CASE source.lines <= end
    <3>1. Min({source.lines, end}) = source.lines
      BY <1>1, <2>1, <2>2 DEF Min
    <3> QED BY <1>1, <3>1
  <2>3. CASE end < source.lines
    <3>1. Min({source.lines, end}) = end
      BY <1>1, <2>1, <2>3 DEF Min
    <3> QED BY <1>1, <2>1, <2>3, <3>1
  <2> QED BY <1>1, <2>1, <2>2, <2>3
<1>4. u.context = [first |-> IF run[1] > Window THEN run[1] - Window ELSE 1,
                   last |-> Min({source.lines, run[2] + Window})]
  BY DEF FallbackUnit, Unit
<1>5. u.context.first \in Nat \ {0} /\ u.context.first <= run[1]
  BY <1>1, <1>4
<1>6. u.context.last \in Nat /\ run[2] <= u.context.last /\ u.context.last <= source.lines
  BY <1>1, <1>2, <1>4
<1>7. u = Unit("fallback", [first |-> run[1], last |-> run[2]], u.context, run[1] .. run[2],
               "fallback_window")
  BY DEF FallbackUnit, Unit
<1> QED BY <1>5, <1>6, <1>7

\* The units of a run.
LEMMA RunUnits ==
  ASSUME NEW source, IsSource(source), NEW lines, NEW run, run[1] \in Nat \ {0}, run[2] \in Nat,
         run[1] <= run[2], run[2] <= source.lines, run[1] .. run[2] \subseteq lines,
         NEW u \in UnitsForRun(source, run)
  PROVE  UnitOf(source, lines, u) /\ u.what # "region" /\ u.lines \subseteq run[1] .. run[2]
<1>1. CASE \A d \in source.declarations : ~Overlaps(d, run)
  <2>1. u = FallbackUnit(source, run)
    BY <1>1 DEF UnitsForRun
  <2>2. /\ u = Unit("fallback", [first |-> run[1], last |-> run[2]], u.context, run[1] .. run[2],
                    "fallback_window")
        /\ u.context.first \in Nat \ {0} /\ u.context.first <= run[1]
        /\ u.context.last \in Nat /\ run[2] <= u.context.last /\ u.context.last <= source.lines
    BY <2>1, WindowAround
  <2>3. /\ u.what = "fallback" /\ u.owner = [first |-> run[1], last |-> run[2]]
        /\ u.lines = run[1] .. run[2] /\ u.reason = "fallback_window"
    BY <2>2 DEF Unit
  <2>4. \A l \in u.lines : Has(u.context, l)
    BY <2>2, <2>3 DEF Has
  <2>5. run[1] \in u.lines
    BY <2>3
  <2>6. u = Unit(u.what, u.owner, u.context, u.lines, u.reason)
    BY <2>2, <2>3
  <2>7. /\ u.context.first <= u.owner.first /\ u.owner.last <= u.context.last
        /\ 1 <= u.context.first /\ u.context.last <= source.lines
    BY <2>2, <2>3
  <2>8. u.lines \subseteq lines /\ u.what # "region"
    BY <2>3
  <2> QED BY <2>3, <2>4, <2>5, <2>6, <2>7, <2>8 DEF UnitOf
<1>2. CASE ~\A d \in source.declarations : ~Overlaps(d, run)
  <2>1. PICK a \in AssignDeclarations(source, run) :
          u = Unit("declaration", a.owner, Span(a.owner), a.lines, ReasonOf(source, run, a.owner))
    BY <1>2 DEF UnitsForRun
  <2>2. /\ a.owner \in source.declarations /\ Overlaps(a.owner, run)
        /\ a.lines # {} /\ a.lines \subseteq run[1] .. run[2]
        /\ \A l \in a.lines : Has(a.owner, l)
    BY AssignShape
  <2>3. ReasonOf(source, run, a.owner) = WhyShown(source, a.owner)
    BY <2>2, ReasonsAgree
  <2>4. /\ u.what = "declaration" /\ u.owner = a.owner /\ u.context = Span(a.owner)
        /\ u.lines = a.lines /\ u.reason = WhyShown(source, u.owner)
    BY <2>1, <2>3 DEF Unit
  <2>5. u = Unit(u.what, u.owner, u.context, u.lines, u.reason)
    BY <2>1, <2>3, <2>4
  <2>6. a.owner.first \in Nat \ {0} /\ a.owner.last \in Nat /\ a.owner.last <= source.lines
    BY <2>2 DEF IsSource, IsDeclaration
  <2>7. u.context.first = a.owner.first /\ u.context.last = a.owner.last
    BY <2>4 DEF Span
  <2>8. \A l \in u.lines : Has(u.context, l)
    BY <2>2, <2>4, <2>7 DEF Has
  <2>9. /\ u.context.first <= u.owner.first /\ u.owner.last <= u.context.last
        /\ 1 <= u.context.first /\ u.context.last <= source.lines
    BY <2>4, <2>6, <2>7
  <2>10. u.lines \subseteq run[1] .. run[2] /\ u.lines \subseteq lines /\ u.lines # {} /\ u.what # "region"
    BY <2>2, <2>4
  <2> QED BY <2>2, <2>4, <2>5, <2>8, <2>9, <2>10 DEF UnitOf
<1> QED BY <1>1, <1>2

\* The units of the regions.
LEMMA RegionUnitShape ==
  ASSUME NEW source, IsSource(source), NEW lines, NEW u \in RegionUnits(source, lines)
  PROVE  /\ UnitOf(source, lines, u) /\ u.what = "region"
         /\ u.lines = RegionLines(u.owner, source, lines) /\ u.context = Span(u.owner)
<1>1. PICK r \in source.regions :
        /\ RegionLines(r, source, lines) # {}
        /\ u = Unit("region", r, Span(r), RegionLines(r, source, lines), "changed_review_region")
  BY DEF RegionUnits
<1>2. /\ u.what = "region" /\ u.owner = r /\ u.context = Span(r)
      /\ u.lines = RegionLines(r, source, lines) /\ u.reason = "changed_review_region"
  BY <1>1 DEF Unit
<1>3. r.first \in Nat \ {0} /\ r.last \in Nat /\ r.last <= source.lines
  BY DEF IsSource, IsRegion
<1>4. u.context.first = r.first /\ u.context.last = r.last
  BY <1>2 DEF Span
<1>5. \A l \in u.lines : l \in lines /\ Has(r, l)
  BY <1>2 DEF RegionLines
<1>6. \A l \in u.lines : Has(u.context, l)
  BY <1>4, <1>5 DEF Has
<1>7. u = Unit(u.what, u.owner, u.context, u.lines, u.reason)
  BY <1>1, <1>2
<1>8. /\ u.context.first <= u.owner.first /\ u.owner.last <= u.context.last
      /\ 1 <= u.context.first /\ u.context.last <= source.lines
  BY <1>2, <1>3, <1>4
<1>9. u.lines # {} /\ u.lines \subseteq lines
  BY <1>1, <1>2, <1>5
<1> QED BY <1>2, <1>6, <1>7, <1>8, <1>9 DEF UnitOf

\* Two units of a source with one identity have one reason.
LEMMA SameReason ==
  ASSUME NEW source, NEW lines, NEW u, NEW v, UnitOf(source, lines, u), UnitOf(source, lines, v),
         Identity(u) = Identity(v)
  PROVE  u.what = v.what /\ u.owner = v.owner /\ u.context = v.context /\ u.reason = v.reason
BY DEF UnitOf, Identity

LEMMA UnitOfFits ==
  ASSUME NEW source, NEW lines, NEW u, UnitOf(source, lines, u)
  PROVE  UnitFits(u)
<1>1. u.what = "fallback" <=> u.reason = "fallback_window"
  <2>1. u.reason = "fallback_window" => u.what \notin {"region", "declaration"}
    BY DEF UnitOf, WhyShown
  <2> QED BY <2>1 DEF UnitOf
<1>2. /\ u.context.first <= u.owner.first /\ u.owner.last <= u.context.last
      /\ u.lines # {} /\ \A l \in u.lines : Has(u.context, l)
  BY DEF UnitOf
<1> QED BY <1>1, <1>2 DEF UnitFits

\* Two units with one identity and the same lines are one.
LEMMA SameUnit ==
  ASSUME NEW source, NEW lines, NEW u, NEW v, UnitOf(source, lines, u), UnitOf(source, lines, v),
         Identity(u) = Identity(v), u.lines = v.lines
  PROVE  u = v
<1>1. u = Unit(u.what, u.owner, u.context, u.lines, u.reason)
  BY DEF UnitOf
<1>2. v = Unit(v.what, v.owner, v.context, v.lines, v.reason)
  BY DEF UnitOf
<1> QED BY <1>1, <1>2, SameReason

\* What merging makes of the units of a source.
LEMMA MergedShape ==
  ASSUME NEW source, NEW lines, NEW us, \A u \in us : UnitOf(source, lines, u)
  PROVE  /\ MayMerge(us)
         /\ \A m \in Merged(us) :
              /\ UnitOf(source, lines, m)
              /\ \E u \in us : m.what = u.what
         /\ \A m, n \in Merged(us) : Identity(m) = Identity(n) => m = n
         /\ Claimed(Merged(us)) = Claimed(us)
<1> DEFINE all(u) == UNION {v.lines : v \in {w \in us : Identity(w) = Identity(u)}}
           merged(u) == [u EXCEPT !.lines = all(u)]
<1>1. MayMerge(us)
  BY SameReason DEF MayMerge
<1>2. ASSUME NEW u \in us
      PROVE  /\ merged(u) = Unit(u.what, u.owner, u.context, all(u), u.reason)
             /\ Identity(merged(u)) = Identity(u)
             /\ u.lines \subseteq all(u)
             /\ UnitOf(source, lines, merged(u))
  <2>1. u = Unit(u.what, u.owner, u.context, u.lines, u.reason)
    BY <1>2 DEF UnitOf
  <2>2. merged(u) = Unit(u.what, u.owner, u.context, all(u), u.reason)
    <3> HIDE DEF all
    <3> DEFINE w == u.what
               o == u.owner
               c == u.context
               s == u.reason
    <3>1. u = [what |-> w, owner |-> o, context |-> c, lines |-> u.lines, reason |-> s]
      BY <2>1 DEF Unit
    <3> HIDE DEF w, o, c, s
    <3>2. [u EXCEPT !.lines = all(u)] = [what |-> w, owner |-> o, context |-> c, lines |-> all(u), reason |-> s]
      BY <3>1
    <3> QED BY <3>2 DEF Unit, w, o, c, s
  <2>3. /\ merged(u).what = u.what /\ merged(u).owner = u.owner /\ merged(u).context = u.context
        /\ merged(u).lines = all(u) /\ merged(u).reason = u.reason
    BY <2>2 DEF Unit
  <2>4. Identity(merged(u)) = Identity(u)
    BY <2>3 DEF Identity
  <2>5. u.lines \subseteq all(u)
    OBVIOUS
  <2>6. \A w \in us : Identity(w) = Identity(u) =>
          w.lines \subseteq lines /\ \A l \in w.lines : Has(u.context, l)
    BY SameReason DEF UnitOf
  <2>7. all(u) \subseteq lines /\ \A l \in all(u) : Has(u.context, l)
    BY <2>6
  <2>8. all(u) # {}
    BY <1>2, <2>5 DEF UnitOf
  <2> HIDE DEF merged, all
  <2>9. UnitOf(source, lines, merged(u))
    BY <1>2, <2>2, <2>3, <2>7, <2>8 DEF UnitOf
  <2> QED BY <2>2, <2>4, <2>5, <2>9
<1>3. Merged(us) = {merged(u) : u \in us}
  BY DEF Merged
<1>4. ASSUME NEW u \in us, NEW v \in us, Identity(merged(u)) = Identity(merged(v))
      PROVE  merged(u) = merged(v)
  <2>1. Identity(u) = Identity(v)
    BY <1>2, <1>4
  <2>2. all(u) = all(v)
    BY <2>1
  <2>3. merged(u) = Unit(u.what, u.owner, u.context, all(u), u.reason)
    BY <1>2
  <2>4. merged(v) = Unit(v.what, v.owner, v.context, all(v), v.reason)
    BY <1>2
  <2> HIDE DEF merged, all
  <2> QED BY <2>1, <2>2, <2>3, <2>4, SameReason
<1>5. \A u \in us : merged(u).lines = all(u) /\ merged(u).what = u.what
  <2> HIDE DEF merged, all
  <2> QED BY <1>2 DEF Unit
<1>6. Claimed(Merged(us)) = Claimed(us)
  <2>1. \A u \in us : all(u) \subseteq Claimed(us) /\ u.lines \subseteq all(u)
    BY <1>2 DEF Claimed
  <2> HIDE DEF merged, all
  <2> QED BY <1>3, <1>5, <2>1 DEF Claimed
<1> HIDE DEF merged, all
<1>7. \A m \in Merged(us) : UnitOf(source, lines, m) /\ \E u \in us : m.what = u.what
  BY <1>2, <1>3, <1>5
<1>8. \A m, n \in Merged(us) : Identity(m) = Identity(n) => m = n
  BY <1>3, <1>4
<1> QED BY <1>1, <1>6, <1>7, <1>8

\* the units of all runs, and all units of some lines of a source
RunsUnits(source, lines) == UNION {UnitsForRun(source, run) : run \in Runs(Remaining(source, lines))}
AllUnits(source, lines) == RegionUnits(source, lines) \cup Merged(RunsUnits(source, lines))

LEMMA RunsUnitsShape ==
  ASSUME NEW source, IsSource(source), NEW lines, lines \subseteq 1 .. source.lines
  PROVE  \A u \in RunsUnits(source, lines) : UnitOf(source, lines, u) /\ u.what # "region"
<1>1. SUFFICES ASSUME NEW run \in Runs(Remaining(source, lines)), NEW u \in UnitsForRun(source, run)
               PROVE  UnitOf(source, lines, u) /\ u.what # "region"
  BY DEF RunsUnits
<1>2. Remaining(source, lines) \subseteq lines /\ source.lines \in Nat
  BY DEF Remaining, IsSource
<1>3. lines \subseteq Nat \ {0}
  BY <1>2
<1>4. Remaining(source, lines) \subseteq Nat \ {0}
  BY <1>2, <1>3
<1>5. /\ run[1] \in Nat \ {0} /\ run[2] \in Nat \ {0} /\ run[1] <= run[2]
      /\ run[2] \in Remaining(source, lines) /\ run[1] .. run[2] \subseteq Remaining(source, lines)
  BY <1>4, RunShape
<1>6. run[1] .. run[2] \subseteq lines /\ run[2] \in 1 .. source.lines
  BY <1>2, <1>5
<1>7. run[2] <= source.lines
  BY <1>2, <1>6
<1> QED BY <1>5, <1>6, <1>7, RunUnits

\* All units of a source are well formed, no two have one identity, and what
\* can be shown of the lines is.
LEMMA AllUnitsShape ==
  ASSUME NEW source, IsSource(source), NEW lines, lines \subseteq 1 .. source.lines
  PROVE  /\ MayMerge(RunsUnits(source, lines))
         /\ \A u \in AllUnits(source, lines) : UnitOf(source, lines, u) /\ UnitFits(u)
         /\ \A u, v \in AllUnits(source, lines) : Identity(u) = Identity(v) => u = v
         /\ \A l \in lines : Shown(source, l) => l \in Claimed(AllUnits(source, lines))
<1> DEFINE runs == RunsUnits(source, lines)
           regions == RegionUnits(source, lines)
<1>1. /\ MayMerge(runs)
      /\ \A m \in Merged(runs) : UnitOf(source, lines, m) /\ m.what # "region"
      /\ \A m, n \in Merged(runs) : Identity(m) = Identity(n) => m = n
      /\ Claimed(Merged(runs)) = Claimed(runs)
  <2>1. \A u \in runs : UnitOf(source, lines, u) /\ u.what # "region"
    BY RunsUnitsShape
  <2> HIDE DEF runs
  <2>2. /\ MayMerge(runs)
        /\ \A m \in Merged(runs) : UnitOf(source, lines, m) /\ \E u \in runs : m.what = u.what
        /\ \A m, n \in Merged(runs) : Identity(m) = Identity(n) => m = n
        /\ Claimed(Merged(runs)) = Claimed(runs)
    BY <2>1, MergedShape
  <2> QED BY <2>1, <2>2
<1>2. \A u \in regions : /\ UnitOf(source, lines, u) /\ u.what = "region"
                         /\ u.lines = RegionLines(u.owner, source, lines)
  BY RegionUnitShape
<1>3. \A u \in AllUnits(source, lines) : UnitOf(source, lines, u) /\ UnitFits(u)
  BY <1>1, <1>2, UnitOfFits DEF AllUnits
<1>4. ASSUME NEW u \in AllUnits(source, lines), NEW v \in AllUnits(source, lines), Identity(u) = Identity(v)
      PROVE  u = v
  <2>1. u.what = v.what /\ u.owner = v.owner
    BY <1>3, <1>4, SameReason
  <2>2. CASE u \in regions /\ v \in regions
    BY <1>2, <1>3, <1>4, <2>1, <2>2, SameUnit
  <2>3. CASE u \in Merged(runs) /\ v \in Merged(runs)
    BY <1>1, <1>4, <2>3
  <2> QED BY <1>1, <1>2, <2>1, <2>2, <2>3 DEF AllUnits
<1>5. ASSUME NEW l \in lines, Shown(source, l)
      PROVE  l \in Claimed(AllUnits(source, lines))
  <2>1. CASE \E r \in source.regions : Has(r, l)
    <3>1. PICK r \in source.regions : l \in RegionLines(r, source, lines)
      BY <2>1, RegionsTakeLines
    <3> DEFINE u == Unit("region", r, Span(r), RegionLines(r, source, lines), "changed_review_region")
    <3>2. u \in regions
      BY <3>1 DEF RegionUnits
    <3>3. u.lines = RegionLines(r, source, lines)
      BY DEF Unit
    <3> HIDE DEF u, regions
    <3>4. u \in AllUnits(source, lines)
      BY <3>2 DEF AllUnits, regions
    <3> QED BY <3>1, <3>3, <3>4 DEF Claimed
  <2>2. CASE \A r \in source.regions : ~Has(r, l)
    <3>1. PICK d \in source.declarations : d.kind \in Precise /\ Has(d, l)
      BY <1>5, <2>2 DEF Shown
    <3>2. l \in Remaining(source, lines)
      BY <2>2 DEF Remaining
    <3>3. source.lines \in Nat /\ Remaining(source, lines) \subseteq 1 .. source.lines
      BY DEF IsSource, Remaining
    <3>4. PICK run \in Runs(Remaining(source, lines)) : l \in run[1] .. run[2]
      BY <3>2, <3>3, RunsCover
    <3>5. run[1] \in Nat /\ run[2] \in Nat
      <4>1. Remaining(source, lines) \subseteq Nat \ {0}
        BY <3>3
      <4> QED BY <4>1, RunShape
    <3>6. PICK a \in AssignDeclarations(source, run) : l \in a.lines
      BY <3>1, <3>4, <3>5, PreciseTake
    <3>7. d.first \in Nat /\ d.last \in Nat
      BY DEF IsSource, IsDeclaration
    <3>8. Overlaps(d, run)
      BY <3>1, <3>4, <3>5, <3>7 DEF Overlaps, Has
    <3>9. Unit("declaration", a.owner, Span(a.owner), a.lines, ReasonOf(source, run, a.owner))
            \in UnitsForRun(source, run)
      BY <3>8 DEF UnitsForRun
    <3>10. PICK u \in runs : u.lines = a.lines
      BY <3>4, <3>9 DEF RunsUnits, Unit
    <3>11. l \in Claimed(runs)
      BY <3>6, <3>10 DEF Claimed
    <3> QED BY <1>1, <3>11 DEF Claimed, AllUnits
  <2> QED BY <2>1, <2>2
<1> QED BY <1>1, <1>3, <1>4, <1>5

-----------------------------------------------------------------------------
(* The result of a source.                                                 *)

\* the lines of a side
SideLines(file, r) == LinesOf(SideAtoms(file, r), r)

\* a text file of a diff that was admitted
Admitted(file) ==
  /\ ~file.binary /\ Normalizes(file)
  /\ \A r \in Role : IsSource(file.source[r])
  /\ \A atom \in file.atoms : IsAtom(atom)

LEMMA AdmittedLines ==
  ASSUME NEW file, Admitted(file), NEW r \in Role
  PROVE  /\ SideLines(file, r) \subseteq 1 .. file.source[r].lines
         /\ \A atom \in SideAtoms(file, r) : atom.span[r][2] <= file.source[r].lines /\ atom.lines[r] # {}
         /\ Disjoint(SideAtoms(file, r), r)
         /\ LinesOf(file.atoms, r) = SideLines(file, r)
         /\ r \notin Roles(file) => SideAtoms(file, r) = {}
<1>1. \A atom \in file.atoms : AtomFits(file, atom) /\ IsAtom(atom)
  BY DEF Admitted, Normalizes
<1>2. Disjoint(file.atoms, r)
  BY DEF Admitted, Normalizes
<1>3. Disjoint(SideAtoms(file, r), r)
  BY <1>2 DEF Disjoint, SideAtoms
<1>4. file.source[r].lines \in Nat
  BY DEF Admitted, IsSource
<1>5. ASSUME NEW atom \in SideAtoms(file, r)
      PROVE  /\ atom.span[r][2] <= file.source[r].lines /\ atom.lines[r] # {} /\ r \in Roles(file)
             /\ atom.lines[r] \subseteq 1 .. file.source[r].lines
  <2>1. /\ r \in Roles(file) /\ atom.lines[r] # {} /\ atom.span[r] # <<>>
        /\ atom.span[r][2] <= file.source[r].lines
        /\ atom.lines[r] \subseteq atom.span[r][1] .. atom.span[r][2]
    BY <1>1, <1>5 DEF SideAtoms, AtomFits
  <2>2. /\ atom.span[r][1] \in Nat \ {0} /\ atom.span[r][2] \in Nat \ {0}
        /\ atom.lines[r] \subseteq Nat \ {0}
    BY <1>1, <1>5, <2>1 DEF SideAtoms, IsAtom
  <2>3. \A l \in atom.lines[r] : l \in Nat \ {0} /\ l \in atom.span[r][1] .. atom.span[r][2]
    BY <2>1, <2>2
  <2>4. \A l \in atom.lines[r] : l \in 1 .. file.source[r].lines
    BY <1>4, <2>1, <2>2, <2>3
  <2> QED BY <2>1, <2>4
<1>6. SideLines(file, r) \subseteq 1 .. file.source[r].lines
  BY <1>5 DEF SideLines, LinesOf
<1>7. LinesOf(file.atoms, r) = SideLines(file, r)
  <2>1. \A atom \in file.atoms : atom \in SideAtoms(file, r) \/ atom.lines[r] = {}
    BY <1>1 DEF SideAtoms, AtomFits
  <2> QED BY <2>1 DEF SideLines, LinesOf, SideAtoms
<1> QED BY <1>3, <1>5, <1>6, <1>7

\* What a result says of its source.
ResultTrue(set, f, r, result) ==
  LET file == set[f]
      side == SideAtoms(file, r)
  IN /\ result.file = f /\ result.role = r
     /\ result.unassigned \subseteq side
     /\ \A u \in result.units : UnitOf(file.source[r], SideLines(file, r), u)
     /\ \A atom \in side :
          Claimed(result.units) \cap atom.lines[r] = IF atom \in result.unassigned THEN {} ELSE atom.lines[r]
     /\ \A atom \in result.unassigned : \E l \in atom.lines[r] : ~Shown(file.source[r], l)

\* units of some lines of a source, no two of which have one identity
WellMade(source, lines, us) ==
  /\ \A u \in us : UnitOf(source, lines, u)
  /\ \A u, v \in us : Identity(u) = Identity(v) => u = v

LEMMA DroppedShape ==
  ASSUME NEW source, NEW lines, NEW us, NEW lost, WellMade(source, lines, us)
  PROVE  /\ WellMade(source, lines, Dropped(us, lost))
         /\ Claimed(Dropped(us, lost)) = Claimed(us) \ lost
<1> DEFINE rest(u) == [u EXCEPT !.lines = @ \ lost]
<1>1. ASSUME NEW u \in us
      PROVE  /\ rest(u).lines = u.lines \ lost /\ Identity(rest(u)) = Identity(u)
             /\ rest(u).lines # {} => UnitOf(source, lines, rest(u))
  <2> DEFINE w == u.what
             o == u.owner
             c == u.context
             s == u.reason
  <2>1. u = [what |-> w, owner |-> o, context |-> c, lines |-> u.lines, reason |-> s]
    BY <1>1 DEF WellMade, UnitOf, Unit
  <2> HIDE DEF w, o, c, s
  <2>2. rest(u) = [what |-> w, owner |-> o, context |-> c, lines |-> u.lines \ lost, reason |-> s]
    BY <2>1
  <2> HIDE DEF rest
  <2>3. /\ rest(u).what = u.what /\ rest(u).owner = u.owner /\ rest(u).context = u.context
        /\ rest(u).lines = u.lines \ lost /\ rest(u).reason = u.reason
        /\ rest(u) = Unit(u.what, u.owner, u.context, u.lines \ lost, u.reason)
    BY <2>2 DEF w, o, c, s, Unit
  <2>4. Identity(rest(u)) = Identity(u)
    BY <2>3 DEF Identity
  <2>5. rest(u).lines # {} => UnitOf(source, lines, rest(u))
    BY <1>1, <2>3 DEF WellMade, UnitOf
  <2> QED BY <2>3, <2>4, <2>5
<1>2. Dropped(us, lost) = {u \in {rest(v) : v \in us} : u.lines # {}}
  BY DEF Dropped
<1> HIDE DEF rest
<1>3. \A u \in Dropped(us, lost) : \E v \in us : u = rest(v) /\ u.lines # {}
  BY <1>2
<1>4. \A u \in Dropped(us, lost) : UnitOf(source, lines, u)
  BY <1>1, <1>3
<1>5. \A u, v \in Dropped(us, lost) : Identity(u) = Identity(v) => u = v
  BY <1>1, <1>3 DEF WellMade
<1>6. Claimed(Dropped(us, lost)) = Claimed(us) \ lost
  <2>1. \A l \in Claimed(Dropped(us, lost)) : l \in Claimed(us) \ lost
    BY <1>1, <1>3 DEF Claimed
  <2>2. ASSUME NEW l \in Claimed(us) \ lost PROVE l \in Claimed(Dropped(us, lost))
    <3>1. PICK v \in us : l \in v.lines
      BY <2>2 DEF Claimed
    <3>2. l \in rest(v).lines
      BY <1>1, <2>2, <3>1
    <3>3. rest(v) \in Dropped(us, lost)
      BY <1>2, <3>1, <3>2
    <3> QED BY <3>2, <3>3 DEF Claimed
  <2> QED BY <2>1, <2>2
<1> QED BY <1>4, <1>5, <1>6 DEF WellMade

\* The builder never trips over its own checks, and its result is true.
LEMMA ResultsHold ==
  ASSUME NEW set, NEW f \in DOMAIN set, NEW r \in Role, Admitted(set[f])
  PROVE  /\ Builds(set, f, r)
         /\ FileResultFits(set, FileResult(set, f, r))
         /\ ResultTrue(set, f, r, FileResult(set, f, r))
<1> DEFINE file == set[f]
           source == file.source[r]
           side == SideAtoms(file, r)
           lines == SideLines(file, r)
           all == AllUnits(source, lines)
           lost == Unassigned(file, r, all)
           gone == LinesOf(lost, r)
           units == Dropped(all, gone)
           result == FileResult(set, f, r)
<1>1. /\ lines \subseteq 1 .. source.lines
      /\ \A atom \in side : atom.span[r][2] <= source.lines /\ atom.lines[r] # {}
      /\ Disjoint(side, r)
  BY AdmittedLines
<1>2. IsSource(source)
  BY DEF Admitted
<1>3. result = [file |-> f, role |-> r, units |-> units, unassigned |-> lost]
  BY DEF FileResult, AllUnits, RunsUnits, SideLines
<1>4. Builds(set, f, r) <=>
        /\ \A atom \in side : atom.span[r][2] <= source.lines
        /\ Disjoint(side, r)
        /\ MayMerge(RunsUnits(source, lines))
        /\ \A u \in all : UnitFits(u)
  BY DEF Builds, AllUnits, RunsUnits, SideLines
<1> HIDE DEF source, side, lines, all, lost, gone, units, result
<1>5. /\ MayMerge(RunsUnits(source, lines))
      /\ \A u \in all : UnitOf(source, lines, u) /\ UnitFits(u)
      /\ \A u, v \in all : Identity(u) = Identity(v) => u = v
      /\ \A l \in lines : Shown(source, l) => l \in Claimed(all)
  BY <1>1, <1>2, AllUnitsShape DEF all
<1>6. Builds(set, f, r)
  BY <1>1, <1>4, <1>5
<1>7. /\ \A u \in units : UnitOf(source, lines, u)
      /\ \A u, v \in units : Identity(u) = Identity(v) => u = v
      /\ Claimed(units) = Claimed(all) \ gone
  <2>1. WellMade(source, lines, all)
    BY <1>5 DEF WellMade
  <2>2. WellMade(source, lines, Dropped(all, gone)) /\ Claimed(Dropped(all, gone)) = Claimed(all) \ gone
    BY <2>1, DroppedShape
  <2> QED BY <2>2 DEF units, WellMade
<1>8. /\ lost \subseteq side
      /\ \A atom \in side : atom \in lost <=> ~(atom.lines[r] \subseteq Claimed(all))
  BY DEF lost, Unassigned, side, Claimed
<1>9. \A atom \in side : atom.lines[r] \subseteq lines
  BY DEF side, lines, SideLines, LinesOf
<1>10. \A atom \in side :
         Claimed(units) \cap atom.lines[r] = IF atom \in lost THEN {} ELSE atom.lines[r]
  <2>1. ASSUME NEW atom \in lost PROVE Claimed(units) \cap atom.lines[r] = {}
    BY <1>7, <2>1 DEF gone, LinesOf
  <2>2. ASSUME NEW atom \in side, atom \notin lost PROVE Claimed(units) \cap atom.lines[r] = atom.lines[r]
    <3>1. atom.lines[r] \cap gone = {}
      BY <1>1, <1>8, <2>2 DEF gone, LinesOf, Disjoint
    <3>2. atom.lines[r] \subseteq Claimed(all)
      BY <1>8, <2>2
    <3> QED BY <1>7, <3>1, <3>2
  <2> QED BY <2>1, <2>2
<1>11. ASSUME NEW atom \in lost PROVE \E l \in atom.lines[r] : ~Shown(source, l)
  <2>1. PICK l \in atom.lines[r] : l \notin Claimed(all)
    BY <1>8, <1>11
  <2>2. l \in lines
    BY <1>8, <1>9, <1>11, <2>1
  <2> QED BY <1>5, <2>1, <2>2
<1>12. ResultTrue(set, f, r, result)
  <2>1. result.file = f /\ result.role = r /\ result.units = units /\ result.unassigned = lost
    BY <1>3
  <2> QED BY <1>7, <1>8, <1>10, <1>11, <2>1 DEF ResultTrue, source, side, lines
<1>13. FileResultFits(set, result)
  <2>1. result.file = f /\ result.role = r /\ result.units = units /\ result.unassigned = lost
    BY <1>3
  <2>2. \A u \in units : UnitFits(u)
    BY <1>7, UnitOfFits
  <2>3. \A u, v \in units : u # v => Identity(u) # Identity(v)
    BY <1>7
  <2>4. Claimed(units) \cap LinesOf(lost, r) = {}
    BY <1>7 DEF gone
  <2>5. AtomsOf(file, r, Claimed(units)) \cap lost = {}
    BY <1>8, <1>10 DEF AtomsOf, side
  <2> QED BY <2>1, <2>2, <2>3, <2>4, <2>5 DEF FileResultFits, Claimed
<1> QED BY <1>6, <1>12, <1>13 DEF result

-----------------------------------------------------------------------------
(* The review of a change set.                                             *)

\* the files of a diff that was admitted, and the results its sources may have
AllAdmitted == diff \in ChangeSets /\ \A f \in DOMAIN diff : Normalizes(diff[f]) /\ ChangedFileFits(diff[f])
ResultSet == {FileResult(diff, s[1], s[2]) : s \in SourcesOf(diff)}

ReviewInv ==
  /\ stage \in {"diff", "set", "build", "reviewed", "routed", "planning", "refused", "files"}
  /\ stage = "diff" => diff \in ChangeSets
  /\ stage \in {"set", "build", "reviewed", "routed"} \/ (stage = "planning" /\ diff # <<>>) => AllAdmitted
  /\ results \in Seq(ResultSet)
  /\ stage \in {"reviewed", "routed"} \/ (stage = "planning" /\ diff # <<>>) =>
       SourcesOf(diff) \subseteq MadeOf(results)

\* A source of a diff that was admitted is one of a text file.
LEMMA SourcesAdmitted ==
  ASSUME AllAdmitted, NEW s \in SourcesOf(diff)
  PROVE  s[1] \in DOMAIN diff /\ s[2] \in Role /\ s = <<s[1], s[2]>> /\ Admitted(diff[s[1]])
<1>1. s \in (DOMAIN diff) \X Role /\ s[2] \in Roles(diff[s[1]])
  BY DEF SourcesOf
<1>2. s[1] \in DOMAIN diff /\ s[2] \in Role /\ s = <<s[1], s[2]>>
  BY <1>1
<1>3. ~diff[s[1]].binary
  BY <1>1 DEF Roles
<1>4. Normalizes(diff[s[1]])
  BY <1>2 DEF AllAdmitted
<1>5. /\ \A r \in Role : IsSource(diff[s[1]].source[r])
      /\ \A atom \in diff[s[1]].atoms : IsAtom(atom)
  BY <1>2, ChangeAssumption DEF AllAdmitted
<1> QED BY <1>2, <1>3, <1>4, <1>5 DEF Admitted

\* Every result is that of a source, and true.
LEMMA ResultsAreTrue ==
  ASSUME AllAdmitted, results \in Seq(ResultSet), NEW k \in DOMAIN results
  PROVE  /\ <<results[k].file, results[k].role>> \in SourcesOf(diff)
         /\ ResultTrue(diff, results[k].file, results[k].role, results[k])
<1>1. results[k] \in ResultSet
  <2> HIDE DEF ResultSet
  <2>1. k \in 1 .. Len(results)
    OBVIOUS
  <2> QED BY <2>1, ElementOfSeq
<1>2. PICK s \in SourcesOf(diff) : results[k] = FileResult(diff, s[1], s[2])
  BY <1>1 DEF ResultSet
<1>3. s[1] \in DOMAIN diff /\ s[2] \in Role /\ s = <<s[1], s[2]>> /\ Admitted(diff[s[1]])
  BY SourcesAdmitted
<1>4. ResultTrue(diff, s[1], s[2], results[k])
  BY <1>2, <1>3, ResultsHold
<1>5. results[k].file = s[1] /\ results[k].role = s[2]
  BY <1>4 DEF ResultTrue
<1> QED BY <1>3, <1>4, <1>5

LEMMA InitReviews == PipelineInit => ReviewInv
<1>1. ASSUME PipelineInit PROVE results = <<>>
  BY <1>1 DEF PipelineInit, AnalysisInit, ReviewInit
<1>2. ASSUME PipelineInit
      PROVE  \/ stage = "diff" /\ diff \in ChangeSets
             \/ stage = "planning" /\ diff = <<>>
             \/ stage = "files"
  BY <1>2 DEF PipelineInit, AnalysisInit, ReviewInit
<1>3. ASSUME results = <<>> PROVE results \in Seq(ResultSet)
  BY <1>3
<1> QED BY <1>1, <1>2, <1>3 DEF ReviewInv

\* A diff that was admitted passes the same checks again.
LEMMA AdmittedAgain ==
  ASSUME AllAdmitted
  PROVE  \A f \in DOMAIN diff : ChangedFileFits(diff[f]) /\ SnapshotsFit(diff[f])
BY DEF AllAdmitted, Normalizes, SnapshotsFit

\* The graph of all results is in order.
LEMMA GraphIsWhole ==
  ASSUME AllAdmitted, results \in Seq(ResultSet), SourcesOf(diff) \subseteq MadeOf(results)
  PROVE  GraphFits(diff, results)
<1>1. \A k \in DOMAIN results : /\ <<results[k].file, results[k].role>> \in SourcesOf(diff)
                               /\ ResultTrue(diff, results[k].file, results[k].role, results[k])
  BY ResultsAreTrue
<1>2. MadeOf(results) = SourcesOf(diff)
  BY <1>1 DEF MadeOf
<1>3. ASSUME NEW k \in DOMAIN results
      PROVE  LET side == SideAtoms(diff[results[k].file], results[k].role)
                 covered == UNION {u.lines : u \in results[k].units}
             IN /\ results[k].unassigned \subseteq side
                /\ covered \subseteq LinesOf(side, results[k].role)
                /\ \A atom \in side :
                     covered \cap atom.lines[results[k].role]
                       = IF atom \in results[k].unassigned THEN {} ELSE atom.lines[results[k].role]
  <2> DEFINE side == SideAtoms(diff[results[k].file], results[k].role)
  <2>1. ResultTrue(diff, results[k].file, results[k].role, results[k])
    BY <1>1
  <2>2. Claimed(results[k].units) \subseteq LinesOf(side, results[k].role)
    BY <2>1 DEF ResultTrue, UnitOf, Claimed, SideLines
  <2>3. /\ results[k].unassigned \subseteq side
        /\ \A atom \in side :
             Claimed(results[k].units) \cap atom.lines[results[k].role]
               = IF atom \in results[k].unassigned THEN {} ELSE atom.lines[results[k].role]
    BY <2>1 DEF ResultTrue
  <2> QED BY <2>2, <2>3 DEF Claimed
<1> QED BY <1>2, <1>3 DEF GraphFits

\* Every unit was made of its own source.
LEMMA OwnersMatch ==
  ASSUME AllAdmitted, results \in Seq(ResultSet), NEW x \in UnitsOf(results)
  PROVE  OwnerMatches(diff[x.file].source[x.role], x.unit)
<1>1. PICK k \in DOMAIN results :
        \E u \in results[k].units : x = [file |-> results[k].file, role |-> results[k].role, unit |-> u]
  BY DEF UnitsOf
<1>2. PICK u \in results[k].units : x = [file |-> results[k].file, role |-> results[k].role, unit |-> u]
  BY <1>1
<1>3. ResultTrue(diff, x.file, x.role, results[k])
  BY <1>2, ResultsAreTrue
<1>4. UnitOf(diff[x.file].source[x.role], SideLines(diff[x.file], x.role), x.unit)
  BY <1>2, <1>3 DEF ResultTrue
<1> QED BY <1>4 DEF UnitOf, OwnerMatches, Owned

LEMMA NextReviews == ReviewInv /\ [PipelineNext]_pipelineVars => ReviewInv'
<1> SUFFICES ASSUME ReviewInv, [PipelineNext]_pipelineVars PROVE ReviewInv'
  OBVIOUS
<1>1. CASE UNCHANGED reviewVars
  BY <1>1 DEF ReviewInv, reviewVars, AllAdmitted, ResultSet
<1>2. CASE Normalize
  <2>1. diff' = diff /\ results' = results /\ stage = "diff" /\ diff \in ChangeSets
    BY <1>2 DEF Normalize, ReviewInv
  <2> DEFINE fits == \A f \in DOMAIN diff : Normalizes(diff[f]) /\ ChangedFileFits(diff[f])
  <2>2. stage' = "refused" \/ (stage' = "set" /\ AllAdmitted)
    <3>1. stage' = IF fits THEN "set" ELSE "refused"
      BY <1>2 DEF Normalize
    <3> HIDE DEF fits
    <3>2. fits => AllAdmitted
      BY <2>1 DEF AllAdmitted, fits
    <3> QED BY <3>1, <3>2
  <2> QED BY <2>1, <2>2 DEF ReviewInv, AllAdmitted, ResultSet
<1>3. CASE BeginBuild
  <2>1. diff' = diff /\ results' = results /\ AllAdmitted
    BY <1>3 DEF BeginBuild, ReviewInv
  <2>2. stage' = "build"
    BY <1>3, <2>1, AdmittedAgain DEF BeginBuild
  <2> QED BY <2>1, <2>2 DEF ReviewInv, AllAdmitted, ResultSet
<1>4. CASE BuildSource
  <2>1. diff' = diff /\ AllAdmitted /\ stage = "build" /\ results \in Seq(ResultSet)
    BY <1>4 DEF BuildSource, ReviewInv
  <2>2. PICK s \in SourcesOf(diff) :
          IF Builds(diff, s[1], s[2]) /\ FileResultFits(diff, FileResult(diff, s[1], s[2]))
            THEN results' = Append(results, FileResult(diff, s[1], s[2])) /\ UNCHANGED stage
            ELSE stage' = "raised" /\ UNCHANGED results
    BY <1>4 DEF BuildSource
  <2>3. Builds(diff, s[1], s[2]) /\ FileResultFits(diff, FileResult(diff, s[1], s[2]))
    BY <2>1, SourcesAdmitted, ResultsHold
  <2>4. results' = Append(results, FileResult(diff, s[1], s[2])) /\ stage' = stage
    BY <2>2, <2>3
  <2>5. FileResult(diff, s[1], s[2]) \in ResultSet
    BY DEF ResultSet
  <2>6. ResultSet' = ResultSet /\ AllAdmitted'
    BY <2>1 DEF ResultSet, AllAdmitted
  <2>7. results' \in Seq(ResultSet)
    <3> HIDE DEF ResultSet
    <3> QED BY <2>1, <2>4, <2>5, AppendProperties
  <2> QED BY <2>1, <2>4, <2>6, <2>7 DEF ReviewInv
<1>5. CASE Assemble
  <2>1. /\ diff' = diff /\ results' = results /\ AllAdmitted /\ results \in Seq(ResultSet)
        /\ SourcesOf(diff) \subseteq MadeOf(results)
    BY <1>5 DEF Assemble, ReviewInv
  <2>2. stage' = "reviewed"
    BY <1>5, <2>1, GraphIsWhole DEF Assemble
  <2> QED BY <2>1, <2>2 DEF ReviewInv, AllAdmitted, ResultSet
<1>6. CASE RouteUnits
  <2>1. /\ diff' = diff /\ results' = results /\ AllAdmitted /\ results \in Seq(ResultSet)
        /\ SourcesOf(diff) \subseteq MadeOf(results)
    BY <1>6 DEF RouteUnits, ReviewInv
  <2>2. stage' = "routed"
    BY <1>6, <2>1, OwnersMatch DEF RouteUnits
  <2> QED BY <2>1, <2>2 DEF ReviewInv, AllAdmitted, ResultSet
<1>7. CASE PlanContext
  <2>1. /\ diff' = diff /\ results' = results /\ stage = "routed" /\ stage' = "planning"
    BY <1>7 DEF PlanContext
  <2> QED BY <2>1 DEF ReviewInv, AllAdmitted, ResultSet
<1>8. ReviewStep => Normalize \/ BeginBuild \/ BuildSource \/ Assemble
  BY DEF ReviewStep, ReviewNext
<1>9. PlanStep \/ Ended => UNCHANGED reviewVars
  BY DEF PlanStep, Ended, allVars
<1>10. FileStep \/ AskForEvidence \/ RetrievalStep \/ UNCHANGED pipelineVars => UNCHANGED reviewVars
  BY DEF FileStep, AskForEvidence, RetrievalStep, allVars, pipelineVars
<1> QED
  BY <1>1, <1>2, <1>3, <1>4, <1>5, <1>6, <1>7, <1>8, <1>9, <1>10
  DEF PipelineNext, AnalysisStep, AnalysisNext

LEMMA ReviewsAreComplete == ReviewInv => EveryLineIsReviewedOrReported
<1> SUFFICES ASSUME ReviewInv PROVE EveryLineIsReviewedOrReported
  OBVIOUS
<1>1. stage # "raised"
  BY DEF ReviewInv
<1>2. ASSUME stage \in {"reviewed", "routed"}, NEW f \in DOMAIN diff, NEW r \in Roles(diff[f]),
             NEW atom \in SideAtoms(diff[f], r)
      PROVE  \E k \in DOMAIN results :
               /\ results[k].file = f /\ results[k].role = r
               /\ IF atom \in results[k].unassigned
                    THEN /\ \A u \in results[k].units : u.lines \cap atom.lines[r] = {}
                         /\ \E l \in atom.lines[r] : ~Shown(diff[f].source[r], l)
                    ELSE \A l \in atom.lines[r] :
                           \E u \in results[k].units : l \in u.lines /\ Has(u.context, l)
  <2>1. AllAdmitted /\ results \in Seq(ResultSet) /\ SourcesOf(diff) \subseteq MadeOf(results)
    BY <1>2 DEF ReviewInv
  <2>2. <<f, r>> \in SourcesOf(diff)
    <3>1. r \in Role
      BY <1>2 DEF Roles
    <3> QED BY <1>2, <3>1 DEF SourcesOf
  <2>3. PICK k \in DOMAIN results : results[k].file = f /\ results[k].role = r
    BY <2>1, <2>2 DEF MadeOf
  <2>4. ResultTrue(diff, f, r, results[k])
    BY <2>1, <2>3, ResultsAreTrue
  <2>5. Claimed(results[k].units) \cap atom.lines[r]
          = IF atom \in results[k].unassigned THEN {} ELSE atom.lines[r]
    BY <1>2, <2>4 DEF ResultTrue
  <2>6. CASE atom \in results[k].unassigned
    <3>1. \A u \in results[k].units : u.lines \cap atom.lines[r] = {}
      BY <2>5, <2>6 DEF Claimed
    <3>2. \E l \in atom.lines[r] : ~Shown(diff[f].source[r], l)
      BY <2>4, <2>6 DEF ResultTrue
    <3> QED BY <2>3, <2>6, <3>1, <3>2
  <2>7. CASE atom \notin results[k].unassigned
    <3>1. ASSUME NEW l \in atom.lines[r]
          PROVE  \E u \in results[k].units : l \in u.lines /\ Has(u.context, l)
      <4>1. l \in Claimed(results[k].units)
        BY <2>5, <2>7, <3>1
      <4>2. PICK u \in results[k].units : l \in u.lines
        BY <4>1 DEF Claimed
      <4>3. Has(u.context, l)
        BY <2>4, <4>2 DEF ResultTrue, UnitOf
      <4> QED BY <4>2, <4>3
    <3> QED BY <2>3, <2>7, <3>1
  <2> QED BY <2>6, <2>7
<1> QED BY <1>1, <1>2 DEF EveryLineIsReviewedOrReported

THEOREM LinesAreReviewedOrReported == PipelineSpec => []EveryLineIsReviewedOrReported
<1> QED BY InitReviews, NextReviews, ReviewsAreComplete, PTL DEF PipelineSpec

-----------------------------------------------------------------------------
(* Files that belong to no change set.                                     *)

\* a file of a call
ProperFile(file) ==
  /\ IsSource(file.source) /\ IsParsed(file.source)
  /\ \A hunk \in file.hunks : {hunk[1], hunk[2]} \subseteq Nat \ {0} /\ hunk[1] <= hunk[2]

\* The older list is one of declarations.
LEMMA ListedShape ==
  ASSUME NEW source, IsSource(source), IsParsed(source)
  PROVE  /\ IsSource(AsListed(source))
         /\ AsListed(source).lines = source.lines /\ AsListed(source).declarations = Listed(source)
         /\ ~Moved(source) => \A d \in Listed(source) : d \in source.declarations \/ d \in source.loose
<1>1. ASSUME NEW d \in source.declarations
      PROVE  /\ IsDeclaration([d EXCEPT !.first = d.begin])
             /\ [d EXCEPT !.first = d.begin].last <= source.lines
             /\ d.begin = d.first => [d EXCEPT !.first = d.begin] = d
  <2>1. d \in Declaration /\ IsDeclaration(d) /\ d.last <= source.lines /\ d.first <= d.begin /\ d.begin <= d.last
    BY <1>1 DEF IsSource, IsParsed
  <2> DEFINE e == [d EXCEPT !.first = d.begin]
  <2>2. e.first = d.begin /\ e.last = d.last /\ e.from = d.from /\ e.to = d.to
    BY <2>1 DEF Declaration
  <2>3. d.begin = d.first => e = d
    BY <2>1 DEF Declaration
  <2>4. d.begin \in Nat
    BY <2>1 DEF Declaration
  <2>5. IsDeclaration(e)
    BY <2>1, <2>2, <2>4 DEF IsDeclaration
  <2> QED BY <2>1, <2>2, <2>3, <2>5
<1>2. \A d \in source.loose : IsDeclaration(d) /\ d.last <= source.lines
  BY DEF IsParsed
<1>3. \A e \in Listed(source) : IsDeclaration(e) /\ e.last <= source.lines
  BY <1>1, <1>2 DEF Listed
<1>4. IsSource(AsListed(source))
  BY <1>3 DEF IsSource, AsListed
<1>5. ASSUME ~Moved(source), NEW d \in Listed(source) PROVE d \in source.declarations \/ d \in source.loose
  BY <1>1, <1>5 DEF Listed, Moved
<1> QED BY <1>4, <1>5 DEF AsListed

LEMMA HunkUnitsShape ==
  ASSUME NEW file, ProperFile(file), InRange(file)
  PROVE  \A u \in HunkUnits(file) :
           UnitOf(AsListed(file.source), HunkLines(file), u) /\ u.what # "region"
<1> SUFFICES ASSUME NEW hunk \in file.hunks, NEW u \in UnitsForRun(AsListed(file.source), hunk)
             PROVE  UnitOf(AsListed(file.source), HunkLines(file), u) /\ u.what # "region"
  BY DEF HunkUnits
<1>1. hunk[1] \in Nat \ {0} /\ hunk[2] \in Nat /\ hunk[1] <= hunk[2] /\ hunk[2] <= file.source.lines
  BY DEF ProperFile, InRange
<1>2. hunk[1] .. hunk[2] \subseteq HunkLines(file)
  BY DEF HunkLines
<1>3. IsSource(AsListed(file.source)) /\ AsListed(file.source).lines = file.source.lines
  BY ListedShape DEF ProperFile
<1> QED BY <1>1, <1>2, <1>3, RunUnits

\* the units of the hunks that are in range
LEMMA HunkUnitsMerge ==
  ASSUME NEW file, ProperFile(file), InRange(file)
  PROVE  /\ MayMerge(HunkUnits(file))
         /\ \A u \in Merged(HunkUnits(file)) :
              UnitOf(AsListed(file.source), HunkLines(file), u) /\ u.what # "region"
         /\ Claimed(Merged(HunkUnits(file))) = Claimed(HunkUnits(file))
<1> DEFINE us == HunkUnits(file)
           source == AsListed(file.source)
           lines == HunkLines(file)
<1>1. \A u \in us : UnitOf(source, lines, u) /\ u.what # "region"
  BY HunkUnitsShape
<1> HIDE DEF us, source, lines
<1>2. /\ MayMerge(us)
      /\ \A m \in Merged(us) : UnitOf(source, lines, m) /\ \E u \in us : m.what = u.what
      /\ Claimed(Merged(us)) = Claimed(us)
  BY <1>1, MergedShape
<1> QED BY <1>1, <1>2 DEF us, source, lines

\* Only declarations that begin elsewhere in the older list, and files without
\* lines, stop an analysis.
LEMMA RefusedForCause ==
  ASSUME NEW mode \in {"full", "diff"}, NEW file, ProperFile(file), ~Moved(file.source),
         mode = "full" => file.source.lines # 0
  PROVE  Buildable(mode, file) /\ \A u \in FileUnits(mode, file) : OwnerMatches(file.source, u)
<1>1. \A d \in Listed(file.source) : d \in file.source.declarations \/ d \in file.source.loose
  BY ListedShape DEF ProperFile
<1>2. CASE mode = "full"
  <2>1. file.source.lines > 0
    BY <1>2 DEF ProperFile, IsSource
  <2>2. \A u \in FullUnits(file.source) : u.what = "fallback" \/ u.owner \in Listed(file.source)
    BY DEF FullUnits, Unit
  <2>3. \A u \in FullUnits(file.source) : OwnerMatches(file.source, u)
    BY <1>1, <2>2 DEF OwnerMatches, Owned
  <2> QED BY <1>2, <2>1, <2>3 DEF Buildable, FileUnits
<1>3. CASE mode = "diff"
  <2>1. CASE InRange(file)
    <3>1. /\ MayMerge(HunkUnits(file))
          /\ \A u \in Merged(HunkUnits(file)) :
               UnitOf(AsListed(file.source), HunkLines(file), u) /\ u.what # "region"
      BY <2>1, HunkUnitsMerge
    <3>2. AsListed(file.source).declarations = Listed(file.source)
      BY DEF AsListed
    <3>3. \A u \in Merged(HunkUnits(file)) : OwnerMatches(file.source, u)
      BY <1>1, <3>1, <3>2 DEF UnitOf, OwnerMatches, Owned
    <3> QED BY <1>3, <2>1, <3>1, <3>3 DEF Buildable, FileUnits
  <2>2. CASE ~InRange(file)
    BY <1>3, <2>2 DEF Buildable, FileUnits
  <2> QED BY <2>1, <2>2
<1> QED BY <1>2, <1>3

\* What was read of a file.
FileTrue(mode, file, made) ==
  /\ \A u \in made.units :
       /\ 1 <= u.context.first /\ u.context.last <= file.source.lines
       /\ \A l \in u.lines : Has(u.context, l)
  /\ mode = "diff" =>
       \A l \in HunkLines(file) :
         \/ \E u \in made.units : l \in u.lines
         \/ /\ l \in made.unassigned
            /\ InRange(file) => ~\E d \in Listed(file.source) : d.kind \in Precise /\ Has(d, l)

LEMMA FullFileTrue ==
  ASSUME NEW file, ProperFile(file), file.source.lines > 0, NEW made, made.units = FullUnits(file.source)
  PROVE  FileTrue("full", file, made)
<1> DEFINE source == file.source
           all == [first |-> 1, last |-> source.lines]
<1>1. source.lines \in Nat /\ \A d \in Listed(source) : IsDeclaration(d) /\ d.last <= source.lines
  BY ListedShape DEF ProperFile, IsSource
<1>2. ASSUME NEW u \in FullUnits(source)
      PROVE  /\ 1 <= u.context.first /\ u.context.last <= source.lines
             /\ \A l \in u.lines : Has(u.context, l)
  <2>1. CASE u = Unit("fallback", all, all, 1 .. source.lines, "fallback_window")
    <3>1. u.context = all /\ u.lines = 1 .. source.lines
      BY <2>1 DEF Unit
    <3>2. u.context.first = 1 /\ u.context.last = source.lines
      BY <3>1
    <3> QED BY <1>1, <3>1, <3>2 DEF Has
  <2>2. CASE \E d \in Listed(source) : u = Unit("declaration", d, Span(d), {}, "full_top_level_declaration")
    <3>1. PICK d \in Listed(source) : u = Unit("declaration", d, Span(d), {}, "full_top_level_declaration")
      BY <2>2
    <3>2. u.context.first = d.first /\ u.context.last = d.last /\ u.lines = {}
      BY <3>1 DEF Unit, Span
    <3>3. d.first \in Nat \ {0} /\ d.last <= source.lines
      BY <1>1 DEF IsDeclaration
    <3> QED BY <3>2, <3>3
  <2> QED BY <2>1, <2>2 DEF FullUnits
<1> QED BY <1>2 DEF FileTrue

LEMMA DiffFileTrue ==
  ASSUME NEW file, ProperFile(file), NEW made, made.units = FileUnits("diff", file),
         made.unassigned = HunkLines(file) \ Claimed(made.units)
  PROVE  FileTrue("diff", file, made)
<1> DEFINE source == AsListed(file.source)
<1>1. /\ IsSource(source) /\ source.lines = file.source.lines
      /\ source.declarations = Listed(file.source)
  BY ListedShape DEF ProperFile
<1>2. CASE ~InRange(file)
  <2>1. made.units = {}
    BY <1>2 DEF FileUnits
  <2>2. made.unassigned = HunkLines(file)
    BY <2>1 DEF Claimed
  <2> QED BY <1>2, <2>1, <2>2 DEF FileTrue
<1>3. CASE InRange(file)
  <2>1. made.units = Merged(HunkUnits(file))
    BY <1>3 DEF FileUnits
  <2>2. /\ \A u \in made.units : UnitOf(source, HunkLines(file), u)
        /\ Claimed(made.units) = Claimed(HunkUnits(file))
    BY <1>3, <2>1, HunkUnitsMerge
  <2>3. \A u \in made.units :
          /\ 1 <= u.context.first /\ u.context.last <= file.source.lines
          /\ \A l \in u.lines : Has(u.context, l)
    BY <1>1, <2>2 DEF UnitOf
  <2>4. ASSUME NEW l \in HunkLines(file)
        PROVE  \/ \E u \in made.units : l \in u.lines
               \/ l \in made.unassigned /\ ~\E d \in Listed(file.source) : d.kind \in Precise /\ Has(d, l)
    <3>1. CASE l \in Claimed(made.units)
      BY <3>1 DEF Claimed
    <3>2. CASE l \notin Claimed(made.units)
      <4>1. SUFFICES ASSUME NEW d \in Listed(file.source), d.kind \in Precise, Has(d, l) PROVE FALSE
        BY <2>4, <3>2
      <4>2. PICK hunk \in file.hunks : l \in hunk[1] .. hunk[2]
        BY <2>4 DEF HunkLines
      <4>3. hunk[1] \in Nat /\ hunk[2] \in Nat
        BY DEF ProperFile
      <4>4. PICK a \in AssignDeclarations(source, hunk) : l \in a.lines
        BY <1>1, <4>1, <4>2, <4>3, PreciseTake
      <4>5. Overlaps(d, hunk)
        <5>1. d.first \in Nat /\ d.last \in Nat
          BY <1>1 DEF IsSource, IsDeclaration
        <5> QED BY <4>1, <4>2, <4>3, <5>1 DEF Overlaps, Has
      <4> DEFINE u == Unit("declaration", a.owner, Span(a.owner), a.lines, ReasonOf(source, hunk, a.owner))
      <4>6. u \in UnitsForRun(source, hunk)
        BY <1>1, <4>5 DEF UnitsForRun
      <4>7. u.lines = a.lines
        BY DEF Unit
      <4> HIDE DEF u
      <4>8. u \in HunkUnits(file)
        BY <4>6 DEF HunkUnits
      <4>9. l \in Claimed(HunkUnits(file))
        BY <4>4, <4>7, <4>8 DEF Claimed
      <4> QED BY <2>2, <3>2, <4>9
    <3> QED BY <3>1, <3>2
  <2> QED BY <1>3, <2>3, <2>4 DEF FileTrue
<1> QED BY <1>2, <1>3

\* why a file stops an analysis
Cause(mode, source) == Moved(source) \/ (mode = "full" /\ source.lines = 0)

MadeOfFile(mode, file) ==
  [units |-> FileUnits(mode, file),
   unassigned |-> (IF mode = "full" THEN {} ELSE HunkLines(file)) \ UNION {u.lines : u \in FileUnits(mode, file)}]

ReadSet == {MadeOfFile(call.mode, call.files[k]) : k \in DOMAIN call.files}

\* The invariant of an analysis of files.
FileInv ==
  /\ stage = "files" =>
       /\ call \in Calls
       /\ read \in Seq(ReadSet) /\ Len(read) <= Len(call.files)
       /\ \A k \in DOMAIN read : FileTrue(call.mode, call.files[k], read[k])
       /\ reading = "raised" =>
            /\ Len(read) < Len(call.files)
            /\ Cause(call.mode, call.files[Len(read) + 1].source)
  /\ stage # "files" => read = <<>> /\ reading = "idle"

LEMMA CallShape ==
  ASSUME NEW c \in Calls
  PROVE  /\ c.mode \in {"full", "diff"}
         /\ Len(c.files) \in Nat /\ DOMAIN c.files = 1 .. Len(c.files)
         /\ \A k \in DOMAIN c.files : ProperFile(c.files[k])
BY CallAssumption DEF ProperFile

\* What is made of a file that can be built.
LEMMA FileMade ==
  ASSUME NEW mode \in {"full", "diff"}, NEW file, ProperFile(file), Buildable(mode, file)
  PROVE  FileTrue(mode, file, MadeOfFile(mode, file))
<1> DEFINE made == MadeOfFile(mode, file)
<1>1. made.units = FileUnits(mode, file)
  BY DEF MadeOfFile
<1>2. mode = "diff" => made.unassigned = HunkLines(file) \ Claimed(made.units)
  BY <1>1 DEF MadeOfFile, Claimed
<1> HIDE DEF made
<1>3. CASE mode = "full"
  <2>1. file.source.lines > 0 /\ made.units = FullUnits(file.source)
    BY <1>1, <1>3 DEF Buildable, FileUnits
  <2> QED BY <1>3, <2>1, FullFileTrue DEF made
<1>4. CASE mode = "diff"
  BY <1>1, <1>2, <1>4, DiffFileTrue DEF made
<1> QED BY <1>3, <1>4

LEMMA InitFiles == PipelineInit => FileInv
<1>1. ASSUME PipelineInit
      PROVE  \/ stage # "files" /\ read = <<>> /\ reading = "idle"
             \/ stage = "files" /\ FileInit
  BY <1>1 DEF PipelineInit, AnalysisInit, ReviewInit, Unread
<1>2. ASSUME stage = "files", FileInit PROVE FileInv
  <2>1. call \in Calls /\ reading = "files" /\ read = <<>>
    BY <1>2 DEF FileInit
  <2>2. Len(call.files) \in Nat
    BY <2>1, CallShape
  <2>3. read \in Seq(ReadSet) /\ Len(read) = 0 /\ DOMAIN read = {}
    BY <2>1
  <2> QED BY <1>2, <2>1, <2>2, <2>3 DEF FileInv
<1> QED BY <1>1, <1>2 DEF FileInv

\* No step but those of an analysis of files begins, ends or changes one.
LEMMA FilesApart ==
  ASSUME [PipelineNext]_pipelineVars
  PROVE  \/ UNCHANGED <<call, reading, read>> /\ (stage = "files" <=> stage' = "files")
         \/ stage = "files" /\ stage' = "files" /\ ReadFile
         \/ stage = "files" /\ stage' = "files" /\ RouteFiles
<1>1. CASE AnalysisStep
  <2>1. UNCHANGED <<call, reading, read>> /\ stage # "files" /\ AnalysisNext
    BY <1>1 DEF AnalysisStep
  <2>2. stage' # "files"
    <3>1. CASE ReviewStep
      BY <2>1, <3>1 DEF ReviewStep, ReviewNext, Normalize, BeginBuild, BuildSource, Assemble
    <3>2. CASE RouteUnits
      BY <2>1, <3>2 DEF RouteUnits
    <3>3. CASE PlanContext
      BY <2>1, <3>3 DEF PlanContext
    <3>4. CASE PlanStep \/ Ended
      BY <2>1, <3>4 DEF PlanStep, Ended, allVars, reviewVars
    <3> QED BY <2>1, <3>1, <3>2, <3>3, <3>4 DEF AnalysisNext
  <2> QED BY <2>1, <2>2
<1>2. CASE FileStep
  BY <1>2 DEF FileStep, FileNext, FilesEnded, fileVars, reviewVars
<1>3. CASE AskForEvidence \/ RetrievalStep \/ UNCHANGED pipelineVars
  BY <1>3 DEF AskForEvidence, RetrievalStep, pipelineVars, allVars, reviewVars
<1> QED BY <1>1, <1>2, <1>3 DEF PipelineNext

LEMMA NextFiles == FileInv /\ [PipelineNext]_pipelineVars => FileInv'
<1> SUFFICES ASSUME FileInv, [PipelineNext]_pipelineVars PROVE FileInv'
  OBVIOUS
<1>1. CASE UNCHANGED <<call, reading, read>> /\ (stage = "files" <=> stage' = "files")
  BY <1>1 DEF FileInv, ReadSet
<1>2. CASE stage = "files" /\ stage' = "files" /\ ReadFile
  <2> DEFINE n == Len(read)
             file == call.files[n + 1]
             units == FileUnits(call.mode, file)
             good == Buildable(call.mode, file) /\ \A u \in units : OwnerMatches(file.source, u)
             made == MadeOfFile(call.mode, file)
  <2>1. /\ call \in Calls /\ read \in Seq(ReadSet) /\ n < Len(call.files) /\ call' = call
        /\ reading = "files" /\ \A k \in DOMAIN read : FileTrue(call.mode, call.files[k], read[k])
    BY <1>2 DEF FileInv, ReadFile
  <2>2. n \in Nat /\ DOMAIN read = 1 .. n
    BY <2>1
  <2>3. /\ call.mode \in {"full", "diff"} /\ Len(call.files) \in Nat
        /\ n + 1 \in DOMAIN call.files /\ ProperFile(file)
    <3>1. /\ call.mode \in {"full", "diff"} /\ Len(call.files) \in Nat
          /\ DOMAIN call.files = 1 .. Len(call.files)
          /\ \A k \in DOMAIN call.files : ProperFile(call.files[k])
      BY <2>1, CallShape
    <3>2. n + 1 \in 1 .. Len(call.files)
      BY <2>1, <2>2, <3>1
    <3> QED BY <3>1, <3>2
  <2>4. \/ good /\ read' = Append(read, made) /\ reading' = reading
        \/ ~good /\ reading' = "raised" /\ read' = read
    BY <1>2 DEF ReadFile, MadeOfFile
  <2>5. ReadSet' = ReadSet /\ made \in ReadSet
    BY <2>1, <2>3 DEF ReadSet
  <2> HIDE DEF n, file, units, made
  <2>6. CASE good /\ read' = Append(read, made) /\ reading' = reading
    <3>1. FileTrue(call.mode, file, made)
      BY <2>3, <2>6, FileMade DEF made
    <3>2. /\ read' \in Seq(ReadSet) /\ Len(read') = n + 1 /\ DOMAIN read' = 1 .. n + 1
          /\ read'[n + 1] = made /\ \A k \in 1 .. n : read'[k] = read[k]
      <4> HIDE DEF ReadSet
      <4> QED BY <2>1, <2>2, <2>5, <2>6, AppendProperties DEF n
    <3>3. \A k \in DOMAIN read' : FileTrue(call.mode, call.files[k], read'[k])
      <4> SUFFICES ASSUME NEW k \in 1 .. n + 1 PROVE FileTrue(call.mode, call.files[k], read'[k])
        BY <3>2
      <4>1. k \in 1 .. n \/ k = n + 1
        BY <2>2
      <4> QED BY <2>1, <2>2, <3>1, <3>2, <4>1 DEF file
    <3>4. Len(read') <= Len(call.files)
      BY <2>1, <2>2, <2>3, <3>2
    <3> QED BY <1>2, <2>1, <2>5, <2>6, <3>2, <3>3, <3>4 DEF FileInv
  <2>7. CASE ~good /\ reading' = "raised" /\ read' = read
    <3>1. Cause(call.mode, file.source)
      BY <2>3, <2>7, RefusedForCause DEF Cause, units
    <3> QED BY <1>2, <2>1, <2>2, <2>3, <2>5, <2>7, <3>1 DEF FileInv, n, file
  <2> QED BY <2>4, <2>6, <2>7
<1>3. CASE stage = "files" /\ stage' = "files" /\ RouteFiles
  <2>1. call' = call /\ read' = read /\ reading' = "routed"
    BY <1>3 DEF RouteFiles
  <2> QED BY <1>3, <2>1 DEF FileInv, ReadSet
<1> QED BY <1>1, <1>2, <1>3, FilesApart

LEMMA FilesAreTrue == FileInv => FilesAreReviewedOrRefusedForCause
<1> SUFFICES ASSUME FileInv PROVE FilesAreReviewedOrRefusedForCause
  OBVIOUS
<1>1. CASE stage = "files"
  <2>1. /\ call \in Calls
        /\ \A k \in DOMAIN read : FileTrue(call.mode, call.files[k], read[k])
        /\ reading = "raised" => Cause(call.mode, call.files[Len(read) + 1].source)
    BY <1>1 DEF FileInv
  <2> QED BY <2>1 DEF FilesAreReviewedOrRefusedForCause, FileTrue, Cause
<1>2. CASE stage # "files"
  <2>1. read = <<>> /\ reading # "raised"
    BY <1>2 DEF FileInv
  <2>2. DOMAIN read = {}
    BY <2>1
  <2> QED BY <2>1, <2>2 DEF FilesAreReviewedOrRefusedForCause
<1> QED BY <1>1, <1>2

\* Files that are analyzed without a change set are refused only for cause,
\* and no line of their hunks is lost.
THEOREM FilesReviewedOrRefused == PipelineSpec => []FilesAreReviewedOrRefusedForCause
<1> QED BY InitFiles, NextFiles, FilesAreTrue, PTL DEF PipelineSpec

-----------------------------------------------------------------------------
(* The plan of a diff.                                                     *)

\* The groups a plan is made for are those of the forest.
ClassesInv ==
  /\ phase = "group" => pairs = {} /\ bundles = <<>>
  /\ \A pair \in pairs : pair[1] \in Groups(root)
  /\ phase = "fill" => at[1] \in Groups(root)
  /\ \A k \in DOMAIN bundles : bundles[k].group \in Groups(root)

LEMMA NextKeepsClasses == LossInv /\ ClassesInv /\ [Next]_vars => ClassesInv'
<1> SUFFICES ASSUME LossInv, ClassesInv, [Next]_vars PROVE ClassesInv'
  OBVIOUS
<1>1. ASSUME NEW e \in edges, Union(e) PROVE ClassesInv'
  <2>1. phase = "group" /\ phase' = "group" /\ pairs' = pairs /\ bundles' = bundles
    BY <1>1 DEF Union
  <2>2. pairs' = {} /\ bundles' = <<>> /\ DOMAIN bundles' = {}
    BY <2>1 DEF ClassesInv
  <2> QED BY <2>1, <2>2 DEF ClassesInv
<1>2. CASE Grouped
  <2>1. /\ phase = "group" /\ phase' = "choose" /\ root' = root /\ bundles' = bundles
        /\ \A pair \in pairs' : pair[1] \in Groups(root)
    BY <1>2 DEF Grouped, grouping
  <2>2. Groups(root)' = Groups(root)
    BY <2>1 DEF Groups
  <2>3. DOMAIN bundles' = {}
    BY <2>1 DEF ClassesInv
  <2> QED BY <2>1, <2>2, <2>3 DEF ClassesInv
<1>3. ASSUME NEW pair \in pairs, BeginQuestion(pair[1], pair[2]) PROVE ClassesInv'
  <2>1. /\ phase = "choose" /\ phase' = "fill" /\ root' = root /\ bundles' = bundles
        /\ pairs' \subseteq pairs /\ at' = <<pair[1], pair[2]>>
    BY <1>3 DEF BeginQuestion, grouping
  <2>2. Groups(root)' = Groups(root) /\ at'[1] = pair[1]
    BY <2>1 DEF Groups
  <2> QED BY <2>1, <2>2 DEF ClassesInv
<1>4. CASE EmitBundles
  <2>1. phase = "fill" /\ phase' = "choose" /\ root' = root /\ pairs' = pairs
    BY <1>4 DEF EmitBundles, grouping
  <2>2. Groups(root)' = Groups(root)
    BY <2>1 DEF Groups
  <2>3. ASSUME NEW i \in DOMAIN bundles' PROVE bundles'[i].group \in Groups(root)
    <3>1. CASE \E k \in DOMAIN bundles : bundles'[i] = bundles[k]
      BY <3>1 DEF ClassesInv
    <3>2. CASE \E k \in DOMAIN bins :
                 bundles'[i] = Bundle(input, at[1], at[2], taken \cup bins[k].members, degraded, missing)
      <4>1. bundles'[i].group = at[1]
        BY <3>2 DEF Bundle
      <4> QED BY <2>1, <4>1 DEF ClassesInv
    <3> QED BY <1>4, <3>1, <3>2, Emitted
  <2> QED BY <2>1, <2>2, <2>3 DEF ClassesInv
<1>5. ASSUME UNCHANGED <<pairs, bundles, root, at>>, phase' = phase \/ (phase = "choose" /\ phase' = "done")
      PROVE  ClassesInv'
  <2>1. Groups(root)' = Groups(root)
    BY <1>5 DEF Groups
  <2> QED BY <1>5, <2>1 DEF ClassesInv
<1>6. ASSUME NEW c \in Candidate, Classify(c) \/ TakeRequired(c) \/ PlaceHelpful(c) PROVE ClassesInv'
  BY <1>5, <1>6 DEF Classify, TakeRequired, PlaceHelpful, grouping
<1>7. CASE Create \/ Finished \/ UNCHANGED vars
  BY <1>5, <1>7 DEF Create, Finished, vars, grouping
<1> QED BY <1>1, <1>2, <1>3, <1>4, <1>6, <1>7 DEF Next

\* The invariant of a plan.
PlanInv == GroupInv /\ LossInv /\ NoTwoBinsFitOne /\ DispatchInv /\ ClassesInv

LEMMA BeginsPlan == Begins => PlanInv
<1> SUFFICES ASSUME Begins PROVE PlanInv
  OBVIOUS
<1>1. NoTwoBinsFitOne
  BY DEF Begins, NoTwoBinsFitOne
<1>2. phase = "group" /\ pairs = {} /\ bundles = <<>>
  BY DEF Begins
<1>3. ClassesInv
  BY <1>2 DEF ClassesInv
<1> QED BY <1>1, <1>3, InitGroups, InitLoss, InitDispatch DEF PlanInv

LEMMA NextPlan == PlanInv /\ [Next]_vars => PlanInv'
<1> SUFFICES ASSUME PlanInv, [Next]_vars PROVE PlanInv'
  OBVIOUS
<1>1. GroupInv' /\ TypeOK'
  BY NextKeepsGroups, NextTyped DEF PlanInv, LossInv
<1>2. LossInv'
  BY <1>1, NextKeepsLoss DEF PlanInv
<1> QED BY <1>1, <1>2, NextPacks, NextKeepsDispatch, NextKeepsClasses DEF PlanInv, LossInv

\* The planner of the pipeline stands at its beginning until it is called.
PlanningInv == PlanInv /\ (stage # "planning" => Begins)

LEMMA InitPlanning == PipelineInit => PlanningInv
<1> SUFFICES ASSUME PipelineInit PROVE PlanningInv
  OBVIOUS
<1>1. Init
  BY DEF PipelineInit, AnalysisInit
<1> QED BY <1>1, InitBegins, BeginsPlan DEF PlanningInv

\* A step of the pipeline that concerns the planner is a call or one of its
\* own.
LEMMA PlannerApart ==
  ASSUME [PipelineNext]_pipelineVars
  PROVE  \/ UNCHANGED vars /\ (stage' = stage \/ (stage # "planning" /\ stage' # "planning"))
         \/ [Next]_vars /\ stage = "planning" /\ stage' = "planning" /\ UNCHANGED <<diff, results>>
         \/ PlanContext
<1>1. CASE ReviewStep
  BY <1>1 DEF ReviewStep, ReviewNext, Normalize, BeginBuild, BuildSource, Assemble
<1>2. CASE RouteUnits
  BY <1>2 DEF RouteUnits
<1>3. CASE PlanStep
  BY <1>3 DEF PlanStep, reviewVars
<1>4. CASE Ended \/ FileStep \/ AskForEvidence \/ RetrievalStep \/ UNCHANGED pipelineVars
  BY <1>4 DEF Ended, FileStep, AskForEvidence, RetrievalStep, pipelineVars, allVars, reviewVars
<1> QED BY <1>1, <1>2, <1>3, <1>4 DEF PipelineNext, AnalysisStep, AnalysisNext

LEMMA NextPlanning == PlanningInv /\ [PipelineNext]_pipelineVars => PlanningInv'
<1> SUFFICES ASSUME PlanningInv, [PipelineNext]_pipelineVars PROVE PlanningInv'
  OBVIOUS
<1>1. CASE UNCHANGED vars /\ (stage' = stage \/ (stage # "planning" /\ stage' # "planning"))
  <2>1. PlanInv'
    BY <1>1, NextPlan DEF PlanningInv
  <2>2. Begins => Begins'
    BY <1>1 DEF Begins, vars, grouping, filling
  <2> QED BY <1>1, <2>1, <2>2 DEF PlanningInv
<1>2. CASE [Next]_vars /\ stage' = "planning"
  BY <1>2, NextPlan DEF PlanningInv
<1>3. CASE PlanContext
  <2>1. /\ stage = "routed" /\ stage' = "planning" /\ WellFormed(input') /\ edges' = GroupingEdges(input')
        /\ UNCHANGED <<phase, root, pairs, at, filling, omissions, bundles>>
    BY <1>3 DEF PlanContext
  <2>2. Begins
    BY <2>1 DEF PlanningInv
  <2>3. Begins'
    BY <2>1, <2>2 DEF Begins, filling
  <2>4. Begins' => PlanInv'
    BY BeginsPlan, PTL
  <2> QED BY <2>1, <2>3, <2>4 DEF PlanningInv
<1> QED BY <1>1, <1>2, <1>3, PlannerApart

\* A diff, too, is planned in full, and its bundles go out exactly if their
\* context is sufficient.
THEOREM ReviewsArePlanned == PipelineSpec => [](PlannedInFull /\ DispatchIffSufficient)
<1>1. LossInv => NothingIsLost
  <2> SUFFICES ASSUME LossInv, phase = "done" PROVE NothingIsLost
    BY DEF NothingIsLost
  <2>1. Waiting = {} /\ Held = {}
    BY DEF LossInv, Whereabouts, Waiting, Held
  <2>2. Result.segments = InBundles /\ OmittedIn(Result) = Omitted
    BY DEF Result, InBundles, OmittedIn, Omitted
  <2> QED BY <2>1, <2>2 DEF LossInv, Whereabouts, NothingIsLost
<1>2. PlanningInv => PlannedInFull /\ DispatchIffSufficient
  BY <1>1, GroupsFromForest DEF PlanningInv, PlanInv, PlannedInFull, DispatchInv
<1> QED BY <1>2, InitPlanning, NextPlanning, PTL DEF PipelineSpec

-----------------------------------------------------------------------------
(* What goes out.                                                          *)

\* the plan of a diff is one of its units
Numbered(number) ==
  /\ input.side = [p \in Primary |-> number[p].role]
  /\ input.atoms = [p \in Primary |->
                      {<<number[p].file, atom>> :
                         atom \in AtomsOf(diff[number[p].file], number[p].role, number[p].unit.lines)}]

ArgumentsInv ==
  stage = "planning" /\ diff # <<>> =>
    /\ \E number \in Bijection(Primary, UnitsOf(results)) : Numbered(number)
    /\ input.blocked = Blocked(diff, results)

LEMMA InitArguments == PipelineInit => ArgumentsInv
BY DEF PipelineInit, AnalysisInit, ReviewInit, ArgumentsInv

LEMMA NextArguments == ArgumentsInv /\ [PipelineNext]_pipelineVars => ArgumentsInv'
<1> SUFFICES ASSUME ArgumentsInv, [PipelineNext]_pipelineVars PROVE ArgumentsInv'
  OBVIOUS
<1>1. diff' = diff
  <2>1. CASE AnalysisStep
    BY <2>1 DEF AnalysisStep, AnalysisNext, ReviewStep, ReviewNext, Normalize, BeginBuild, BuildSource,
                Assemble, RouteUnits, PlanContext, PlanStep, Ended, allVars, reviewVars
  <2>2. CASE FileStep \/ AskForEvidence \/ RetrievalStep \/ UNCHANGED pipelineVars
    BY <2>2 DEF FileStep, AskForEvidence, RetrievalStep, pipelineVars, allVars, reviewVars
  <2> QED BY <2>1, <2>2 DEF PipelineNext
<1>2. ASSUME UNCHANGED <<input, results>>, stage' = "planning" => stage = "planning" PROVE ArgumentsInv'
  <2>1. UnitsOf(results)' = UnitsOf(results) /\ Blocked(diff, results)' = Blocked(diff, results)
    BY <1>1, <1>2
  <2>2. ASSUME NEW number, Numbered(number) PROVE Numbered(number)'
    BY <1>1, <1>2, <2>2 DEF Numbered
  <2> QED BY <1>1, <1>2, <2>1, <2>2 DEF ArgumentsInv
<1>3. CASE PlanContext
  <2>1. PICK number \in Bijection(Primary, UnitsOf(results)), request \in Requests(diff) :
          input' = Arguments(diff, results, profiles, number, request)
    BY <1>3 DEF PlanContext
  <2>2. results' = results
    BY <1>3 DEF PlanContext
  <2>3. /\ input'.side = [p \in Primary |-> number[p].role]
        /\ input'.blocked = Blocked(diff, results)
        /\ input'.atoms = [p \in Primary |->
                             {<<number[p].file, atom>> :
                                atom \in AtomsOf(diff[number[p].file], number[p].role, number[p].unit.lines)}]
    BY <2>1 DEF Arguments
  <2>4. Numbered(number)'
    BY <1>1, <2>3 DEF Numbered
  <2>5. UnitsOf(results)' = UnitsOf(results) /\ Blocked(diff, results)' = Blocked(diff, results)
    BY <1>1, <2>2
  <2> QED BY <2>1, <2>3, <2>4, <2>5 DEF ArgumentsInv
<1>4. [Next]_vars => input' = input
  BY DEF Next, Union, Grouped, BeginQuestion, Classify, TakeRequired, PlaceHelpful, EmitBundles, Create,
         Finished, vars
<1>5. UNCHANGED vars => input' = input
  BY DEF vars
<1>6. UNCHANGED vars /\ (stage' = stage \/ (stage # "planning" /\ stage' # "planning")) => ArgumentsInv'
  <2> SUFFICES ASSUME UNCHANGED vars, stage' = stage \/ (stage # "planning" /\ stage' # "planning")
               PROVE  ArgumentsInv'
    OBVIOUS
  <2>1. CASE stage' = "planning"
    <3>1. stage = "planning" /\ input' = input
      BY <1>5, <2>1
    <3>2. results' = results
      <4>1. CASE AnalysisStep
        BY <3>1, <2>1, <4>1 DEF AnalysisStep, AnalysisNext, ReviewStep, ReviewNext, Normalize, BeginBuild,
             BuildSource, Assemble, RouteUnits, PlanContext, PlanStep, Ended, allVars, reviewVars
      <4>2. CASE FileStep \/ AskForEvidence \/ RetrievalStep \/ UNCHANGED pipelineVars
        BY <4>2 DEF FileStep, AskForEvidence, RetrievalStep, pipelineVars, allVars, reviewVars
      <4> QED BY <4>1, <4>2 DEF PipelineNext
    <3> QED BY <1>2, <3>1, <3>2
  <2>2. CASE stage' # "planning"
    BY <2>2 DEF ArgumentsInv
  <2> QED BY <2>1, <2>2
<1> QED BY <1>2, <1>3, <1>4, <1>6, PlannerApart

\* All that is known of a diff once it is planned.
PlannedWhole == ReviewInv /\ PlanningInv /\ ArgumentsInv

\* Nothing of a change that is not blocked is left out of its units.
LEMMA UnblockedIsCovered ==
  ASSUME AllAdmitted, results \in Seq(ResultSet), SourcesOf(diff) \subseteq MadeOf(results),
         ~Blocked(diff, results), NEW f \in DOMAIN diff, NEW atom \in diff[f].atoms,
         NEW r \in KindSides(atom.kind), NEW l \in atom.lines[r]
  PROVE  \E x \in UnitsOf(results) : x.file = f /\ x.role = r /\ l \in x.unit.lines
<1>1. r \in Role /\ atom \in SideAtoms(diff[f], r) /\ r \in Roles(diff[f])
  <2>1. ChangedFileFits(diff[f])
    BY DEF AllAdmitted
  <2>2. r \in Roles(diff[f])
    BY <2>1 DEF ChangedFileFits
  <2> QED BY <2>2 DEF SideAtoms, Roles
<1>2. <<f, r>> \in SourcesOf(diff)
  BY <1>1 DEF SourcesOf
<1>3. PICK k \in DOMAIN results : results[k].file = f /\ results[k].role = r
  BY <1>2 DEF MadeOf
<1>4. ResultTrue(diff, f, r, results[k])
  BY <1>3, ResultsAreTrue
<1>5. results[k].unassigned = {}
  BY DEF Blocked
<1>6. Claimed(results[k].units) \cap atom.lines[r] = atom.lines[r]
  BY <1>1, <1>4, <1>5 DEF ResultTrue
<1>7. PICK u \in results[k].units : l \in u.lines
  BY <1>6 DEF Claimed
<1> DEFINE x == [file |-> results[k].file, role |-> results[k].role, unit |-> u]
<1>8. x \in UnitsOf(results)
  BY <1>7 DEF UnitsOf
<1>9. x.file = f /\ x.role = r /\ x.unit = u
  BY <1>3
<1> QED BY <1>7, <1>8, <1>9

\* what DispatchedChangesAreWhole says of one bundle
WholeIn(bundle) ==
  \A f \in DOMAIN diff :
    /\ ~diff[f].binary
    /\ \A atom \in diff[f].atoms :
         /\ \A r \in KindSides(atom.kind) :
              atom.lines[r] \subseteq
                UNION {x.unit.lines : x \in {y \in UnitsOf(results) : y.file = f /\ y.role = r}}
         /\ {input.side[p] : p \in Sharing(f, atom)} = KindSides(atom.kind)
         /\ atom.kind = "replacement" =>
              \/ Sharing(f, atom) \subseteq bundle.group
              \/ Sharing(f, atom) \cap bundle.group = {}

LEMMA DispatchedIsWhole ==
  ASSUME PlannedWhole, stage = "planning", diff # <<>>, NEW k \in DOMAIN bundles,
         bundles[k].dispatch_allowed
  PROVE  WholeIn(bundles[k])
<1>1. /\ AllAdmitted /\ results \in Seq(ResultSet) /\ SourcesOf(diff) \subseteq MadeOf(results)
  BY DEF PlannedWhole, ReviewInv
<1>2. ~Blocked(diff, results)
  <2>1. ~input.blocked
    BY DEF PlannedWhole, PlanningInv, PlanInv, DispatchInv, DispatchIffSufficient
  <2> QED BY <2>1 DEF PlannedWhole, ArgumentsInv
<1>3. PICK number \in Bijection(Primary, UnitsOf(results)) : Numbered(number)
  BY DEF PlannedWhole, ArgumentsInv
<1>4. /\ \A p \in Primary : number[p] \in UnitsOf(results)
      /\ \A x \in UnitsOf(results) : \E p \in Primary : number[p] = x
  BY <1>3 DEF Bijection, Injection, Surjection, IsInjective
<1>5. /\ WellFormed(input) /\ ForestOK /\ ClassesInv
  BY DEF PlannedWhole, PlanningInv, PlanInv, GroupInv
<1>6. phase # "group"
  BY <1>5 DEF ClassesInv
<1>7. \A e \in GroupingEdges(input) : root[e.from] = root[e.to]
  BY <1>5, <1>6 DEF ForestOK
<1>8. bundles[k].group \in Groups(root)
  BY <1>5 DEF ClassesInv
<1> SUFFICES ASSUME NEW f \in DOMAIN diff
             PROVE  /\ ~diff[f].binary
                    /\ \A atom \in diff[f].atoms :
                         /\ \A r \in KindSides(atom.kind) :
                              atom.lines[r] \subseteq
                                UNION {x.unit.lines : x \in {y \in UnitsOf(results) : y.file = f /\ y.role = r}}
                         /\ {input.side[p] : p \in Sharing(f, atom)} = KindSides(atom.kind)
                         /\ atom.kind = "replacement" =>
                              \/ Sharing(f, atom) \subseteq bundles[k].group
                              \/ Sharing(f, atom) \cap bundles[k].group = {}
  BY DEF WholeIn
<1>9. ~diff[f].binary
  BY <1>2 DEF Blocked
<1>10. ASSUME NEW atom \in diff[f].atoms
       PROVE  \A r \in KindSides(atom.kind) :
                atom.lines[r] \subseteq
                  UNION {x.unit.lines : x \in {y \in UnitsOf(results) : y.file = f /\ y.role = r}}
  BY <1>1, <1>2, UnblockedIsCovered
<1>11. ASSUME NEW atom \in diff[f].atoms, NEW p \in Primary
       PROVE  p \in Sharing(f, atom) <=>
                /\ number[p].file = f /\ number[p].role \in KindSides(atom.kind)
                /\ atom.lines[number[p].role] \cap number[p].unit.lines # {}
  <2>1. p \in Sharing(f, atom) <=>
          <<f, atom>> \in {<<number[p].file, a>> :
                             a \in AtomsOf(diff[number[p].file], number[p].role, number[p].unit.lines)}
    BY <1>3 DEF Sharing, Numbered
  <2>2. p \in Sharing(f, atom) <=>
          number[p].file = f /\ atom \in AtomsOf(diff[f], number[p].role, number[p].unit.lines)
    BY <2>1
  <2> QED BY <2>2 DEF AtomsOf, SideAtoms
<1>12. ASSUME NEW atom \in diff[f].atoms
       PROVE  {input.side[p] : p \in Sharing(f, atom)} = KindSides(atom.kind)
  <2>1. ASSUME NEW p \in Sharing(f, atom) PROVE input.side[p] \in KindSides(atom.kind)
    BY <1>3, <1>11 DEF Sharing, Numbered
  <2>2. ASSUME NEW r \in KindSides(atom.kind) PROVE \E p \in Sharing(f, atom) : input.side[p] = r
    <3>1. AtomFits(diff[f], atom) /\ r \in Role
      BY <1>1, <1>9 DEF AllAdmitted, Normalizes, KindSides, Role
    <3>2. PICK l \in atom.lines[r] : TRUE
      BY <3>1 DEF AtomFits
    <3>3. PICK x \in UnitsOf(results) : x.file = f /\ x.role = r /\ l \in x.unit.lines
      BY <1>1, <1>2, UnblockedIsCovered
    <3>4. PICK p \in Primary : number[p] = x
      BY <1>4
    <3>5. p \in Sharing(f, atom)
      BY <1>11, <3>3, <3>4
    <3> QED BY <1>3, <3>3, <3>4, <3>5 DEF Numbered
  <2> QED BY <2>1, <2>2
<1>13. ASSUME NEW atom \in diff[f].atoms, atom.kind = "replacement",
              NEW p \in Sharing(f, atom), NEW q \in Sharing(f, atom)
       PROVE  root[p] = root[q]
  <2>1. KindSides(atom.kind) = {"base", "head"}
    BY <1>13 DEF KindSides, Role
  <2>2. ASSUME NEW x \in Sharing(f, atom), NEW y \in Sharing(f, atom),
               input.side[x] = "base", input.side[y] = "head"
        PROVE  root[x] = root[y]
    <3> DEFINE e == [from |-> x, to |-> y, strong |-> TRUE, exact |-> TRUE, evidence |-> TRUE]
    <3>1. x \in Primary /\ y \in Primary /\ <<f, atom>> \in input.atoms[x] \cap input.atoms[y]
      BY DEF Sharing
    <3>2. e \in Correspondence(input)
      BY <2>2, <3>1 DEF Correspondence
    <3>3. e \in GroupingEdges(input)
      BY <3>2 DEF GroupingEdges
    <3> QED BY <1>7, <3>3
  <2>3. PICK b \in Sharing(f, atom) : input.side[b] = "base"
    BY <1>12, <2>1
  <2>4. PICK h \in Sharing(f, atom) : input.side[h] = "head"
    BY <1>12, <2>1
  <2>5. ASSUME NEW x \in Sharing(f, atom) PROVE root[x] = root[b]
    <3>1. input.side[x] \in {"base", "head"}
      BY <1>12, <2>1
    <3>2. CASE input.side[x] = "base"
      BY <2>2, <2>3, <2>4, <3>2
    <3>3. CASE input.side[x] = "head"
      BY <2>2, <2>3, <3>3
    <3> QED BY <3>1, <3>2, <3>3
  <2>6. root[p] = root[b] /\ root[q] = root[b]
    BY <2>5
  <2> QED BY <2>6
<1>14. ASSUME NEW atom \in diff[f].atoms, atom.kind = "replacement"
       PROVE  \/ Sharing(f, atom) \subseteq bundles[k].group
              \/ Sharing(f, atom) \cap bundles[k].group = {}
  <2>1. PICK q \in Primary : bundles[k].group = {p \in Primary : root[p] = root[q]}
    BY <1>8 DEF Groups
  <2>2. Sharing(f, atom) \subseteq Primary
    BY DEF Sharing
  <2> QED BY <1>13, <1>14, <2>1, <2>2
<1> QED BY <1>9, <1>10, <1>12, <1>14

-----------------------------------------------------------------------------
(* What evidence is given for.                                             *)

\* One more element at the end of a sequence.
LEMMA OneMore ==
  ASSUME NEW S, NEW s \in Seq(S), NEW e
  PROVE  /\ Append(s, e) \in Seq(S \cup {e})
         /\ Len(s) \in Nat /\ DOMAIN s = 1 .. Len(s)
         /\ Len(Append(s, e)) = Len(s) + 1 /\ DOMAIN Append(s, e) = 1 .. Len(s) + 1
         /\ Append(s, e)[Len(s) + 1] = e
         /\ \A k \in 1 .. Len(s) : Append(s, e)[k] = s[k]
<1>1. s \in Seq(S \cup {e})
  BY SeqMonotonic
<1>2. Append(s, e) \in Seq(S \cup {e}) /\ Len(Append(s, e)) = Len(s) + 1
  BY <1>1, AppendProperties
<1> QED BY <1>1, <1>2, AppendProperties

\* nothing was chosen for a unit that no bundle may be sent for
Withheld(q, k, e) == Open(q, k) = {} => Chosen(e.status) = {}

\* where the two arms of a unit are made, and what of them is there
ArmsInv ==
  /\ \E S : arms \in Seq(S)
  /\ turn \in {"idle", "asked", "control", "recall"} => arms = <<>>
  /\ turn = "select" => arm \in Arm /\ Len(arms) = IF arm = "hybrid" THEN 1 ELSE 0
  /\ turn = "compare" => Len(arms) = 2
  /\ \A n \in DOMAIN arms : Withheld(query, work, arms[n])

EvidenceInv ==
  /\ turn = "idle" => control = <<>>
  /\ turn \in {"idle", "asked", "control"} => compared = <<>>
  /\ \E S : control \in Seq(S)
  /\ \E S : compared \in Seq(S)
  /\ work = Len(compared) + 1
  /\ \A k \in DOMAIN control : Withheld(query, k, control[k])
  /\ \A k \in DOMAIN compared : \A a \in Arm : Withheld(query, k, compared[k].arms[a])
  /\ ArmsInv

\* a plan is asked about once it is finished
AskedInv ==
  turn # "idle" /\ diff # <<>> => stage = "planning" /\ query.bundles = Range(bundles)

LEMMA NothingChosen == Chosen(<<>>) = {}
BY DEF Chosen

LEMMA InitEvidence == PipelineInit => EvidenceInv /\ AskedInv
<1> SUFFICES ASSUME PipelineInit PROVE EvidenceInv /\ AskedInv
  OBVIOUS
<1>1. \/ turn = "idle"
      \/ turn = "asked" /\ diff = <<>>
  BY DEF PipelineInit, Unasked, RetrievalInit
<1>2. control = <<>> /\ compared = <<>> /\ arms = <<>> /\ work = 1
  BY DEF PipelineInit, Unasked, RetrievalInit
<1>3. arms \in Seq({}) /\ control \in Seq({}) /\ compared \in Seq({}) /\ Len(compared) = 0
  BY <1>2
<1> QED BY <1>1, <1>2, <1>3 DEF EvidenceInv, ArmsInv, AskedInv

\* The arms of a unit.
LEMMA FinishKeepsEvidence == EvidenceInv /\ FinishArm => EvidenceInv'
<1> SUFFICES ASSUME EvidenceInv, FinishArm PROVE EvidenceInv'
  OBVIOUS
<1> DEFINE u == query.units[work]
           made == IF Open(query, work) = {} THEN Evidence(<<>>, <<>>, {BlockedNote})
                   ELSE Evidence(ranked, status, Noted(query, u, status, notes))
<1>1. /\ turn = "select" /\ UNCHANGED <<query, control, work, compared>>
      /\ \/ /\ arms' = Append(arms, made)
            /\ turn' = IF arm = "hybrid" THEN "compare" ELSE turn
            /\ IF arm = "hybrid" THEN UNCHANGED selecting ELSE Begin(pools, "hybrid")
         \/ turn' = "raised" /\ UNCHANGED arms
  BY DEF FinishArm
<1>2. Withheld(query, work, made)
  <2>1. Open(query, work) = {} => made.status = <<>>
    BY DEF Evidence
  <2> QED BY <2>1, NothingChosen DEF Withheld
<1> HIDE DEF made
<1>3. CASE turn' = "raised" /\ UNCHANGED arms
  BY <1>1, <1>3 DEF EvidenceInv, ArmsInv
<1>4. CASE /\ arms' = Append(arms, made)
           /\ turn' = IF arm = "hybrid" THEN "compare" ELSE turn
           /\ IF arm = "hybrid" THEN UNCHANGED selecting ELSE Begin(pools, "hybrid")
  <2>1. PICK S : arms \in Seq(S)
    BY DEF EvidenceInv, ArmsInv
  <2>2. /\ arms' \in Seq(S \cup {made}) /\ Len(arms) \in Nat
        /\ Len(arms') = Len(arms) + 1 /\ DOMAIN arms' = 1 .. Len(arms) + 1 /\ DOMAIN arms = 1 .. Len(arms)
        /\ arms'[Len(arms) + 1] = made /\ \A n \in 1 .. Len(arms) : arms'[n] = arms[n]
    BY <1>4, <2>1, OneMore
  <2>3. \A n \in DOMAIN arms' : Withheld(query, work, arms'[n])
    <3> SUFFICES ASSUME NEW n \in 1 .. Len(arms) + 1 PROVE Withheld(query, work, arms'[n])
      BY <2>2
    <3>1. n \in 1 .. Len(arms) \/ n = Len(arms) + 1
      BY <2>2
    <3> QED BY <1>2, <2>2, <3>1 DEF EvidenceInv, ArmsInv
  <2>4. CASE arm = "hybrid"
    <3>1. turn' = "compare" /\ Len(arms) = 1
      BY <1>1, <1>4, <2>4 DEF EvidenceInv, ArmsInv
    <3>2. Len(arms') = 2
      BY <2>2, <3>1
    <3> QED BY <1>1, <2>2, <2>3, <3>1, <3>2 DEF EvidenceInv, ArmsInv
  <2>5. CASE arm # "hybrid"
    <3>1. turn' = "select" /\ arm' = "hybrid" /\ Len(arms') = 1
      BY <1>1, <1>4, <2>2, <2>5 DEF EvidenceInv, ArmsInv, Begin
    <3> QED BY <1>1, <2>2, <2>3, <3>1 DEF EvidenceInv, ArmsInv, Arm
  <2> QED BY <2>4, <2>5
<1> QED BY <1>1, <1>3, <1>4

LEMMA CompareKeepsEvidence == EvidenceInv /\ CompareUnit => EvidenceInv'
<1> SUFFICES ASSUME EvidenceInv, CompareUnit PROVE EvidenceInv'
  OBVIOUS
<1> DEFINE made == [pools |-> pools, arms |-> Made]
<1>1. /\ turn = "compare" /\ UNCHANGED <<query, control>>
      /\ \/ turn' = "raised" /\ UNCHANGED <<work, arms, compared>>
         \/ /\ compared' = Append(compared, made) /\ arms' = <<>> /\ work' = work + 1
            /\ turn' \in {"bind", "recall"}
  BY DEF CompareUnit
<1>2. \A a \in Arm : Withheld(query, work, made.arms[a])
  <2>1. PICK S : arms \in Seq(S)
    BY DEF EvidenceInv, ArmsInv
  <2>2. 1 \in DOMAIN arms /\ 2 \in DOMAIN arms
    BY <1>1, <2>1 DEF EvidenceInv, ArmsInv
  <2>3. made.arms["static_vector"] = arms[1] /\ made.arms["hybrid"] = arms[2]
    BY DEF Made
  <2> HIDE DEF made
  <2> QED BY <2>2, <2>3 DEF EvidenceInv, ArmsInv, Arm
<1> HIDE DEF made
<1>3. CASE turn' = "raised" /\ UNCHANGED <<work, arms, compared>>
  BY <1>1, <1>3 DEF EvidenceInv, ArmsInv
<1>4. CASE /\ compared' = Append(compared, made) /\ arms' = <<>> /\ work' = work + 1
           /\ turn' \in {"bind", "recall"}
  <2>1. PICK S : compared \in Seq(S)
    BY DEF EvidenceInv
  <2>2. /\ compared' \in Seq(S \cup {made}) /\ Len(compared) \in Nat
        /\ Len(compared') = Len(compared) + 1
        /\ DOMAIN compared' = 1 .. Len(compared) + 1 /\ DOMAIN compared = 1 .. Len(compared)
        /\ compared'[Len(compared) + 1] = made
        /\ \A k \in 1 .. Len(compared) : compared'[k] = compared[k]
    BY <1>4, <2>1, OneMore
  <2>3. work = Len(compared) + 1 /\ work' = Len(compared') + 1
    BY <1>4, <2>2 DEF EvidenceInv
  <2>4. ASSUME NEW k \in DOMAIN compared', NEW a \in Arm PROVE Withheld(query, k, compared'[k].arms[a])
    <3>1. k \in 1 .. Len(compared) \/ k = Len(compared) + 1
      BY <2>2
    <3> QED BY <1>2, <2>2, <2>3, <3>1 DEF EvidenceInv
  <2>5. arms' \in Seq({}) /\ DOMAIN arms' = {}
    BY <1>4
  <2>6. ArmsInv'
    BY <1>4, <2>5 DEF ArmsInv
  <2> QED BY <1>1, <1>4, <2>2, <2>3, <2>4, <2>6 DEF EvidenceInv
<1> QED BY <1>1, <1>3, <1>4

LEMMA NextEvidence == EvidenceInv /\ [PipelineNext]_pipelineVars => EvidenceInv'
<1> SUFFICES ASSUME EvidenceInv, [PipelineNext]_pipelineVars PROVE EvidenceInv'
  OBVIOUS
<1>1. CASE AnalysisStep \/ FileStep \/ UNCHANGED pipelineVars
  <2>1. UNCHANGED retrievalVars
    BY <1>1 DEF AnalysisStep, FileStep, pipelineVars
  <2> QED BY <2>1 DEF EvidenceInv, ArmsInv, retrievalVars, selecting
<1>2. CASE AskForEvidence
  <2>1. /\ turn = "idle" /\ turn' = "asked" /\ UNCHANGED <<control, work, arms, compared>>
    BY <1>2 DEF AskForEvidence
  <2>2. control = <<>> /\ arms = <<>> /\ compared = <<>>
    BY <2>1 DEF EvidenceInv, ArmsInv
  <2>3. DOMAIN control' = {} /\ DOMAIN arms' = {} /\ DOMAIN compared' = {}
    BY <2>1, <2>2
  <2> QED BY <2>1, <2>2, <2>3 DEF EvidenceInv, ArmsInv
<1>3. ASSUME turn # "idle", BuildRequest PROVE EvidenceInv'
  BY <1>3 DEF BuildRequest, EvidenceInv, ArmsInv
<1>4. ASSUME RetrieveUnit PROVE EvidenceInv'
  <2> DEFINE n == Len(control)
  <2>1. PICK outcome \in VectorOutcomes(query, query.units[n + 1], "control") :
          control' = Append(control, UnitEvidence(query, n + 1, outcome))
    BY <1>4 DEF RetrieveUnit
  <2> DEFINE made == UnitEvidence(query, n + 1, outcome)
  <2>2. Withheld(query, n + 1, made)
    <3>1. Open(query, n + 1) = {} => made.status = <<>>
      BY DEF UnitEvidence, Evidence
    <3> HIDE DEF made
    <3> QED BY <3>1, NothingChosen DEF Withheld
  <2>3. control' = Append(control, made)
    BY <2>1
  <2> HIDE DEF made
  <2>4. PICK S : control \in Seq(S)
    BY DEF EvidenceInv
  <2>5. /\ control' \in Seq(S \cup {made}) /\ n \in Nat
        /\ DOMAIN control' = 1 .. n + 1 /\ DOMAIN control = 1 .. n
        /\ control'[n + 1] = made /\ \A k \in 1 .. n : control'[k] = control[k]
    BY <2>3, <2>4, OneMore
  <2>6. ASSUME NEW k \in DOMAIN control' PROVE Withheld(query, k, control'[k])
    <3>1. k \in 1 .. n \/ k = n + 1
      BY <2>5
    <3> QED BY <2>2, <2>5, <3>1 DEF EvidenceInv
  <2>7. /\ turn = "control" /\ turn' \in {"control", "recall"}
        /\ UNCHANGED <<query, work, arms, arm, compared>>
    BY <1>4 DEF RetrieveUnit, selecting
  <2>8. ArmsInv' /\ compared = <<>>
    BY <2>7 DEF EvidenceInv, ArmsInv
  <2> QED BY <2>5, <2>6, <2>7, <2>8 DEF EvidenceInv
<1>5. ASSUME Recall PROVE EvidenceInv'
  <2>1. /\ turn = "recall" /\ turn' = "select" /\ arm' = "static_vector"
        /\ UNCHANGED <<query, control, work, arms, compared>>
    BY <1>5 DEF Recall, Begin
  <2>2. arms = <<>> /\ Len(arms) = 0
    BY <2>1 DEF EvidenceInv, ArmsInv
  <2> QED BY <2>1, <2>2 DEF EvidenceInv, ArmsInv, Arm
<1>6. ASSUME ServeDimension PROVE EvidenceInv'
  BY <1>6 DEF ServeDimension, EvidenceInv, ArmsInv
<1>7. ASSUME NEW r \in DOMAIN ranked, Consider(r) PROVE EvidenceInv'
  BY <1>7 DEF Consider, EvidenceInv, ArmsInv
<1>8. ASSUME Conclude \/ Answered PROVE EvidenceInv'
  <2>1. /\ UNCHANGED <<query, control, work, arms, arm, compared>>
        /\ turn' = turn \/ turn' \in {"returned", "raised"}
    BY <1>8 DEF Conclude, Answered, retrievalVars, selecting
  <2> QED BY <2>1 DEF EvidenceInv, ArmsInv
<1>9. CASE RetrievalStep
  BY <1>3, <1>4, <1>5, <1>6, <1>7, <1>8, <1>9, FinishKeepsEvidence, CompareKeepsEvidence
  DEF RetrievalStep, RetrievalNext
<1> QED BY <1>1, <1>2, <1>9 DEF PipelineNext

LEMMA NextAsked == ReviewInv /\ PlanningInv /\ AskedInv /\ [PipelineNext]_pipelineVars => AskedInv'
<1> SUFFICES ASSUME ReviewInv, PlanningInv, AskedInv, [PipelineNext]_pipelineVars PROVE AskedInv'
  OBVIOUS
<1>1. CASE AnalysisStep
  <2>1. turn' = "idle"
    BY <1>1 DEF AnalysisStep, retrievalVars
  <2> QED BY <2>1 DEF AskedInv
<1>2. CASE AskForEvidence
  <2>1. /\ phase = "done" /\ diff # <<>> /\ UNCHANGED <<diff, stage, bundles>>
    BY <1>2 DEF AskForEvidence, allVars, reviewVars, vars
  <2>2. stage = "planning"
    BY <2>1 DEF PlanningInv, Begins
  <2>3. PICK q \in Surroundings(diff) :
          query' = [q EXCEPT !.bindings = input.bindings, !.bundles = Range(bundles),
                             !.units = [k \in DOMAIN @ |-> RoutedUnit(@[k], profiles[k])]]
    BY <1>2 DEF AskForEvidence
  <2>4. "bundles" \in DOMAIN q
    BY <2>1, <2>2, SurroundingsAssumption DEF ReviewInv, AllAdmitted
  <2>5. query'.bundles = Range(bundles)
    BY <2>3, <2>4
  <2> QED BY <2>1, <2>2, <2>5 DEF AskedInv
<1>3. CASE RetrievalStep
  <2>1. UNCHANGED <<diff, stage, bundles>> /\ turn # "idle"
    BY <1>3 DEF RetrievalStep, allVars, reviewVars, vars
  <2>2. query' = query
    BY <1>3 DEF RetrievalStep, RetrievalNext, BuildRequest, RetrieveUnit, Recall, ServeDimension, Consider,
                FinishArm, CompareUnit, Conclude, Answered, retrievalVars
  <2> QED BY <2>1, <2>2 DEF AskedInv
<1>4. CASE FileStep \/ UNCHANGED pipelineVars
  <2>1. UNCHANGED <<diff, stage, bundles, turn, query>>
    BY <1>4 DEF FileStep, pipelineVars, allVars, reviewVars, vars, retrievalVars
  <2> QED BY <2>1 DEF AskedInv
<1> QED BY <1>1, <1>2, <1>3, <1>4 DEF PipelineNext

\* All that is known of the pipeline.
PipelineInv == PlannedWhole /\ EvidenceInv /\ AskedInv

LEMMA OnlyWholeChanges == PipelineInv => WholeChangesOnly
<1> SUFFICES ASSUME PipelineInv PROVE WholeChangesOnly
  OBVIOUS
<1>1. ASSUME NEW k \in DOMAIN bundles, bundles[k].dispatch_allowed, stage = "planning"
      PROVE  WholeIn(bundles[k])
  <2>1. CASE diff = <<>>
    BY <2>1 DEF WholeIn
  <2> QED BY <1>1, <2>1, DispatchedIsWhole DEF PipelineInv
<1>2. DispatchedChangesAreWhole
  BY <1>1 DEF DispatchedChangesAreWhole, WholeIn
<1>3. ASSUME diff # <<>>, turn = "returned", NEW k \in DOMAIN control,
             NEW e \in Evidences(k), Chosen(e.status) # {},
             NEW f \in DOMAIN diff
      PROVE  /\ ~diff[f].binary
             /\ \A r \in Role :
                  LinesOf(diff[f].atoms, r) \subseteq
                    UNION {x.unit.lines : x \in {y \in UnitsOf(results) : y.file = f /\ y.role = r}}
  <2>1. Withheld(query, k, e)
    BY <1>3 DEF PipelineInv, EvidenceInv, Evidences
  <2>2. Open(query, k) # {}
    BY <1>3, <2>1 DEF Withheld
  <2>3. PICK b \in query.bundles : b.dispatch_allowed
    BY <2>2 DEF Open
  <2>4. stage = "planning" /\ query.bundles = Range(bundles)
    BY <1>3 DEF PipelineInv, AskedInv
  <2>5. PICK j \in DOMAIN bundles : bundles[j] = b
    BY <2>3, <2>4 DEF Range
  <2>6. WholeIn(bundles[j])
    BY <1>1, <2>3, <2>4, <2>5
  <2>7. ~diff[f].binary
    BY <2>6 DEF WholeIn
  <2>8. Normalizes(diff[f])
    BY <1>3, <2>4 DEF PipelineInv, PlannedWhole, ReviewInv, AllAdmitted
  <2>9. ASSUME NEW r \in Role, NEW atom \in diff[f].atoms
        PROVE  atom.lines[r] \subseteq
                 UNION {x.unit.lines : x \in {y \in UnitsOf(results) : y.file = f /\ y.role = r}}
    <3>1. CASE r \in KindSides(atom.kind)
      BY <2>6, <3>1 DEF WholeIn
    <3>2. CASE r \notin KindSides(atom.kind)
      BY <2>7, <2>8, <3>2 DEF Normalizes, AtomFits
    <3> QED BY <3>1, <3>2
  <2> QED BY <2>7, <2>9 DEF LinesOf
<1> QED BY <1>2, <1>3 DEF WholeChangesOnly

\* Bundles go out, and evidence is given, only for changes that are reviewed
\* as a whole, whatever the diff, the parse of its files and the index.
THEOREM OnlyWholeChangesGoOut == PipelineSpec => []WholeChangesOnly
<1>1. PipelineInit => PipelineInv
  BY InitReviews, InitPlanning, InitArguments, InitEvidence DEF PipelineInv, PlannedWhole
<1>2. PipelineInv /\ [PipelineNext]_pipelineVars => PipelineInv'
  BY NextReviews, NextPlanning, NextArguments, NextEvidence, NextAsked DEF PipelineInv, PlannedWhole
<1> QED BY <1>1, <1>2, OnlyWholeChanges, PTL DEF PipelineSpec

-----------------------------------------------------------------------------
(* Selecting clauses.                                                      *)

Verdict == {"selected", "token_budget", "result_limit"}
Picks(D) == UNION {[X -> Verdict] : X \in SUBSET D}

\* what was selected, or found too large, stays so
Later(s, t) ==
  \A x \in DOMAIN s : x \in DOMAIN t /\ (s[x] \in {"selected", "token_budget"} => t[x] = s[x])

\* To have selected nothing is a selection.
LEMMA NothingSelected == ASSUME NEW D PROVE <<>> \in Picks(D) /\ Chosen(<<>>) = {}
<1>1. <<>> \in [{} -> Verdict]
  OBVIOUS
<1>2. {} \in SUBSET D
  OBVIOUS
<1> QED BY <1>1, <1>2, NothingChosen DEF Picks

\* A selection is of some clauses, each with its verdict.
LEMMA SelectionShape ==
  ASSUME NEW D, NEW s \in Picks(D)
  PROVE  /\ DOMAIN s \subseteq D /\ \A x \in DOMAIN s : s[x] \in Verdict
         /\ Chosen(s) \subseteq D
BY DEF Picks, Chosen

\* Clauses are marked with a verdict; the others keep theirs.
LEMMA MarkedDomain ==
  ASSUME NEW s, NEW S, NEW what
  PROVE  DOMAIN Marked(s, S, what) = DOMAIN s \cup S
BY DEF Marked

\* A marked clause has the verdict.
LEMMA MarkedNew ==
  ASSUME NEW s, NEW S, NEW what
  PROVE  \A x \in S : Marked(s, S, what)[x] = what
BY DEF Marked

\* A clause that is not marked keeps its verdict.
LEMMA MarkedOld ==
  ASSUME NEW s, NEW S, NEW what
  PROVE  \A x \in DOMAIN s \ S : Marked(s, S, what)[x] = s[x]
BY DEF Marked

\* Marking clauses makes a selection of a selection.
LEMMA MarkedIn ==
  ASSUME NEW D, NEW s \in Picks(D), NEW S, S \subseteq D, NEW what \in Verdict
  PROVE  Marked(s, S, what) \in Picks(D)
<1>1. DOMAIN s \cup S \in SUBSET D
  BY SelectionShape
<1>2. Marked(s, S, what) \in [DOMAIN s \cup S -> Verdict]
  BY SelectionShape DEF Marked
<1> QED BY <1>1, <1>2 DEF Picks

\* What one more clause changes.
LEMMA TriedShape ==
  ASSUME NEW q, NEW budget, NEW D, NEW s \in Picks(D), NEW r \in D
  PROVE  /\ Tried(q, budget, s, r) \in Picks(D)
         /\ Later(s, Tried(q, budget, s, r))
         /\ r \in DOMAIN Tried(q, budget, s, r)
         /\ ~Full(q, s) => Tried(q, budget, s, r)[r] \in {"selected", "token_budget"}
         /\ \/ Chosen(Tried(q, budget, s, r)) = Chosen(s)
            \/ /\ Chosen(Tried(q, budget, s, r)) = Chosen(s) \cup {r}
               /\ r \notin Chosen(s) /\ ~Full(q, s) /\ HasRoom(q, budget, s, r)
<1> DEFINE t == Tried(q, budget, s, r)
<1>1. CASE r \in DOMAIN s /\ s[r] \in {"selected", "token_budget"}
  <2>1. t = s
    BY <1>1 DEF Tried
  <2>2. Later(s, s)
    BY DEF Later
  <2> HIDE DEF t
  <2>3. t \in Picks(D) /\ Later(s, t) /\ r \in DOMAIN t /\ t[r] \in {"selected", "token_budget"} /\ Chosen(t) = Chosen(s)
    BY <1>1, <2>1, <2>2
  <2> QED BY <2>3 DEF t
<1>2. CASE ~(r \in DOMAIN s /\ s[r] \in {"selected", "token_budget"})
  <2>1. PICK what \in Verdict : /\ t = Marked(s, {r}, what)
                                /\ what = "selected" => ~Full(q, s) /\ HasRoom(q, budget, s, r)
                                /\ ~Full(q, s) => what \in {"selected", "token_budget"}
    BY <1>2 DEF Tried, Verdict
  <2>2. /\ t \in Picks(D) /\ DOMAIN t = DOMAIN s \cup {r}
        /\ \A x \in DOMAIN s \cup {r} : t[x] = IF x \in {r} THEN what ELSE s[x]
    <3> DEFINE R == {r}
    <3>1. R \subseteq D
      OBVIOUS
    <3>2. t = Marked(s, R, what)
      BY <2>1
    <3> HIDE DEF t, R
    <3>3. /\ Marked(s, R, what) \in Picks(D) /\ DOMAIN Marked(s, R, what) = DOMAIN s \cup R
          /\ \A x \in R : Marked(s, R, what)[x] = what
          /\ \A x \in DOMAIN s \ R : Marked(s, R, what)[x] = s[x]
      <4>1. Marked(s, R, what) \in Picks(D)
        BY <3>1, MarkedIn
      <4>2. DOMAIN Marked(s, R, what) = DOMAIN s \cup R
        BY MarkedDomain
      <4>3. \A x \in R : Marked(s, R, what)[x] = what
        BY MarkedNew
      <4>4. \A x \in DOMAIN s \ R : Marked(s, R, what)[x] = s[x]
        BY MarkedOld
      <4> QED BY <4>1, <4>2, <4>3, <4>4
    <3> QED BY <3>2, <3>3 DEF R
  <2> HIDE DEF t
  <2>3. Later(s, t)
    BY <1>2, <2>2 DEF Later
  <2>4. r \notin Chosen(s)
    BY <1>2 DEF Chosen
  <2>5. CASE what = "selected"
    <3>1. Chosen(t) = Chosen(s) \cup {r}
      BY <2>2, <2>5 DEF Chosen
    <3> QED BY <2>1, <2>2, <2>3, <2>4, <2>5, <3>1 DEF t
  <2>6. CASE what # "selected"
    <3>1. Chosen(t) = Chosen(s)
      BY <1>2, <2>2, <2>6 DEF Chosen
    <3> QED BY <2>1, <2>2, <2>3, <2>6, <3>1 DEF t
  <2> QED BY <2>5, <2>6
<1> QED BY <1>1, <1>2

\* What was selected stays selected.
LEMMA LaterChosen ==
  ASSUME NEW s, NEW t, Later(s, t)
  PROVE  Chosen(s) \subseteq Chosen(t)
BY DEF Later, Chosen

\* Of selections in a row the last is later than the first.
LEMMA LaterStill ==
  ASSUME NEW s, NEW t, NEW u, Later(s, t), Later(t, u)
  PROVE  Later(s, u)
BY DEF Later

\* the fold that offers every clause
Filled(q, budget, base, order) == FoldLeft(LAMBDA s, r : Tried(q, budget, s, r), base, order)

\* the selections on the way, one for each clause
Fills(v, q, budget, base, order, N) ==
  /\ v[0] = base /\ v[N] = Filled(q, budget, base, order)
  /\ \A k \in 1 .. N : v[k] = Tried(q, budget, v[k - 1], order[k])

\* Trying the clauses in order takes one selection after another.
LEMMA FilledTrace ==
  ASSUME NEW q, NEW budget, NEW D, NEW base \in Picks(D), NEW N \in Nat,
         NEW order, DOMAIN order = 1 .. N, \A k \in 1 .. N : order[k] \in D
  PROVE  \E v \in [0 .. N -> Picks(D)] : Fills(v, q, budget, base, order, N)
<1> DEFINE V == Picks(D)
           step(k, s) == Tried(q, budget, s, order[k])
           F(f) == f = [s \in SUBSET (1 .. N) |->
                          IF s = {} THEN base ELSE step(Max(s), f[s \ {Max(s)}])]
           g == CHOOSE f : F(f)
           w == [k \in 1 .. N |-> [s \in V |-> step(k, s)]]
<1>1. Filled(q, budget, base, order) = g[1 .. N]
  BY DEF Filled, FoldLeft, MapThenFoldSet
<1>2. \A k \in 1 .. N : \A s \in V : step(k, s) \in V
  BY TriedShape
<1> HIDE DEF step, V
<1>3. w \in [1 .. N -> [V -> V]] /\ base \in V
  BY <1>2 DEF V
<1>4. F(g)
  <2>1. PICK f \in [SUBSET (1 .. N) -> V] : IsFold(w, base, N, f)
    <3> HIDE DEF w
    <3> QED BY <1>3, FoldExists
  <2>2. ASSUME NEW s \in SUBSET (1 .. N)
        PROVE  f[s] = IF s = {} THEN base ELSE step(Max(s), f[s \ {Max(s)}])
    <3>1. s # {} => Max(s) \in 1 .. N
      BY MaxIn
    <3>2. s \ {Max(s)} \in SUBSET (1 .. N)
      OBVIOUS
    <3> QED BY <2>1, <3>1, <3>2 DEF IsFold
  <2>3. f = [s \in SUBSET (1 .. N) |-> f[s]]
    OBVIOUS
  <2>4. F(f)
    BY <2>2, <2>3
  <2> HIDE DEF F
  <2> QED BY <2>4
<1>5. \A s \in SUBSET (1 .. N) : g[s] = IF s = {} THEN base ELSE step(Max(s), g[s \ {Max(s)}])
  BY <1>4
<1> HIDE DEF g, F
<1>6. ASSUME NEW s \in SUBSET (1 .. N), s # {}, g[s \ {Max(s)}] \in V
      PROVE  g[s] = w[Max(s)][g[s \ {Max(s)}]]
  <2>1. Max(s) \in 1 .. N
    BY <1>6, MaxIn
  <2> QED BY <1>5, <1>6, <2>1
<1>7. g[{}] = base
  BY <1>5
<1>8. PICK v \in [0 .. N -> V] : Steps(v, g, w, base, N)
  <2>1. Folds(g, V, w, base, N)
    BY <1>6, <1>7 DEF Folds
  <2> HIDE DEF w
  <2> QED BY <1>3, <2>1, FoldSteps
<1>9. ASSUME NEW k \in 1 .. N PROVE v[k] = step(k, v[k - 1])
  <2>1. k - 1 \in 0 .. N
    OBVIOUS
  <2> QED BY <1>8, <2>1 DEF Steps
<1> QED BY <1>1, <1>8, <1>9 DEF step, V, Steps, Fills

-----------------------------------------------------------------------------
(* What a selection costs.                                                 *)

\* what a request's clauses are taken from
Selectable(q, D) ==
  /\ IsFiniteSet(D) /\ D \subseteq DOMAIN q.clauses
  /\ \A r \in DOMAIN q.clauses : q.clauses[r].tokens \in Nat
  /\ q.policy.results \in Nat

\* t is s with one clause more, for which there was room
Adds(q, budget, D, s, t, r) ==
  /\ r \in D \ Chosen(s) /\ Chosen(t) = Chosen(s) \cup {r}
  /\ ~Full(q, s) /\ HasRoom(q, budget, s, r)

ClauseTokens(q) == [r \in DOMAIN q.clauses |-> q.clauses[r].tokens]

\* What a selection costs is the total of its clauses.
LEMMA ClauseTokensAreTotal ==
  ASSUME NEW q, NEW S \in SUBSET DOMAIN q.clauses
  PROVE  TokensIn(q, S) = Total(ClauseTokens(q), S)
<1> DEFINE F(f) == f = [s \in SUBSET S |->
                          IF s = {} THEN 0 ELSE q.clauses[Pick(s)].tokens + f[s \ {Pick(s)}]]
<1>1. TokensIn(q, S) = (CHOOSE f : F(f))[S]
  BY DEF TokensIn, MapThenSumSet, MapThenFoldSet, Pick
<1>2. ASSUME NEW s \in SUBSET S, s # {}
      PROVE  ClauseTokens(q)[Pick(s)] = q.clauses[Pick(s)].tokens
  BY <1>2, PickIn DEF ClauseTokens
<1>3. ASSUME NEW f
      PROVE  [s \in SUBSET S |->
                IF s = {} THEN 0 ELSE q.clauses[Pick(s)].tokens + f[s \ {Pick(s)}]]
             = [s \in SUBSET S |->
                  IF s = {} THEN 0 ELSE ClauseTokens(q)[Pick(s)] + f[s \ {Pick(s)}]]
  BY <1>2
<1>4. \A f : F(f) <=> IsSum(ClauseTokens(q), S, f)
  BY <1>3 DEF IsSum
<1>5. (CHOOSE f : F(f)) = (CHOOSE f : IsSum(ClauseTokens(q), S, f))
  <2> HIDE DEF F
  <2> QED BY <1>4
<1> QED BY <1>1, <1>5 DEF Total

\* One clause more costs its tokens more.
LEMMA TokensWith ==
  ASSUME NEW q, NEW D, Selectable(q, D), NEW S \in SUBSET D, NEW r \in D, r \notin S
  PROVE  /\ TokensIn(q, S) \in Nat
         /\ TokensIn(q, S \cup {r}) = TokensIn(q, S) + q.clauses[r].tokens
<1> DEFINE C == DOMAIN q.clauses
           v == ClauseTokens(q)
           T == S \cup {r}
<1>1. IsFiniteSet(S) /\ S \in SUBSET C /\ T \in SUBSET C /\ r \in C
  BY FS_Subset DEF Selectable
<1>2. TokensIn(q, S) = Total(v, S) /\ TokensIn(q, T) = Total(v, T)
  <2> HIDE DEF T
  <2> QED BY <1>1, ClauseTokensAreTotal
<1>3. v \in [C -> Nat] /\ v[r] = q.clauses[r].tokens
  BY <1>1 DEF Selectable, ClauseTokens
<1> HIDE DEF v, C
<1>4. Total(v, S) \in Nat /\ Total(v, S \cup {r}) = Total(v, S) + v[r]
  BY <1>1, <1>3, TotalTyped, TotalWith
<1> QED BY <1>2, <1>3, <1>4

\* the tokens of nothing
LEMMA TokensOfNone == ASSUME NEW q PROVE TokensIn(q, {}) = 0
<1>1. TokensIn(q, {}) = Total(ClauseTokens(q), {})
  BY ClauseTokensAreTotal
<1> QED BY <1>1, TotalStep, FS_EmptySet

\* One clause more takes one place.
LEMMA AddsCount ==
  ASSUME NEW q, NEW budget, NEW D, Selectable(q, D), NEW s \in Picks(D), NEW t, NEW r,
         Adds(q, budget, D, s, t, r)
  PROVE  Cardinality(Chosen(t)) = Cardinality(Chosen(s)) + 1
<1> DEFINE S == Chosen(s)
<1>1. S \in SUBSET D /\ IsFiniteSet(S) /\ r \in D /\ r \notin S /\ Chosen(t) = S \cup {r}
  BY SelectionShape, FS_Subset DEF Adds, Selectable
<1> HIDE DEF S
<1>2. Cardinality(S \cup {r}) = Cardinality(S) + 1
  BY <1>1, FS_AddElement
<1> QED BY <1>1, <1>2 DEF S

\* It takes no more than there was room for.
LEMMA AddsOne ==
  ASSUME NEW q, NEW budget \in Nat, NEW D, Selectable(q, D), NEW s \in Picks(D), NEW t, NEW r,
         Adds(q, budget, D, s, t, r)
  PROVE  TokensIn(q, Chosen(t)) <= budget
<1> DEFINE S == Chosen(s)
<1>1. S \in SUBSET D /\ r \in D /\ r \notin S /\ Chosen(t) = S \cup {r}
  BY SelectionShape DEF Adds
<1>2. TokensIn(q, S) + q.clauses[r].tokens <= budget
  BY DEF Adds, HasRoom
<1> HIDE DEF S
<1>3. TokensIn(q, S \cup {r}) = TokensIn(q, S) + q.clauses[r].tokens
  BY <1>1, TokensWith
<1> QED BY <1>1, <1>2, <1>3

-----------------------------------------------------------------------------
(* The first clause for a dimension.                                       *)

\* a selection, and whether a clause was found
Search(D) == [s : Picks(D), done : BOOLEAN]

\* Offering a clause goes on with the search.
LEMMA OfferedTyped ==
  ASSUME NEW q, NEW budget, NEW D, NEW d, NEW acc \in Search(D), NEW r \in D
  PROVE  Offered(q, budget, d, acc, r) \in Search(D)
<1>1. Tried(q, budget, acc.s, r) \in Picks(D)
  BY TriedShape DEF Search
<1> HIDE DEF Search
<1> DEFINE next == Tried(q, budget, acc.s, r)
<1>2. [s |-> next, done |-> r \in Chosen(next)] \in Search(D)
  BY <1>1 DEF Search
<1> QED BY <1>2 DEF Offered

\* the states of the search for a dimension, one for each clause
Trace(v, q, budget, order, s0, d, N) ==
  /\ v[0] = [s |-> s0, done |-> FALSE] /\ v[N].s = FirstOf(q, budget, order, s0, d)
  /\ \A k \in 1 .. N : v[k] = Offered(q, budget, d, v[k - 1], order[k])

\* The search for a dimension goes from one clause to the next.
LEMMA FirstTrace ==
  ASSUME NEW q, NEW budget, NEW D, NEW s0 \in Picks(D), NEW N \in Nat, NEW d,
         NEW order, DOMAIN order = 1 .. N, \A k \in 1 .. N : order[k] \in D
  PROVE  \E v \in [0 .. N -> Search(D)] : Trace(v, q, budget, order, s0, d, N)
<1> DEFINE V == Search(D)
           base == [s |-> s0, done |-> FALSE]
           step(k, s) == Offered(q, budget, d, s, order[k])
           F(f) == f = [s \in SUBSET (1 .. N) |->
                          IF s = {} THEN base ELSE step(Max(s), f[s \ {Max(s)}])]
           g == CHOOSE f : F(f)
           w == [k \in 1 .. N |-> [s \in V |-> step(k, s)]]
<1>1. FirstOf(q, budget, order, s0, d) = g[1 .. N].s
  BY DEF FirstOf, FoldLeft, MapThenFoldSet
<1>2. \A k \in 1 .. N : \A s \in V : step(k, s) \in V
  BY OfferedTyped
<1>3. base \in V
  BY DEF Search
<1> HIDE DEF step, V, base
<1>4. w \in [1 .. N -> [V -> V]]
  BY <1>2
<1>5. F(g)
  <2>1. PICK f \in [SUBSET (1 .. N) -> V] : IsFold(w, base, N, f)
    <3> HIDE DEF w
    <3> QED BY <1>3, <1>4, FoldExists
  <2>2. ASSUME NEW s \in SUBSET (1 .. N)
        PROVE  f[s] = IF s = {} THEN base ELSE step(Max(s), f[s \ {Max(s)}])
    <3>1. s # {} => Max(s) \in 1 .. N
      BY MaxIn
    <3>2. s \ {Max(s)} \in SUBSET (1 .. N)
      OBVIOUS
    <3> QED BY <2>1, <3>1, <3>2 DEF IsFold
  <2>3. f = [s \in SUBSET (1 .. N) |-> f[s]]
    OBVIOUS
  <2>4. F(f)
    BY <2>2, <2>3
  <2> HIDE DEF F
  <2> QED BY <2>4
<1>6. \A s \in SUBSET (1 .. N) : g[s] = IF s = {} THEN base ELSE step(Max(s), g[s \ {Max(s)}])
  BY <1>5
<1> HIDE DEF g, F
<1>7. ASSUME NEW s \in SUBSET (1 .. N), s # {}, g[s \ {Max(s)}] \in V
      PROVE  g[s] = w[Max(s)][g[s \ {Max(s)}]]
  <2>1. Max(s) \in 1 .. N
    BY <1>7, MaxIn
  <2> QED BY <1>6, <1>7, <2>1
<1>8. g[{}] = base
  BY <1>6
<1>9. PICK v \in [0 .. N -> V] : Steps(v, g, w, base, N)
  <2>1. Folds(g, V, w, base, N)
    BY <1>7, <1>8 DEF Folds
  <2> HIDE DEF w
  <2> QED BY <1>3, <1>4, <2>1, FoldSteps
<1>10. ASSUME NEW k \in 1 .. N PROVE v[k] = step(k, v[k - 1])
  <2>1. k - 1 \in 0 .. N
    OBVIOUS
  <2> QED BY <1>9, <2>1 DEF Steps
<1> QED BY <1>1, <1>9, <1>10 DEF step, V, base, Steps, Trace

\* What a search has done after some clauses, begun with s: as long as it has
\* found nothing, every clause with the dimension was chosen before or does
\* not fit; then it has added one.
Searched(q, budget, D, d, s, acc, order, k) ==
  /\ Later(s, acc.s)
  /\ ~acc.done => Chosen(acc.s) = Chosen(s)
  /\ acc.done => \E r \in D : Adds(q, budget, D, s, acc.s, r) /\ d \in q.clauses[r].dims
  /\ ~acc.done /\ ~Full(q, s) =>
       \A j \in 1 .. k :
         d \in q.clauses[order[j]].dims =>
           \/ order[j] \in Chosen(s)
           \/ order[j] \in DOMAIN acc.s /\ acc.s[order[j]] = "token_budget"

\* Offering the next clause keeps what the search has shown.
LEMMA OfferedSearches ==
  ASSUME NEW q, NEW budget, NEW D, NEW d, NEW s \in Picks(D), NEW acc \in Search(D),
         NEW N \in Nat, NEW order, \A j \in 1 .. N : order[j] \in D, NEW k \in 1 .. N,
         Searched(q, budget, D, d, s, acc, order, k - 1)
  PROVE  Searched(q, budget, D, d, s, Offered(q, budget, d, acc, order[k]), order, k)
<1> DEFINE r == order[k]
           next == Tried(q, budget, acc.s, r)
           new == Offered(q, budget, d, acc, r)
<1>1. r \in D /\ acc.s \in Picks(D) /\ acc.done \in BOOLEAN /\ k - 1 \in Nat
      /\ 1 .. k = (1 .. k - 1) \cup {k}
  BY DEF Search
<1>2. CASE acc.done \/ d \notin q.clauses[r].dims \/ r \in Chosen(acc.s)
  <2>1. new = acc
    BY <1>2 DEF Offered
  <2>2. ~acc.done => d \notin q.clauses[r].dims \/ r \in Chosen(s)
    BY <1>2 DEF Searched
  <2> HIDE DEF new
  <2> QED BY <1>1, <2>1, <2>2 DEF Searched, new
<1>3. CASE ~(acc.done \/ d \notin q.clauses[r].dims \/ r \in Chosen(acc.s))
  <2>1. new = [s |-> next, done |-> r \in Chosen(next)]
    BY <1>3 DEF Offered
  <2>2. new.s = next /\ new.done = (r \in Chosen(next))
    BY <2>1
  <2>3. /\ next \in Picks(D) /\ Later(acc.s, next) /\ r \in DOMAIN next
        /\ ~Full(q, acc.s) => next[r] \in {"selected", "token_budget"}
        /\ \/ Chosen(next) = Chosen(acc.s)
           \/ /\ Chosen(next) = Chosen(acc.s) \cup {r}
              /\ r \notin Chosen(acc.s) /\ ~Full(q, acc.s) /\ HasRoom(q, budget, acc.s, r)
    BY <1>1, TriedShape
  <2> HIDE DEF new, next
  <2>4. Chosen(acc.s) = Chosen(s) /\ Later(s, acc.s)
    BY <1>3 DEF Searched
  <2>5. (Full(q, acc.s) <=> Full(q, s)) /\ (HasRoom(q, budget, acc.s, r) <=> HasRoom(q, budget, s, r))
    BY <2>4 DEF Full, HasRoom
  <2>6. Later(s, next)
    BY <2>3, <2>4, LaterStill
  <2>7. CASE r \in Chosen(next)
    <3>1. Adds(q, budget, D, s, next, r)
      BY <1>1, <1>3, <2>3, <2>4, <2>5, <2>7 DEF Adds
    <3> QED BY <1>1, <1>3, <2>2, <2>6, <2>7, <3>1 DEF Searched, new
  <2>8. CASE r \notin Chosen(next)
    <3>1. Chosen(next) = Chosen(s) /\ ~new.done
      BY <2>2, <2>3, <2>4, <2>8
    <3>2. ~Full(q, s) => r \in DOMAIN next /\ next[r] = "token_budget"
      BY <2>3, <2>5, <2>8 DEF Chosen
    <3>3. ASSUME ~Full(q, s), NEW j \in 1 .. k, d \in q.clauses[order[j]].dims
          PROVE  \/ order[j] \in Chosen(s)
                 \/ order[j] \in DOMAIN next /\ next[order[j]] = "token_budget"
      <4>1. CASE j = k
        BY <3>2, <3>3, <4>1
      <4>2. CASE j # k
        <5>1. j \in 1 .. k - 1
          BY <1>1, <4>2
        <5>2. \/ order[j] \in Chosen(s)
              \/ order[j] \in DOMAIN acc.s /\ acc.s[order[j]] = "token_budget"
          BY <1>3, <3>3, <5>1 DEF Searched
        <5> QED BY <2>3, <5>2 DEF Later
      <4> QED BY <4>1, <4>2
    <3> QED BY <2>2, <2>6, <3>1, <3>3 DEF Searched, new
  <2> QED BY <2>7, <2>8
<1> QED BY <1>2, <1>3

\* every clause in an order that has a dimension was found too large
Outspent(q, d, s, order, n) ==
  \A j \in 1 .. n :
    d \in q.clauses[order[j]].dims => order[j] \in DOMAIN s /\ s[order[j]] = "token_budget"

\* A clause with the dimension is added, or none fits - or there are as many
\* as may be.
LEMMA FirstServes ==
  ASSUME NEW q, NEW budget, NEW D, NEW s \in Picks(D), NEW N \in Nat, NEW d,
         NEW order, DOMAIN order = 1 .. N, \A k \in 1 .. N : order[k] \in D
  PROVE  /\ FirstOf(q, budget, order, s, d) \in Picks(D)
         /\ Later(s, FirstOf(q, budget, order, s, d))
         /\ \/ Chosen(FirstOf(q, budget, order, s, d)) = Chosen(s)
            \/ \E r \in D : Adds(q, budget, D, s, FirstOf(q, budget, order, s, d), r)
         /\ \/ Full(q, s)
            \/ \E r \in Chosen(FirstOf(q, budget, order, s, d)) : d \in q.clauses[r].dims
            \/ Outspent(q, d, FirstOf(q, budget, order, s, d), order, N)
<1> DEFINE t == FirstOf(q, budget, order, s, d)
<1>1. PICK v \in [0 .. N -> Search(D)] :
        /\ v[0] = [s |-> s, done |-> FALSE] /\ v[N].s = t
        /\ \A k \in 1 .. N : v[k] = Offered(q, budget, d, v[k - 1], order[k])
  <2>1. PICK v \in [0 .. N -> Search(D)] : Trace(v, q, budget, order, s, d, N)
    BY FirstTrace
  <2> QED BY <2>1 DEF Trace
<1> HIDE DEF t
<1> DEFINE P == {k \in 0 .. N : Searched(q, budget, D, d, s, v[k], order, k)}
<1>2. 0 \in P
  <2>1. v[0].s = s /\ v[0].done = FALSE /\ Later(s, s) /\ 1 .. 0 = {} /\ 0 \in 0 .. N
    BY <1>1 DEF Later
  <2> QED BY <2>1 DEF Searched
<1>3. ASSUME NEW k \in 1 .. N, k - 1 \in P PROVE k \in P
  <2>1. k - 1 \in 0 .. N /\ k \in 0 .. N /\ v[k - 1] \in Search(D)
    BY <1>1
  <2>2. Searched(q, budget, D, d, s, Offered(q, budget, d, v[k - 1], order[k]), order, k)
    BY <1>3, <2>1, OfferedSearches
  <2> QED BY <1>1, <2>1, <2>2
<1>4. N \in P
  <2> HIDE DEF P
  <2>1. \A k \in 0 .. N : k \in P
    BY <1>2, <1>3, StepByStep
  <2> QED BY <2>1
<1>5. Searched(q, budget, D, d, s, v[N], order, N) /\ v[N] \in Search(D)
  BY <1>1, <1>4
<1> HIDE DEF P
<1>6. t \in Picks(D) /\ Later(s, t) /\ v[N].done \in BOOLEAN
  BY <1>1, <1>5 DEF Searched, Search
<1>7. CASE v[N].done
  <2>1. PICK r \in D : Adds(q, budget, D, s, t, r) /\ d \in q.clauses[r].dims
    BY <1>1, <1>5, <1>7 DEF Searched
  <2>2. r \in Chosen(t)
    BY <2>1 DEF Adds
  <2> QED BY <1>6, <2>1, <2>2 DEF t
<1>8. CASE ~v[N].done
  <2>1. Chosen(t) = Chosen(s)
    BY <1>1, <1>5, <1>8 DEF Searched
  <2>2. \/ Full(q, s)
        \/ \E r \in Chosen(t) : d \in q.clauses[r].dims
        \/ Outspent(q, d, t, order, N)
    BY <1>1, <1>5, <1>8, <2>1 DEF Searched, Outspent
  <2> QED BY <1>6, <2>1, <2>2 DEF t
<1> QED BY <1>6, <1>7, <1>8

\* the fold over the dimensions
ServedFirst(q, budget, order, dorder) ==
  FoldLeft(LAMBDA s, d : FirstOf(q, budget, order, s, d), <<>>, dorder)

\* the selections on the way, one for each dimension
Serves(v, q, budget, order, dorder, M) ==
  /\ v[0] = <<>> /\ v[M] = ServedFirst(q, budget, order, dorder)
  /\ \A k \in 1 .. M : v[k] = FirstOf(q, budget, order, v[k - 1], dorder[k])

\* The dimensions are served one after the other.
LEMMA ServedTrace ==
  ASSUME NEW q, NEW budget, NEW D, NEW N \in Nat,
         NEW order, DOMAIN order = 1 .. N, \A k \in 1 .. N : order[k] \in D,
         NEW M \in Nat, NEW dorder, DOMAIN dorder = 1 .. M
  PROVE  \E v \in [0 .. M -> Picks(D)] : Serves(v, q, budget, order, dorder, M)
<1> DEFINE V == Picks(D)
           base == <<>>
           step(k, s) == FirstOf(q, budget, order, s, dorder[k])
           F(f) == f = [s \in SUBSET (1 .. M) |->
                          IF s = {} THEN base ELSE step(Max(s), f[s \ {Max(s)}])]
           g == CHOOSE f : F(f)
           w == [k \in 1 .. M |-> [s \in V |-> step(k, s)]]
<1>1. ServedFirst(q, budget, order, dorder) = g[1 .. M]
  BY DEF ServedFirst, FoldLeft, MapThenFoldSet
<1>2. \A k \in 1 .. M : \A s \in V : step(k, s) \in V
  BY FirstServes
<1>3. base \in V
  BY NothingSelected
<1> HIDE DEF step, V, base
<1>4. w \in [1 .. M -> [V -> V]]
  BY <1>2
<1>5. F(g)
  <2>1. PICK f \in [SUBSET (1 .. M) -> V] : IsFold(w, base, M, f)
    <3> HIDE DEF w
    <3> QED BY <1>3, <1>4, FoldExists
  <2>2. ASSUME NEW s \in SUBSET (1 .. M)
        PROVE  f[s] = IF s = {} THEN base ELSE step(Max(s), f[s \ {Max(s)}])
    <3>1. s # {} => Max(s) \in 1 .. M
      BY MaxIn
    <3>2. s \ {Max(s)} \in SUBSET (1 .. M)
      OBVIOUS
    <3> QED BY <2>1, <3>1, <3>2 DEF IsFold
  <2>3. f = [s \in SUBSET (1 .. M) |-> f[s]]
    OBVIOUS
  <2>4. F(f)
    BY <2>2, <2>3
  <2> HIDE DEF F
  <2> QED BY <2>4
<1>6. \A s \in SUBSET (1 .. M) : g[s] = IF s = {} THEN base ELSE step(Max(s), g[s \ {Max(s)}])
  BY <1>5
<1> HIDE DEF g, F
<1>7. ASSUME NEW s \in SUBSET (1 .. M), s # {}, g[s \ {Max(s)}] \in V
      PROVE  g[s] = w[Max(s)][g[s \ {Max(s)}]]
  <2>1. Max(s) \in 1 .. M
    BY <1>7, MaxIn
  <2> QED BY <1>6, <1>7, <2>1
<1>8. g[{}] = base
  BY <1>6
<1>9. PICK v \in [0 .. M -> V] : Steps(v, g, w, base, M)
  <2>1. Folds(g, V, w, base, M)
    BY <1>7, <1>8 DEF Folds
  <2> HIDE DEF w
  <2> QED BY <1>3, <1>4, <2>1, FoldSteps
<1>10. ASSUME NEW k \in 1 .. M PROVE v[k] = step(k, v[k - 1])
  <2>1. k - 1 \in 0 .. M
    OBVIOUS
  <2> QED BY <1>9, <2>1 DEF Steps
<1> QED BY <1>1, <1>9, <1>10 DEF step, V, base, Steps, Serves

\* After some dimensions: the budget is kept, no more clauses are chosen than
\* dimensions were served, and none of these goes without a clause for want
\* of care.
ServedWell(q, budget, D, s, order, n, dorder, k) ==
  /\ s \in Picks(D)
  /\ TokensIn(q, Chosen(s)) <= budget
  /\ Cardinality(Chosen(s)) <= k
  /\ k <= q.policy.results =>
       \A i \in 1 .. k :
         \/ \E r \in Chosen(s) : dorder[i] \in q.clauses[r].dims
         \/ Outspent(q, dorder[i], s, order, n)

\* What was too large stays too large.
LEMMA OutspentStays ==
  ASSUME NEW q, NEW d, NEW s, NEW t, NEW order, NEW n, Later(s, t), Outspent(q, d, s, order, n)
  PROVE  Outspent(q, d, t, order, n)
BY DEF Later, Outspent

\* Serving one dimension more keeps the budget and leaves none out for want of care.
LEMMA OneMoreServed ==
  ASSUME NEW q, NEW budget \in Nat, NEW D, Selectable(q, D), NEW N \in Nat,
         NEW order, DOMAIN order = 1 .. N, \A k \in 1 .. N : order[k] \in D,
         NEW M \in Nat, NEW dorder, NEW k \in 1 .. M, NEW s,
         ServedWell(q, budget, D, s, order, N, dorder, k - 1)
  PROVE  ServedWell(q, budget, D, FirstOf(q, budget, order, s, dorder[k]), order, N, dorder, k)
<1> DEFINE d == dorder[k]
           t == FirstOf(q, budget, order, s, d)
<1>1. s \in Picks(D) /\ k - 1 \in Nat /\ 1 .. k = (1 .. k - 1) \cup {k}
  BY DEF ServedWell
<1>2. /\ t \in Picks(D) /\ Later(s, t)
      /\ Chosen(t) = Chosen(s) \/ \E r \in D : Adds(q, budget, D, s, t, r)
      /\ \/ Full(q, s)
         \/ \E r \in Chosen(t) : d \in q.clauses[r].dims
         \/ Outspent(q, d, t, order, N)
  BY <1>1, FirstServes
<1> HIDE DEF t
<1>3. Chosen(s) \subseteq D /\ IsFiniteSet(Chosen(s)) /\ Cardinality(Chosen(s)) \in Nat
  BY <1>1, SelectionShape, FS_Subset, FS_CardinalityType DEF Selectable
<1>4. TokensIn(q, Chosen(t)) <= budget /\ Cardinality(Chosen(t)) <= k
  <2>1. CASE Chosen(t) = Chosen(s)
    BY <1>1, <1>3, <2>1 DEF ServedWell
  <2>2. CASE \E r \in D : Adds(q, budget, D, s, t, r)
    <3>1. PICK r \in D : Adds(q, budget, D, s, t, r)
      BY <2>2
    <3>2. TokensIn(q, Chosen(t)) <= budget
      BY <1>1, <3>1, AddsOne
    <3>3. Cardinality(Chosen(t)) = Cardinality(Chosen(s)) + 1
      BY <1>1, <3>1, AddsCount
    <3> QED BY <1>1, <1>3, <3>2, <3>3 DEF ServedWell
  <2> QED BY <1>2, <2>1, <2>2
<1>5. ASSUME k <= q.policy.results, NEW i \in 1 .. k
      PROVE  \/ \E r \in Chosen(t) : dorder[i] \in q.clauses[r].dims
             \/ Outspent(q, dorder[i], t, order, N)
  <2>1. k - 1 < q.policy.results /\ k - 1 <= q.policy.results
    BY <1>5 DEF Selectable
  <2>2. CASE i = k
    <3>1. ~Full(q, s)
      BY <1>1, <1>3, <2>1 DEF Full, ServedWell, Selectable
    <3> QED BY <1>2, <2>2, <3>1
  <2>3. CASE i # k
    <3>1. i \in 1 .. k - 1
      BY <1>1, <2>3
    <3>2. \/ \E r \in Chosen(s) : dorder[i] \in q.clauses[r].dims
          \/ Outspent(q, dorder[i], s, order, N)
      BY <2>1, <3>1 DEF ServedWell
    <3>3. Chosen(s) \subseteq Chosen(t)
      BY <1>2, LaterChosen
    <3> QED BY <1>2, <3>2, <3>3, OutspentStays
  <2> QED BY <2>2, <2>3
<1> QED BY <1>2, <1>4, <1>5 DEF ServedWell, t

\* After all the dimensions the budget is kept and none was left out.
LEMMA ServedFirstWell ==
  ASSUME NEW q, NEW budget \in Nat, NEW D, Selectable(q, D), NEW N \in Nat,
         NEW order, DOMAIN order = 1 .. N, \A k \in 1 .. N : order[k] \in D,
         NEW M \in Nat, NEW dorder, DOMAIN dorder = 1 .. M
  PROVE  ServedWell(q, budget, D, ServedFirst(q, budget, order, dorder), order, N, dorder, M)
<1>1. PICK v \in [0 .. M -> Picks(D)] : Serves(v, q, budget, order, dorder, M)
  BY ServedTrace
<1> DEFINE P == {k \in 0 .. M : ServedWell(q, budget, D, v[k], order, N, dorder, k)}
<1>2. 0 \in P
  <2>1. v[0] = <<>> /\ 0 \in 0 .. M /\ 1 .. 0 = {}
    BY <1>1 DEF Serves
  <2>2. <<>> \in Picks(D) /\ Chosen(<<>>) = {} /\ TokensIn(q, {}) = 0 /\ Cardinality({}) = 0
    BY NothingSelected, TokensOfNone, FS_EmptySet
  <2> QED BY <2>1, <2>2 DEF ServedWell
<1>3. ASSUME NEW k \in 1 .. M, k - 1 \in P PROVE k \in P
  <2>1. ServedWell(q, budget, D, v[k - 1], order, N, dorder, k - 1)
    BY <1>3
  <2>2. v[k] = FirstOf(q, budget, order, v[k - 1], dorder[k]) /\ k \in 0 .. M
    BY <1>1 DEF Serves
  <2> HIDE DEF P
  <2>3. ServedWell(q, budget, D, FirstOf(q, budget, order, v[k - 1], dorder[k]), order, N, dorder, k)
    BY <2>1, OneMoreServed
  <2> QED BY <2>2, <2>3 DEF P
<1>4. M \in P
  <2> HIDE DEF P
  <2>1. \A k \in 0 .. M : k \in P
    BY <1>2, <1>3, StepByStep
  <2> QED BY <2>1
<1> QED BY <1>1, <1>4 DEF Serves

\* After all clauses: the budget is kept, and nothing of what was selected is
\* given up.
LEMMA FilledWell ==
  ASSUME NEW q, NEW budget \in Nat, NEW D, Selectable(q, D), NEW N \in Nat,
         NEW order, DOMAIN order = 1 .. N, \A k \in 1 .. N : order[k] \in D,
         NEW s \in Picks(D), TokensIn(q, Chosen(s)) <= budget
  PROVE  /\ Filled(q, budget, s, order) \in Picks(D)
         /\ TokensIn(q, Chosen(Filled(q, budget, s, order))) <= budget
         /\ Later(s, Filled(q, budget, s, order))
<1>1. PICK v \in [0 .. N -> Picks(D)] : Fills(v, q, budget, s, order, N)
  BY FilledTrace
<1> DEFINE P == {k \in 0 .. N : TokensIn(q, Chosen(v[k])) <= budget /\ Later(s, v[k])}
<1>2. 0 \in P
  BY <1>1 DEF Fills, Later
<1>3. ASSUME NEW k \in 1 .. N, k - 1 \in P PROVE k \in P
  <2> DEFINE a == v[k - 1]
             b == v[k]
  <2>1. a \in Picks(D) /\ order[k] \in D /\ k \in 0 .. N /\ TokensIn(q, Chosen(a)) <= budget /\ Later(s, a)
    BY <1>3
  <2>2. b = Tried(q, budget, a, order[k])
    BY <1>1 DEF Fills
  <2> HIDE DEF P, a, b
  <2>3. /\ Later(a, b)
        /\ Chosen(b) = Chosen(a) \/ Adds(q, budget, D, a, b, order[k])
    <3> DEFINE c == Tried(q, budget, a, order[k])
    <3>1. /\ Later(a, c)
          /\ \/ Chosen(c) = Chosen(a)
             \/ /\ Chosen(c) = Chosen(a) \cup {order[k]}
                /\ order[k] \notin Chosen(a) /\ ~Full(q, a) /\ HasRoom(q, budget, a, order[k])
      BY <2>1, TriedShape
    <3> HIDE DEF c
    <3>2. b = c
      BY <2>2 DEF c
    <3> QED BY <2>1, <3>1, <3>2 DEF Adds
  <2>4. TokensIn(q, Chosen(b)) <= budget
    BY <2>1, <2>3, AddsOne
  <2>5. Later(s, b)
    BY <2>1, <2>3, LaterStill
  <2> QED BY <2>1, <2>4, <2>5 DEF P, b
<1>4. N \in P
  <2> HIDE DEF P
  <2>1. \A k \in 0 .. N : k \in P
    BY <1>2, <1>3, StepByStep
  <2> QED BY <2>1
<1>5. v[N] = Filled(q, budget, s, order) /\ v[N] \in Picks(D)
  BY <1>1 DEF Fills
<1> QED BY <1>4, <1>5

\* dimensions in their order
DimensionRank(dims) == Positions([d \in dims |-> <<d>>])

\* The dimensions are numbered in their own order.
LEMMA DimensionsInOrder ==
  ASSUME NEW dims \in SUBSET Nat, IsFiniteSet(dims)
  PROVE  Numbers(DimensionRank(dims)) /\ DOMAIN DimensionRank(dims) = dims
<1> DEFINE key == [d \in dims |-> <<d>>]
<1>1. DOMAIN key = dims /\ IsFiniteSet(DOMAIN key)
  OBVIOUS
<1>2. ASSUME NEW x \in dims PROVE IsKey(key[x], 1) /\ key[x][1] = x
  <2>1. key[x] = <<x>> /\ x \in Int
    OBVIOUS
  <2> QED BY <2>1 DEF IsKey
<1>3. 1 \in Nat /\ 1 \in 1 .. 1
  OBVIOUS
<1> HIDE DEF key
<1>4. Keyed(key)
  <2>1. \A x, y \in dims : x # y => \E i \in 1 .. 1 : key[x][i] # key[y][i]
    BY <1>2, <1>3
  <2>2. \E n \in Nat : /\ \A x \in dims : IsKey(key[x], n)
                      /\ \A x, y \in dims : x # y => \E i \in 1 .. n : key[x][i] # key[y][i]
    BY <1>2, <1>3, <2>1, Zenon
  <2> QED BY <1>1, <2>2 DEF Keyed
<1> QED BY <1>1, <1>4, PositionsNumber DEF DimensionRank, key

\* The evidence of a unit, made in one go: it keeps to the clauses of the
\* rank and to the budget, and leaves a dimension without a clause only if no
\* clause with it fits, or if there are more dimensions than results.
LEMMA ReplayedWell ==
  ASSUME NEW q, NEW budget \in Nat, NEW dims \in SUBSET Nat, IsFiniteSet(dims),
         NEW rank, Numbers(rank), Selectable(q, DOMAIN rank)
  PROVE  /\ Replayed(q, dims, budget, rank) \in Picks(DOMAIN rank)
         /\ TokensIn(q, Chosen(Replayed(q, dims, budget, rank))) <= budget
         /\ \A d \in dims :
              \/ \E r \in Chosen(Replayed(q, dims, budget, rank)) : d \in q.clauses[r].dims
              \/ Cardinality(dims) > q.policy.results
              \/ \A r \in DOMAIN rank :
                   d \in q.clauses[r].dims =>
                     /\ r \in DOMAIN Replayed(q, dims, budget, rank)
                     /\ Replayed(q, dims, budget, rank)[r] = "token_budget"
<1> DEFINE D == DOMAIN rank
           N == Cardinality(D)
           order == InOrder(rank)
           drank == DimensionRank(dims)
           dorder == InOrder(drank)
           M == Cardinality(dims)
           s == ServedFirst(q, budget, order, dorder)
           t == Filled(q, budget, s, order)
<1>1. Replayed(q, dims, budget, rank) = t
  BY DEF Replayed, ServedFirst, Filled, DimensionRank
<1>2. N \in Nat /\ DOMAIN order = 1 .. N /\ \A k \in 1 .. N : order[k] \in D
  BY OrderLists DEF Numbers
<1>3. \A r \in D : rank[r] \in 1 .. N /\ order[rank[r]] = r
  BY OrderLists DEF Numbers
<1>4. Numbers(drank) /\ DOMAIN drank = dims
  BY DimensionsInOrder
<1> HIDE DEF drank
<1>5. M \in Nat /\ DOMAIN dorder = 1 .. M
  BY <1>4, OrderLists DEF Numbers
<1>6. \A d \in dims : drank[d] \in 1 .. M /\ dorder[drank[d]] = d
  BY <1>4, OrderLists DEF Numbers
<1> HIDE DEF D, N, order, dorder, M, s, t
<1>7. Selectable(q, D)
  BY DEF D
<1>8. ServedWell(q, budget, D, s, order, N, dorder, M)
  BY <1>2, <1>5, <1>7, ServedFirstWell DEF s
<1>9. t \in Picks(D) /\ TokensIn(q, Chosen(t)) <= budget /\ Later(s, t)
  BY <1>2, <1>7, <1>8, FilledWell DEF ServedWell, t
<1>10. ASSUME NEW d \in dims, M <= q.policy.results
       PROVE  \/ \E r \in Chosen(t) : d \in q.clauses[r].dims
              \/ \A r \in D : d \in q.clauses[r].dims => r \in DOMAIN t /\ t[r] = "token_budget"
  <2>1. \/ \E r \in Chosen(s) : d \in q.clauses[r].dims
        \/ Outspent(q, d, s, order, N)
    BY <1>6, <1>8, <1>10 DEF ServedWell
  <2>2. Chosen(s) \subseteq Chosen(t)
    BY <1>9, LaterChosen
  <2>3. ASSUME Outspent(q, d, s, order, N), NEW r \in D, d \in q.clauses[r].dims
        PROVE  r \in DOMAIN t /\ t[r] = "token_budget"
    <3>1. Outspent(q, d, t, order, N)
      BY <1>9, <2>3, OutspentStays
    <3> QED BY <1>3, <2>3, <3>1 DEF Outspent
  <2> QED BY <2>1, <2>2, <2>3
<1>11. M <= q.policy.results \/ M > q.policy.results
  BY <1>5, <1>7 DEF Selectable
<1> QED BY <1>1, <1>9, <1>10, <1>11 DEF D, M

-----------------------------------------------------------------------------
(* What clauses are found by, and their ranks.                             *)

MatchWeight(q, S) == [m \in S |-> q.policy.weight[m[1]]]

\* The weight of some matches is the total of their weights.
LEMMA WeighedIsTotal ==
  ASSUME NEW q, NEW S
  PROVE  Weighed(q, S) = Total(MatchWeight(q, S), S)
<1> DEFINE F(f) == f = [s \in SUBSET S |->
                          IF s = {} THEN 0 ELSE q.policy.weight[Pick(s)[1]] + f[s \ {Pick(s)}]]
<1>1. Weighed(q, S) = (CHOOSE f : F(f))[S]
  BY DEF Weighed, MapThenSumSet, MapThenFoldSet, Pick
<1>2. ASSUME NEW s \in SUBSET S, s # {}
      PROVE  MatchWeight(q, S)[Pick(s)] = q.policy.weight[Pick(s)[1]]
  BY <1>2, PickIn DEF MatchWeight
<1>3. ASSUME NEW f
      PROVE  [s \in SUBSET S |->
                IF s = {} THEN 0 ELSE q.policy.weight[Pick(s)[1]] + f[s \ {Pick(s)}]]
             = [s \in SUBSET S |->
                  IF s = {} THEN 0 ELSE MatchWeight(q, S)[Pick(s)] + f[s \ {Pick(s)}]]
  BY <1>2
<1>4. \A f : F(f) <=> IsSum(MatchWeight(q, S), S, f)
  BY <1>3 DEF IsSum
<1>5. (CHOOSE f : F(f)) = (CHOOSE f : IsSum(MatchWeight(q, S), S, f))
  <2> HIDE DEF F
  <2> QED BY <1>4
<1> QED BY <1>1, <1>5 DEF Total

\* matches that have a weight
Weighable(S) == IsFiniteSet(S) /\ \A m \in S : m[1] \in Weighted

\* The weight of some matches is a number.
LEMMA WeighedTyped ==
  ASSUME NEW q, q.policy.weight \in [Weighted -> Nat], NEW S, Weighable(S)
  PROVE  Weighed(q, S) \in Nat
<1> DEFINE w == MatchWeight(q, S)
<1>1. w \in [S -> Nat] /\ S \in SUBSET S /\ IsFiniteSet(S)
  BY DEF MatchWeight, Weighable
<1> HIDE DEF w
<1>2. Total(w, S) \in Nat
  BY <1>1, TotalTyped
<1> QED BY <1>2, WeighedIsTotal DEF w

\* What has the same kind: as many as its names.
LEMMA NamedFinite ==
  ASSUME NEW S, IsFiniteSet(S), NEW what \in Weighted
  PROVE  Weighable({<<what, t>> : t \in S})
<1> DEFINE T == {<<what, t>> : t \in S}
           f == [t \in S |-> <<what, t>>]
<1>1. f \in Surjection(S, T)
  BY DEF Surjection
<1>2. IsFiniteSet(T)
  <2> HIDE DEF T, f
  <2> QED BY <1>1, FS_Surjection
<1>3. \A m \in T : m[1] = what
  OBVIOUS
<1> QED BY <1>2, <1>3 DEF Weighable

\* Two finite sets of weighted matches are one.
LEMMA WeighableUnion ==
  ASSUME NEW S, NEW T, Weighable(S), Weighable(T)
  PROVE  Weighable(S \cup T)
BY FS_Union DEF Weighable

\* A clause is found by facts of its own, tags, keywords or its number: what
\* it was found by has a weight.
LEMMA FormalWeighable ==
  ASSUME NEW q, NEW u, NEW r, IsClause(q.clauses[r])
  PROVE  Weighable(FormalMatches(q, u, r))
<1> DEFINE F == CanonicalFacts(q, u) \cap q.clauses[r].facts
           A == u.exact \cap q.clauses[r].tags
           B == {r} \cap u.requested
<1>1. IsFiniteSet(F) /\ \A m \in F : m[1] \in Weighted
  BY FS_Intersection DEF IsClause, Weighted
<1>2. IsFiniteSet(A) /\ IsFiniteSet(B)
  BY FS_Intersection, FS_Singleton DEF IsClause
<1> HIDE DEF A, B, F
<1>3. Weighable({<<"tag", t>> : t \in A}) /\ Weighable({<<"rule_id", x>> : x \in B})
  BY <1>2, NamedFinite DEF Weighted
<1>4. Weighable(F)
  BY <1>1 DEF Weighable
<1>5. Weighable((F \cup {<<"tag", t>> : t \in A}) \cup {<<"rule_id", x>> : x \in B})
  BY <1>3, <1>4, WeighableUnion
<1> QED BY <1>5 DEF FormalMatches, F, A, B

\* The matches of a clause can be weighed.
LEMMA MatchesWeighable ==
  ASSUME NEW q, NEW u, NEW r, IsClause(q.clauses[r]), NEW p \in {"formal_exact", "file_hint", "text_keyword"}
  PROVE  Weighable(Matches(q, u, r, p))
<1> DEFINE A == (u.hints \ u.exact) \cap q.clauses[r].tags
           B == u.words \cap q.clauses[r].keywords
<1>1. IsFiniteSet(A) /\ IsFiniteSet(B)
  BY FS_Intersection DEF IsClause
<1>2. Matches(q, u, r, "file_hint") = {<<"hint", t>> : t \in A}
  BY DEF Matches
<1>3. Matches(q, u, r, "text_keyword") = {<<"keyword", w>> : w \in B}
  BY DEF Matches
<1>4. Matches(q, u, r, "formal_exact") = FormalMatches(q, u, r)
  BY DEF Matches
<1> HIDE DEF A, B
<1>5. Weighable({<<"hint", t>> : t \in A}) /\ Weighable({<<"keyword", w>> : w \in B})
  BY <1>1, NamedFinite DEF Weighted
<1> QED BY <1>2, <1>3, <1>4, <1>5, FormalWeighable

\* What the AI tags match of a clause is finite.
LEMMA AIMatchesFinite ==
  ASSUME NEW q, NEW u, NEW r, IsClause(q.clauses[r])
  PROVE  IsFiniteSet(Matches(q, u, r, "ai_inferred"))
<1> DEFINE A == u.ai \cap q.clauses[r].tags
           T == {<<"ai", t>> : t \in A}
           f == [t \in A |-> <<"ai", t>>]
<1>1. IsFiniteSet(A)
  BY FS_Intersection DEF IsClause
<1>2. f \in Surjection(A, T)
  BY DEF Surjection
<1>3. Matches(q, u, r, "ai_inferred") = T
  BY DEF Matches
<1> HIDE DEF A, T, f
<1> QED BY <1>1, <1>2, <1>3, FS_Surjection

\* The exact matches of a clause can be weighed.
LEMMA ExactWeighable ==
  ASSUME NEW q, NEW u, NEW r, IsClause(q.clauses[r])
  PROVE  Weighable(ExactMatches(q, u, r))
<1> DEFINE M(p) == Matches(q, u, r, p)
<1>1. ExactMatches(q, u, r) = (M("formal_exact") \cup M("file_hint")) \cup M("text_keyword")
  BY DEF ExactMatches
<1>2. Weighable(M("formal_exact")) /\ Weighable(M("file_hint")) /\ Weighable(M("text_keyword"))
  BY MatchesWeighable
<1> HIDE DEF M
<1> QED BY <1>1, <1>2, WeighableUnion

\* A request whose parts have the types they are asked to have: the numbers
\* that scores are made of.
BonusOK(q, u, r) ==
  /\ Overlap(q, u, r) \in Nat /\ Unknown(q, r) \in 0 .. 1 /\ Bonus(q, u, r) \in Nat

\* The bonus of a clause is a number.
LEMMA BonusTyped ==
  ASSUME NEW q, q.policy.weight \in [Weighted -> Nat], NEW u, NEW r, IsClause(q.clauses[r])
  PROVE  BonusOK(q, u, r)
<1>1. IsFiniteSet(u.dims \cap q.clauses[r].dims)
  BY FS_Intersection DEF IsClause
<1>2. Overlap(q, u, r) \in Nat
  BY <1>1, FS_CardinalityType DEF Overlap
<1>3. Unknown(q, r) \in 0 .. 1
  BY DEF Unknown
<1>4. q.policy.weight["overlap"] \in Nat /\ q.policy.weight["applicable"] \in Nat
  BY DEF Weighted
<1> DEFINE a == Overlap(q, u, r)
           b == q.policy.weight["overlap"]
           c == 1 - Unknown(q, r)
           e == q.policy.weight["applicable"]
<1>5. a \in Nat /\ b \in Nat /\ c \in Nat /\ e \in Nat
  BY <1>2, <1>3, <1>4
<1>6. Bonus(q, u, r) = a * b + c * e
  BY DEF Bonus
<1> HIDE DEF a, b, c, e
<1>7. a * b + c * e \in Nat
  BY <1>5
<1> QED BY <1>2, <1>3, <1>6, <1>7 DEF BonusOK

-----------------------------------------------------------------------------
(* Scores and ranks are numbers.                                           *)

\* A quotient and a remainder are numbers.
LEMMA DivTyped ==
  ASSUME NEW a \in Nat, NEW b \in Nat \ {0}
  PROVE  a \div b \in Nat /\ a % b \in Nat
OBVIOUS

\* A product is a number, and none of factors that are not.
LEMMA TimesTyped ==
  ASSUME NEW a \in Nat, NEW b \in Nat
  PROVE  a * b \in Nat /\ (a # 0 /\ b # 0 => a * b # 0)
OBVIOUS

\* A rounded quotient is a number.
LEMMA RoundedTyped ==
  ASSUME NEW num \in Nat, NEW den \in Nat \ {0}
  PROVE  Rounded(num, den) \in Nat
<1>1. 2 * num + den \in Nat /\ 2 * den \in Nat \ {0}
  OBVIOUS
<1> DEFINE a == 2 * num + den
           b == 2 * den
<1>2. a \in Nat /\ b \in Nat \ {0}
  BY <1>1
<1>3. Rounded(num, den) = a \div b
  BY DEF Rounded
<1> HIDE DEF a, b
<1> QED BY <1>2, <1>3, DivTyped

\* The sum of two reciprocals, scaled, is a number.
LEMMA ReciprocalsTyped ==
  ASSUME NEW x \in Nat \ {0}, NEW y \in Nat \ {0}
  PROVE  Reciprocals(x, y) \in Nat
<1> DEFINE a == Scale % x
           b == Scale % y
           c == a * y
           d == b * x
           e == x * y
           f == Scale \div x
           g == Scale \div y
           h == Rounded(c + d, e)
<1>1. Scale \in Nat
  BY DEF Scale
<1>2. a \in Nat /\ b \in Nat /\ f \in Nat /\ g \in Nat
  BY <1>1, DivTyped
<1>3. Reciprocals(x, y) = f + g + h
  BY DEF Reciprocals
<1> HIDE DEF a, b, f, g
<1>4. c \in Nat /\ d \in Nat /\ e \in Nat \ {0}
  BY <1>2, TimesTyped
<1> HIDE DEF c, d, e
<1>5. h \in Nat
  BY <1>4, RoundedTyped
<1> HIDE DEF h
<1> QED BY <1>2, <1>3, <1>5

\* A position is a number from 1.
LEMMA PositionsTyped ==
  ASSUME NEW key, IsFiniteSet(DOMAIN key)
  PROVE  /\ DOMAIN Positions(key) = DOMAIN key
         /\ \A x \in DOMAIN key : Positions(key)[x] \in Nat \ {0}
<1>1. ASSUME NEW x \in DOMAIN key PROVE 1 + Cardinality({y \in DOMAIN key : Precedes(key[y], key[x])}) \in Nat \ {0}
  <2> DEFINE S == {y \in DOMAIN key : Precedes(key[y], key[x])}
  <2>1. IsFiniteSet(S)
    <3>1. S \subseteq DOMAIN key
      OBVIOUS
    <3> HIDE DEF S
    <3> QED BY <3>1, FS_Subset
  <2>2. Cardinality(S) \in Nat
    <3> HIDE DEF S
    <3> QED BY <2>1, FS_CardinalityType
  <2> HIDE DEF S
  <2>3. 1 + Cardinality(S) \in Nat \ {0}
    BY <2>2
  <2> QED BY <2>3 DEF S
<1> QED BY <1>1 DEF Positions

\* a rank, perhaps cut
PlacedIn(rank, S) == DOMAIN rank \subseteq S /\ \A x \in DOMAIN rank : rank[x] \in Nat \ {0}

\* What is left of a ranking after a cut is in it still.
LEMMA CutTyped ==
  ASSUME NEW key, IsFiniteSet(DOMAIN key), NEW limit
  PROVE  PlacedIn(Cut(Positions(key), limit), DOMAIN key)
<1>1. /\ DOMAIN Cut(Positions(key), limit) \subseteq DOMAIN key
      /\ \A x \in DOMAIN Cut(Positions(key), limit) : Cut(Positions(key), limit)[x] = Positions(key)[x]
  BY PositionsTyped DEF Cut
<1> QED BY <1>1, PositionsTyped DEF PlacedIn

\* the parts of a request that ranks are made of
Rankable(q) ==
  /\ IsFiniteSet(DOMAIN q.clauses) /\ DOMAIN q.clauses \subseteq Nat
  /\ \A r \in DOMAIN q.clauses : IsClause(q.clauses[r])
  /\ q.policy.weight \in [Weighted -> Nat]
  /\ q.policy.k \in Nat \ {0}
  /\ \A p \in Pool : q.policy.share[p] \in Nat \ {0}

\* What was asked well can be ranked.
LEMMA AskedIsRankable ==
  ASSUME NEW q, WellAsked(q)
  PROVE  Rankable(q)
BY DEF WellAsked, Rankable

\* The clauses that apply are finitely many, and clauses.
LEMMA ApplicableFinite ==
  ASSUME NEW q, Rankable(q)
  PROVE  /\ Applicable(q) \subseteq DOMAIN q.clauses /\ IsFiniteSet(Applicable(q))
         /\ \A r \in Applicable(q) : r \in Nat /\ IsClause(q.clauses[r]) /\ q.clauses[r].authority \in Nat
<1>1. Applicable(q) \subseteq DOMAIN q.clauses
  BY DEF Applicable
<1> QED BY <1>1, FS_Subset DEF Rankable, IsClause

\* The exact ranking places clauses that apply.
LEMMA ExactPlaced ==
  ASSUME NEW q, Rankable(q), NEW u
  PROVE  PlacedIn(ExactRank(q, u), Applicable(q))
<1> DEFINE hits == {r \in Applicable(q) : ExactMatches(q, u, r) # {}}
           key == [r \in hits |->
                     <<-ExactScore(q, u, r), -Cardinality(ExactMatches(q, u, r)), -q.clauses[r].authority, r>>]
<1>1. hits \subseteq Applicable(q) /\ IsFiniteSet(hits)
  BY ApplicableFinite, FS_Subset
<1>2. DOMAIN key = hits
  OBVIOUS
<1>3. ExactRank(q, u) = Cut(Positions(key), q.policy.limit["exact"])
  BY DEF ExactRank
<1> HIDE DEF hits, key
<1> QED BY <1>1, <1>2, <1>3, CutTyped DEF PlacedIn

\* The ranking by vectors places clauses that apply, if there is one.
LEMMA NearestPlaced ==
  ASSUME NEW q, Rankable(q), NEW u, NEW outcome
  PROVE  PlacedIn(NearestRank(q, u, outcome), Applicable(q))
<1> DEFINE hits == Near(q, u, "control", outcome)
           key == [r \in hits |-> <<-u.near["control"][r], -Overlap(q, u, r), -q.clauses[r].authority, r>>]
<1>1. hits \subseteq Applicable(q)
  BY DEF Near
<1>2. IsFiniteSet(hits)
  <2> HIDE DEF hits
  <2> QED BY <1>1, ApplicableFinite, FS_Subset
<1>3. DOMAIN key = hits
  OBVIOUS
<1>4. NearestRank(q, u, outcome) = Cut(Positions(key), q.policy.limit["vector"])
  BY DEF NearestRank
<1> HIDE DEF hits, key
<1> QED BY <1>1, <1>2, <1>3, <1>4, CutTyped DEF PlacedIn

\* The exact score of a clause is a number.
LEMMA ExactScoreTyped ==
  ASSUME NEW q, Rankable(q), NEW u, NEW r \in Applicable(q)
  PROVE  ExactScore(q, u, r) \in Nat
<1>1. IsClause(q.clauses[r]) /\ q.policy.weight \in [Weighted -> Nat]
  BY ApplicableFinite DEF Rankable
<1>2. Bonus(q, u, r) \in Nat
  BY <1>1, BonusTyped DEF BonusOK
<1>3. Weighed(q, ExactMatches(q, u, r)) \in Nat
  BY <1>1, ExactWeighable, WeighedTyped
<1> QED BY <1>2, <1>3 DEF ExactScore

\* The control evidence ranks the clauses that apply, each once.
LEMMA ControlNumbers ==
  ASSUME NEW q, Rankable(q), NEW u, IsUnit(u, DOMAIN q.clauses), NEW outcome
  PROVE  Numbers(ControlRank(q, u, outcome)) /\ DOMAIN ControlRank(q, u, outcome) \subseteq Applicable(q)
<1> DEFINE exact == ExactRank(q, u)
           near == NearestRank(q, u, outcome)
           score(r) ==
             CASE r \notin DOMAIN exact -> Rounded(Scale, q.policy.k + near[r])
               [] r \notin DOMAIN near -> Rounded(Scale, q.policy.k + exact[r])
               [] OTHER -> Reciprocals(q.policy.k + exact[r], q.policy.k + near[r])
           R == DOMAIN exact \cup DOMAIN near
           key == [r \in R |->
                     <<-score(r), IF r \in DOMAIN exact THEN 0 ELSE 1,
                       IF r \in DOMAIN exact THEN -ExactScore(q, u, r) ELSE 0,
                       IF r \in DOMAIN near THEN -u.near["control"][r] ELSE 100,
                       Unknown(q, r), -q.clauses[r].authority, r>>]
<1>1. ControlRank(q, u, outcome) = Positions(key)
  BY DEF ControlRank
<1>2. PlacedIn(exact, Applicable(q)) /\ PlacedIn(near, Applicable(q))
  BY ExactPlaced, NearestPlaced
<1> HIDE DEF exact, near
<1>3. R \subseteq Applicable(q)
  BY <1>2 DEF PlacedIn
<1>4. ASSUME NEW r \in R PROVE score(r) \in Int
  <2>1. Scale \in Nat /\ q.policy.k \in Nat \ {0}
    BY DEF Scale, Rankable
  <2>2. CASE r \notin DOMAIN exact
    <3>1. q.policy.k + near[r] \in Nat \ {0}
      BY <1>2, <2>1, <2>2 DEF PlacedIn
    <3> QED BY <2>1, <2>2, <3>1, RoundedTyped
  <2>3. CASE r \in DOMAIN exact /\ r \notin DOMAIN near
    <3>1. q.policy.k + exact[r] \in Nat \ {0}
      BY <1>2, <2>1, <2>3 DEF PlacedIn
    <3> QED BY <2>1, <2>3, <3>1, RoundedTyped
  <2>4. CASE r \in DOMAIN exact /\ r \in DOMAIN near
    <3>1. q.policy.k + near[r] \in Nat \ {0} /\ q.policy.k + exact[r] \in Nat \ {0}
      BY <1>2, <2>1, <2>4 DEF PlacedIn
    <3> QED BY <2>4, <3>1, ReciprocalsTyped
  <2> QED BY <2>2, <2>3, <2>4
<1> HIDE DEF score
<1>5. ASSUME NEW r \in R PROVE IsKey(key[r], 7) /\ key[r][7] = r
  <2> DEFINE a == IF r \in DOMAIN exact THEN -ExactScore(q, u, r) ELSE 0
             b == IF r \in DOMAIN near THEN -u.near["control"][r] ELSE 100
             c == IF r \in DOMAIN exact THEN 0 ELSE 1
  <2>1. r \in Applicable(q) /\ r \in Nat /\ q.clauses[r].authority \in Nat
    BY <1>3, ApplicableFinite
  <2>2. Unknown(q, r) \in Int
    BY DEF Unknown
  <2>3. a \in Int
    BY <2>1, ExactScoreTyped
  <2>4. b \in Int
    <3>1. r \in DOMAIN q.clauses
      BY <2>1, ApplicableFinite
    <3> QED BY <3>1 DEF IsUnit
  <2>5. -score(r) \in Int /\ c \in Int /\ -q.clauses[r].authority \in Int /\ r \in Int
    BY <1>4, <2>1
  <2>6. key[r] = <<-score(r), c, a, b, Unknown(q, r), -q.clauses[r].authority, r>>
    OBVIOUS
  <2> HIDE DEF key, a, b, c
  <2> QED BY <2>2, <2>3, <2>4, <2>5, <2>6 DEF IsKey
<1>6. DOMAIN key = R /\ IsFiniteSet(R)
  BY <1>3, ApplicableFinite, FS_Subset
<1> HIDE DEF key, R
<1>7. Keyed(key)
  <2>1. 7 \in Nat /\ 7 \in 1 .. 7
    OBVIOUS
  <2>2. \A x, y \in R : x # y => \E i \in 1 .. 7 : key[x][i] # key[y][i]
    BY <1>5, <2>1
  <2>3. \E n \in Nat : /\ \A x \in R : IsKey(key[x], n)
                      /\ \A x, y \in R : x # y => \E i \in 1 .. n : key[x][i] # key[y][i]
    BY <1>5, <2>1, <2>2, Zenon
  <2> QED BY <1>6, <2>3 DEF Keyed
<1> QED BY <1>1, <1>3, <1>6, <1>7, PositionsNumber

-----------------------------------------------------------------------------
(* What the pools found.                                                   *)

\* what a pool found
PoolFits(q, hits) ==
  /\ DOMAIN hits \subseteq Applicable(q)
  /\ \A r \in DOMAIN hits : hits[r].rank \in Nat \ {0} /\ hits[r].score \in Int

HitsFit(q, hits) == \A p \in Pool : PoolFits(q, hits[p])

\* A pool ranked by scores is a pool of clauses that apply.
LEMMA RankedFits ==
  ASSUME NEW q, Rankable(q), NEW u, NEW pool, NEW score, NEW matches,
         DOMAIN score \subseteq Applicable(q), \A r \in DOMAIN score : score[r] \in Int
  PROVE  PoolFits(q, Ranked(q, u, pool, score, matches))
<1> DEFINE key == [r \in DOMAIN score |->
                     <<-score[r], -Cardinality(matches[r]), -Overlap(q, u, r), Unknown(q, r),
                       -q.clauses[r].authority, r>>]
           rank == Cut(Positions(key), q.policy.limit[pool])
           made == [r \in DOMAIN rank |-> [rank |-> rank[r], score |-> score[r], matches |-> matches[r]]]
<1>1. Ranked(q, u, pool, score, matches) = made
  BY DEF Ranked
<1>2. DOMAIN key = DOMAIN score /\ IsFiniteSet(DOMAIN score)
  BY ApplicableFinite, FS_Subset
<1>3. PlacedIn(rank, DOMAIN score)
  <2> HIDE DEF key
  <2> QED BY <1>2, CutTyped
<1> HIDE DEF rank
<1>4. DOMAIN made = DOMAIN rank /\ \A r \in DOMAIN rank : made[r].rank = rank[r] /\ made[r].score = score[r]
  OBVIOUS
<1> HIDE DEF made
<1> QED BY <1>1, <1>3, <1>4 DEF PoolFits, PlacedIn

\* A structured pool holds clauses that apply.
LEMMA StructuredFits ==
  ASSUME NEW q, Rankable(q), NEW u, NEW pool \in Pool \ {"semantic_vector"}
  PROVE  PoolFits(q, StructuredPool(q, u, pool))
<1> DEFINE hits == {r \in Applicable(q) : Matches(q, u, r, pool) # {}}
           matches == [r \in hits |-> Matches(q, u, r, pool)]
           score == [r \in hits |->
                       IF pool = "ai_inferred" THEN Cardinality(matches[r])
                       ELSE Weighed(q, matches[r]) + Bonus(q, u, r)]
<1>1. StructuredPool(q, u, pool) = Ranked(q, u, pool, score, matches)
  BY DEF StructuredPool
<1>2. DOMAIN score = hits /\ hits \subseteq Applicable(q)
  OBVIOUS
<1>3. ASSUME NEW r \in hits PROVE score[r] \in Int
  <2>1. IsClause(q.clauses[r]) /\ q.policy.weight \in [Weighted -> Nat] /\ matches[r] = Matches(q, u, r, pool)
    BY ApplicableFinite DEF Rankable
  <2>2. CASE pool = "ai_inferred"
    <3>1. IsFiniteSet(matches[r])
      BY <2>1, <2>2, AIMatchesFinite
    <3>2. score[r] = Cardinality(matches[r])
      BY <2>2
    <3> HIDE DEF matches, score
    <3> QED BY <3>1, <3>2, FS_CardinalityType
  <2>3. CASE pool # "ai_inferred"
    <3>1. Weighable(matches[r])
      BY <2>1, <2>3, MatchesWeighable DEF Pool
    <3>2. score[r] = Weighed(q, matches[r]) + Bonus(q, u, r)
      BY <2>3
    <3>3. Bonus(q, u, r) \in Nat
      BY <2>1, BonusTyped DEF BonusOK
    <3> HIDE DEF matches, score
    <3>4. Weighed(q, matches[r]) \in Nat
      BY <2>1, <3>1, WeighedTyped
    <3> QED BY <3>2, <3>3, <3>4
  <2> QED BY <2>2, <2>3
<1> HIDE DEF score, matches, hits
<1> QED BY <1>1, <1>2, <1>3, RankedFits

\* The pool of the vectors holds clauses that apply.
LEMMA VectorFits ==
  ASSUME NEW q, Rankable(q), NEW u, IsUnit(u, DOMAIN q.clauses), NEW outcome
  PROVE  PoolFits(q, VectorPool(q, u, outcome))
<1> DEFINE hits == Near(q, u, "shadow", outcome)
           score == [r \in hits |-> u.near["shadow"][r]]
           matches == [r \in hits |-> {<<"vector", "model">>}]
<1>1. VectorPool(q, u, outcome) = Ranked(q, u, "semantic_vector", score, matches)
  BY DEF VectorPool
<1>2. hits \subseteq Applicable(q)
  BY DEF Near
<1>3. \A r \in Applicable(q) : u.near["shadow"][r] \in Int
  BY ApplicableFinite DEF IsUnit
<1> HIDE DEF hits, matches
<1>4. DOMAIN score = hits /\ \A r \in hits : score[r] \in Int
  BY <1>2, <1>3
<1> HIDE DEF score
<1> QED BY <1>1, <1>2, <1>4, RankedFits

\* Every pool holds clauses that apply, with their places and scores.
LEMMA PoolsFit ==
  ASSUME NEW q, Rankable(q), NEW u, IsUnit(u, DOMAIN q.clauses), NEW outcome
  PROVE  HitsFit(q, PoolsOf(q, u, outcome))
<1> SUFFICES ASSUME NEW p \in Pool PROVE PoolFits(q, PoolsOf(q, u, outcome)[p])
  BY DEF HitsFit
<1>1. PoolsOf(q, u, outcome)[p] = IF p = "semantic_vector" THEN VectorPool(q, u, outcome) ELSE StructuredPool(q, u, p)
  BY DEF PoolsOf
<1> QED BY <1>1, StructuredFits, VectorFits

\* Pools that found nothing fit.
LEMMA NoHitsFit == ASSUME NEW q PROVE HitsFit(q, NoHits)
<1>1. \A p \in Pool : NoHits[p] = <<>>
  BY DEF NoHits
<1> QED BY <1>1 DEF HitsFit, PoolFits

\* the pools that count for a clause
Counting(hits, a, r) == {p \in Active(a) : r \in DOMAIN hits[p]}
PoolShare(q, hits, S, r) == [p \in S |-> Contribution(q, p, hits[p][r].rank)]

\* The fused score is the total of what the pools add.
LEMMA FusedIsTotal ==
  ASSUME NEW q, NEW hits, NEW a, NEW r
  PROVE  Fused(q, hits, a, r) = Total(PoolShare(q, hits, Counting(hits, a, r), r), Counting(hits, a, r))
<1> DEFINE S == Counting(hits, a, r)
           w == PoolShare(q, hits, S, r)
           F(f) == f = [s \in SUBSET S |->
                          IF s = {} THEN 0
                          ELSE Contribution(q, Pick(s), hits[Pick(s)][r].rank) + f[s \ {Pick(s)}]]
<1>1. Fused(q, hits, a, r) = (CHOOSE f : F(f))[S]
  BY DEF Fused, MapThenSumSet, MapThenFoldSet, Pick, Counting
<1>2. ASSUME NEW s \in SUBSET S, s # {}
      PROVE  w[Pick(s)] = Contribution(q, Pick(s), hits[Pick(s)][r].rank)
  BY <1>2, PickIn DEF PoolShare
<1> HIDE DEF S, w
<1>3. ASSUME NEW f
      PROVE  [s \in SUBSET S |->
                IF s = {} THEN 0 ELSE Contribution(q, Pick(s), hits[Pick(s)][r].rank) + f[s \ {Pick(s)}]]
             = [s \in SUBSET S |->
                  IF s = {} THEN 0 ELSE w[Pick(s)] + f[s \ {Pick(s)}]]
  BY <1>2
<1>4. \A f : F(f) <=> IsSum(w, S, f)
  BY <1>3 DEF IsSum
<1>5. (CHOOSE f : F(f)) = (CHOOSE f : IsSum(w, S, f))
  <2> HIDE DEF F
  <2> QED BY <1>4
<1> QED BY <1>1, <1>5 DEF Total, S, w

\* The fused score is a number.
LEMMA FusedTyped ==
  ASSUME NEW q, Rankable(q), NEW hits, HitsFit(q, hits), NEW a, NEW r
  PROVE  Fused(q, hits, a, r) \in Nat
<1> DEFINE S == Counting(hits, a, r)
           w == PoolShare(q, hits, S, r)
<1>1. S \subseteq Pool /\ \A p \in S : r \in DOMAIN hits[p]
  BY DEF Counting, Active
<1>2. IsFiniteSet(Pool)
  <2>1. IsFiniteSet({"formal_exact"}) /\ IsFiniteSet({"file_hint"}) /\ IsFiniteSet({"text_keyword"})
        /\ IsFiniteSet({"ai_inferred"}) /\ IsFiniteSet({"semantic_vector"})
    BY FS_Singleton
  <2>2. Pool = (({"formal_exact"} \cup {"file_hint"}) \cup ({"text_keyword"} \cup {"ai_inferred"}))
                \cup {"semantic_vector"}
    BY DEF Pool
  <2> QED BY <2>1, <2>2, FS_Union
<1>3. ASSUME NEW p \in S PROVE Contribution(q, p, hits[p][r].rank) \in Nat
  <2>1. p \in Pool /\ q.policy.share[p] \in Nat \ {0} /\ q.policy.k \in Nat \ {0} /\ Scale \in Nat
    BY <1>1 DEF Rankable, Scale
  <2>2. hits[p][r].rank \in Nat \ {0}
    BY <1>1, <2>1 DEF HitsFit, PoolFits
  <2> DEFINE a1 == Scale * q.policy.share[p]
             b1 == 4 * (q.policy.k + hits[p][r].rank)
  <2>3. a1 \in Nat /\ b1 \in Nat \ {0}
    BY <2>1, <2>2, TimesTyped
  <2>4. Contribution(q, p, hits[p][r].rank) = Rounded(a1, b1)
    BY DEF Contribution
  <2> HIDE DEF a1, b1
  <2> QED BY <2>3, <2>4, RoundedTyped
<1>4. w \in [S -> Nat]
  BY <1>3 DEF PoolShare
<1> HIDE DEF S, w
<1>5. IsFiniteSet(S) /\ S \in SUBSET S
  BY <1>1, <1>2, FS_Subset
<1>6. Total(w, S) \in Nat
  BY <1>4, <1>5, TotalTyped
<1> QED BY <1>6, FusedIsTotal DEF S, w

\* The score of a clause in one pool is a number.
LEMMA PathScoreTyped ==
  ASSUME NEW q, NEW hits, HitsFit(q, hits), NEW p \in Pool, NEW r
  PROVE  PathScore(hits, p, r) \in Int
BY DEF HitsFit, PoolFits, PathScore

\* The fused order ranks the clauses that some pool found, each once.
LEMMA OrderNumbers ==
  ASSUME NEW q, Rankable(q), NEW hits, HitsFit(q, hits), NEW a, NEW seen
  PROVE  Numbers(Order(q, hits, a, seen)) /\ DOMAIN Order(q, hits, a, seen) \subseteq Applicable(q)
<1> DEFINE R == Found(hits, Active(a))
           key == [r \in R |-> FusionKey(q, hits, a, seen, r)]
<1>1. Order(q, hits, a, seen) = Positions(key)
  BY DEF Order
<1>2. R \subseteq Applicable(q)
  BY DEF Found, Active, HitsFit, PoolFits
<1> HIDE DEF R
<1>3. ASSUME NEW r \in R PROVE IsKey(key[r], 10) /\ key[r][10] = r
  <2> DEFINE score(p) == IF p \in seen THEN PathScore(hits, p, r) ELSE -100
             c == IF r \in DOMAIN hits["formal_exact"] THEN 0 ELSE 1
  <2>1. r \in Applicable(q) /\ r \in Nat /\ q.clauses[r].authority \in Nat
    BY <1>2, ApplicableFinite
  <2>2. Unknown(q, r) \in Int /\ c \in Int
    BY DEF Unknown
  <2>3. \A p \in Pool : score(p) \in Int
    BY PathScoreTyped
  <2>4. -Fused(q, hits, a, r) \in Int
    BY FusedTyped
  <2>5. key[r] = <<-Fused(q, hits, a, r), c,
                   -score("formal_exact"), -score("semantic_vector"), -score("file_hint"),
                   -score("text_keyword"), -score("ai_inferred"), Unknown(q, r), -q.clauses[r].authority, r>>
    BY DEF FusionKey
  <2> HIDE DEF key, score, c
  <2>6. /\ -score("formal_exact") \in Int /\ -score("semantic_vector") \in Int /\ -score("file_hint") \in Int
        /\ -score("text_keyword") \in Int /\ -score("ai_inferred") \in Int
    BY <2>3 DEF Pool
  <2> QED BY <2>1, <2>2, <2>4, <2>5, <2>6 DEF IsKey
<1>4. DOMAIN key = R /\ IsFiniteSet(R)
  BY <1>2, ApplicableFinite, FS_Subset
<1> HIDE DEF key
<1>5. Keyed(key)
  <2>1. 10 \in Nat /\ 10 \in 1 .. 10
    OBVIOUS
  <2>2. \A x, y \in R : x # y => \E i \in 1 .. 10 : key[x][i] # key[y][i]
    BY <1>3, <2>1
  <2>3. \E n \in Nat : /\ \A x \in R : IsKey(key[x], n)
                      /\ \A x, y \in R : x # y => \E i \in 1 .. n : key[x][i] # key[y][i]
    BY <1>3, <2>1, <2>2, Zenon
  <2> QED BY <1>4, <2>3 DEF Keyed
<1> QED BY <1>1, <1>2, <1>4, <1>5, PositionsNumber

-----------------------------------------------------------------------------
(* The budget is shared out.                                               *)

\* A number is its quotient times the divisor and the remainder.
LEMMA DivisionIs ==
  ASSUME NEW a \in Nat, NEW n \in Nat \ {0}
  PROVE  a = (a \div n) * n + (a % n) /\ a % n \in 0 .. n - 1 /\ a \div n \in Nat
<1>1. a \in Int /\ n \in Int /\ n > 0
  OBVIOUS
<1>2. a = (a \div n) * n + (a % n)
  BY <1>1, Z3
<1>3. a % n \in 0 .. n - 1
  BY <1>1
<1>4. a \div n \in Nat
  BY <1>1
<1> QED BY <1>2, <1>3, <1>4

\* Adding the same once more.
LEMMA MoreTimes ==
  ASSUME NEW m \in Nat \ {0}, NEW d \in Nat
  PROVE  m * d = (m - 1) * d + d
OBVIOUS

\* The shares are numbers, one for each unit, that differ by at most one.
LEMMA SharesTyped ==
  ASSUME NEW total \in Nat, NEW n \in Nat \ {0}
  PROVE  /\ Shares(total, n) \in [1 .. n -> Nat] /\ DOMAIN Shares(total, n) = 1 .. n
         /\ Len(Shares(total, n)) = n
         /\ \A j, k \in 1 .. n : Shares(total, n)[j] - Shares(total, n)[k] \in -1 .. 1
<1> DEFINE d == total \div n
           e == total % n
           s == [k \in 1 .. n |-> d + (IF k <= e THEN 1 ELSE 0)]
<1>1. d \in Nat /\ e \in 0 .. n - 1
  BY DivisionIs
<1>2. Shares(total, n) = s
  BY DEF Shares
<1> HIDE DEF d, e
<1>3. s \in [1 .. n -> Nat] /\ DOMAIN s = 1 .. n /\ Len(s) = n
  BY <1>1
<1>4. \A j, k \in 1 .. n : s[j] - s[k] \in -1 .. 1
  BY <1>1
<1> HIDE DEF s
<1> QED BY <1>2, <1>3, <1>4

\* The shares are the whole budget.
LEMMA SharesAddUp ==
  ASSUME NEW total \in Nat, NEW n \in Nat \ {0}
  PROVE  Total(Shares(total, n), 1 .. n) = total
<1> DEFINE w == Shares(total, n)
           d == total \div n
           e == total % n
           D == 1 .. n
           least(m) == IF m <= e THEN m ELSE e
           P == {m \in 0 .. n : Total(w, 1 .. m) = m * d + least(m)}
<1>1. d \in Nat /\ e \in 0 .. n - 1 /\ total = n * d + e
  <2>1. d \in Nat /\ e \in 0 .. n - 1 /\ total = d * n + e
    BY DivisionIs
  <2> HIDE DEF d, e
  <2>2. d * n = n * d
    BY <2>1
  <2> QED BY <2>1, <2>2
<1>2. w \in [D -> Nat] /\ \A k \in D : w[k] = d + (IF k <= e THEN 1 ELSE 0)
  BY SharesTyped DEF Shares
<1> HIDE DEF w, d, e
<1>3. 0 \in P
  <2>1. 1 .. 0 = {} /\ Total(w, {}) = 0
    BY TotalStep, FS_EmptySet
  <2>2. 0 * d + least(0) = 0 /\ 0 \in 0 .. n
    BY <1>1
  <2> QED BY <2>1, <2>2
<1>4. ASSUME NEW m \in 1 .. n, m - 1 \in P PROVE m \in P
  <2> DEFINE S == 1 .. m - 1
  <2>1. Total(w, S) = (m - 1) * d + least(m - 1)
    BY <1>4
  <2>2. S \in SUBSET D /\ IsFiniteSet(S) /\ m \in D /\ m \notin S /\ S \cup {m} = 1 .. m
    BY FS_Interval
  <2>3. Total(w, S \cup {m}) = Total(w, S) + w[m]
    <3>1. IsFiniteSet(S) /\ S \in SUBSET D /\ m \in D /\ m \notin S
      BY <2>2
    <3>2. w \in [D -> Nat]
      BY <1>2
    <3> HIDE DEF S, D, P, least
    <3>3. \A c \in D : c \notin S => Total(w, S \cup {c}) = Total(w, S) + w[c]
      BY <3>1, <3>2, TotalWith
    <3> QED BY <3>1, <3>3
  <2>4. w[m] = d + (IF m <= e THEN 1 ELSE 0)
    BY <1>2
  <2>5. least(m - 1) + (IF m <= e THEN 1 ELSE 0) = least(m)
    BY <1>1
  <2>6. m * d = (m - 1) * d + d /\ (m - 1) * d \in Nat /\ least(m - 1) \in Nat
    BY <1>1, MoreTimes, TimesTyped
  <2> DEFINE x == (m - 1) * d
             y == least(m - 1)
             z == IF m <= e THEN 1 ELSE 0
  <2>7. z \in Nat
    OBVIOUS
  <2>8. Total(w, 1 .. m) = (x + y) + (d + z) /\ m * d = x + d /\ y + z = least(m)
    BY <2>1, <2>2, <2>3, <2>4, <2>5, <2>6
  <2>9. x \in Nat /\ y \in Nat
    BY <2>6
  <2> HIDE DEF x, y, z, least
  <2>10. Total(w, 1 .. m) = m * d + least(m)
    BY <1>1, <2>7, <2>8, <2>9
  <2> QED BY <2>10
<1>5. n \in P
  <2> HIDE DEF P
  <2>1. \A m \in 0 .. n : m \in P
    BY <1>3, <1>4, StepByStep
  <2> QED BY <2>1
<1>6. Total(w, 1 .. n) = n * d + e
  BY <1>1, <1>5
<1> QED BY <1>1, <1>6 DEF w

\* The sum of the shares is their total.
LEMMA ShareSumIsTotal ==
  ASSUME NEW w, NEW S
  PROVE  MapThenSumSet(LAMBDA k : w[k], S) = Total(w, S)
<1> DEFINE F(f) == f = [s \in SUBSET S |-> IF s = {} THEN 0 ELSE w[Pick(s)] + f[s \ {Pick(s)}]]
<1>1. MapThenSumSet(LAMBDA k : w[k], S) = (CHOOSE f : F(f))[S]
  BY DEF MapThenSumSet, MapThenFoldSet, Pick
<1>2. \A f : F(f) <=> IsSum(w, S, f)
  BY DEF IsSum
<1>3. (CHOOSE f : F(f)) = (CHOOSE f : IsSum(w, S, f))
  <2> HIDE DEF F
  <2> QED BY <1>2
<1> QED BY <1>1, <1>3 DEF Total

-----------------------------------------------------------------------------
(* What evidence a unit is given.                                          *)

\* the evidence e of the unit k, which may spend b
Given(q, k, b, e) ==
  \/ /\ Open(q, k) = {}
     /\ e.rank = <<>> /\ e.status = <<>> /\ BlockedNote \in e.notes
  \/ /\ Open(q, k) # {}
     /\ Numbers(e.rank) /\ DOMAIN e.rank \subseteq Applicable(q)
     /\ e.status = Replayed(q, q.units[k].dims, b, e.rank)
     /\ \E path : BlockedNote \notin path /\ e.notes = Noted(q, q.units[k], e.status, path)

\* the units and what they may spend
SharedOut ==
  \E n \in Nat \ {0} :
    DOMAIN query.units = 1 .. n /\ query.total \in Nat /\ share = Shares(query.total, n)

\* what an arm is selected from
SelectsFrom ==
  /\ HitsFit(query, pools) /\ BlockedNote \notin notes
  /\ Numbers(ranked) /\ DOMAIN ranked \subseteq Applicable(query)

ShareInv ==
  /\ turn # "idle" => WellAsked(query)
  /\ turn \in {"idle", "asked", "refused"} => control = <<>> /\ compared = <<>> /\ arms = <<>>
  /\ turn \notin {"idle", "asked", "refused"} => SharedOut
  /\ turn = "control" => Len(control) < Len(share)
  /\ turn \in {"recall", "select", "compare"} => work \in 1 .. Len(share)
  /\ turn = "select" => SelectsFrom
  /\ \A k \in DOMAIN control : k \in DOMAIN share /\ Given(query, k, share[k], control[k])
  /\ \A k \in DOMAIN compared : \A a \in Arm :
       k \in DOMAIN share /\ Given(query, k, share[k], compared[k].arms[a])
  /\ \A n \in DOMAIN arms : Given(query, work, share[work], arms[n])

\* Nothing has been retrieved at the start.
LEMMA InitShares == PipelineInit => ShareInv
<1> SUFFICES ASSUME PipelineInit PROVE ShareInv
  OBVIOUS
<1>1. \/ turn = "idle"
      \/ turn = "asked" /\ WellAsked(query)
  BY QueryAssumption DEF PipelineInit, Unasked, RetrievalInit
<1>2. control = <<>> /\ compared = <<>> /\ arms = <<>>
  BY DEF PipelineInit, Unasked, RetrievalInit
<1> QED BY <1>1, <1>2 DEF ShareInv

\* The units are numbered from 1.
LEMMA UnitsCounted ==
  ASSUME NEW q, WellAsked(q)
  PROVE  Cardinality(DOMAIN q.units) \in Nat /\ DOMAIN q.units = 1 .. Cardinality(DOMAIN q.units)
<1> DEFINE B == q.bindings
           K == {b[1] : b \in B}
           f == [b \in B |-> b[1]]
           m == Cardinality(K)
<1>1. IsFiniteSet(B) /\ DOMAIN q.units = 1 .. m
  BY DEF WellAsked
<1>2. f \in Surjection(B, K)
  BY DEF Surjection
<1>3. m \in Nat
  <2> HIDE DEF B, f, K
  <2>1. IsFiniteSet(K)
    BY <1>1, <1>2, FS_Surjection
  <2> QED BY <2>1, FS_CardinalityType
<1> HIDE DEF m
<1>4. Cardinality(1 .. m) = m
  BY <1>3, FS_Interval
<1> QED BY <1>1, <1>3, <1>4

\* A request that is built shares its budget out; one that is refused does not.
LEMMA BuildKeepsShares == ShareInv /\ BuildRequest => ShareInv'
<1> SUFFICES ASSUME ShareInv, BuildRequest PROVE ShareInv'
  OBVIOUS
<1> DEFINE n == Cardinality(DOMAIN query.units)
<1>1. /\ turn = "asked" /\ UNCHANGED <<query, control, work, pools, notes, ranked, arms, compared>>
      /\ \/ turn' = "refused" /\ UNCHANGED share
         \/ WellFounded(query, n) /\ turn' = "control" /\ share' = Shares(query.total, n)
  BY DEF BuildRequest, recall, selecting
<1>2. control = <<>> /\ compared = <<>> /\ arms = <<>> /\ WellAsked(query)
  BY <1>1 DEF ShareInv
<1>3. DOMAIN control' = {} /\ DOMAIN compared' = {} /\ DOMAIN arms' = {} /\ Len(control') = 0
  BY <1>1, <1>2
<1>4. CASE turn' = "refused"
  BY <1>1, <1>2, <1>3, <1>4 DEF ShareInv
<1>5. CASE WellFounded(query, n) /\ turn' = "control" /\ share' = Shares(query.total, n)
  <2>1. n \in Nat /\ DOMAIN query.units = 1 .. n
    BY <1>2, UnitsCounted
  <2>2. n \in Nat \ {0} /\ query.total \in Nat
    BY <1>2, <1>5, <2>1 DEF WellFounded, WellAsked
  <2>3. Len(share') = n
    BY <1>5, <2>2, SharesTyped
  <2> HIDE DEF n
  <2>4. SharedOut'
    BY <1>1, <1>5, <2>1, <2>2 DEF SharedOut
  <2> QED BY <1>1, <1>2, <1>3, <1>5, <2>2, <2>3, <2>4 DEF ShareInv
<1> QED BY <1>1, <1>4, <1>5

\* the units and shares, by number
LEMMA SharedUnits ==
  ASSUME SharedOut, WellAsked(query)
  PROVE  /\ Len(share) \in Nat \ {0} /\ DOMAIN share = 1 .. Len(share)
         /\ \A k \in 1 .. Len(share) : IsUnit(query.units[k], DOMAIN query.clauses) /\ share[k] \in Nat
<1>1. PICK n \in Nat \ {0} : DOMAIN query.units = 1 .. n /\ query.total \in Nat /\ share = Shares(query.total, n)
  BY DEF SharedOut
<1>2. share \in [1 .. n -> Nat] /\ DOMAIN share = 1 .. n /\ Len(share) = n
  BY <1>1, SharesTyped
<1>3. \A k \in 1 .. n : IsUnit(query.units[k], DOMAIN query.clauses)
  BY <1>1 DEF WellAsked
<1> QED BY <1>2, <1>3

\* What the vector search notes never says that a unit is blocked.
LEMMA VectorNotesAreNotBlocked ==
  ASSUME NEW outcome
  PROVE  BlockedNote \notin VectorNotes(outcome)
BY DEF BlockedNote, VectorNotes

\* A unit that retrieve() is done with has been given its evidence.
LEMMA RetrieveGives ==
  ASSUME WellAsked(query), NEW k, IsUnit(query.units[k], DOMAIN query.clauses), NEW outcome
  PROVE  Given(query, k, share[k], UnitEvidence(query, k, outcome))
<1> DEFINE u == query.units[k]
           rank == ControlRank(query, u, outcome)
           s == Replayed(query, u.dims, share[k], rank)
           e == UnitEvidence(query, k, outcome)
<1>1. CASE Open(query, k) = {}
  <2>1. e.rank = <<>> /\ e.status = <<>> /\ BlockedNote \in e.notes
    BY <1>1 DEF UnitEvidence, Evidence
  <2> QED BY <1>1, <2>1 DEF Given
<1>2. CASE Open(query, k) # {}
  <2>1. e = Evidence(rank, s, Noted(query, u, s, VectorNotes(outcome)))
    BY <1>2 DEF UnitEvidence
  <2>2. Numbers(rank) /\ DOMAIN rank \subseteq Applicable(query)
    BY AskedIsRankable, ControlNumbers
  <2> HIDE DEF rank, e
  <2>3. e.rank = rank /\ e.status = s /\ e.notes = Noted(query, u, s, VectorNotes(outcome))
    BY <2>1 DEF Evidence
  <2> QED BY <1>2, <2>2, <2>3, VectorNotesAreNotBlocked DEF Given, e
<1> QED BY <1>1, <1>2

\* Retrieving for the next unit gives it its evidence.
LEMMA RetrieveKeepsShares == EvidenceInv /\ ShareInv /\ RetrieveUnit => ShareInv'
<1> SUFFICES ASSUME EvidenceInv, ShareInv, RetrieveUnit PROVE ShareInv'
  OBVIOUS
<1> DEFINE k == Len(control) + 1
<1>1. PICK outcome : control' = Append(control, UnitEvidence(query, k, outcome))
  BY DEF RetrieveUnit
<1> DEFINE made == UnitEvidence(query, k, outcome)
<1>2. /\ turn = "control" /\ turn' = IF k = Len(share) THEN "recall" ELSE "control"
      /\ UNCHANGED <<query, share, work, arms, compared>>
  BY DEF RetrieveUnit, selecting
<1>3. SharedOut /\ WellAsked(query) /\ Len(control) < Len(share) /\ compared = <<>> /\ work = 1 /\ arms = <<>>
  <2>1. Len(<<>>) = 0
    OBVIOUS
  <2> QED BY <1>2, <2>1 DEF ShareInv, EvidenceInv, ArmsInv
<1>4. PICK S : control \in Seq(S)
  BY DEF EvidenceInv
<1>5. control' = Append(control, made)
  BY <1>1
<1> HIDE DEF made
<1>6. /\ Len(control) \in Nat
      /\ Len(control') = k /\ DOMAIN control' = 1 .. k /\ DOMAIN control = 1 .. Len(control)
      /\ control'[k] = made /\ \A j \in 1 .. Len(control) : control'[j] = control[j]
  BY <1>4, <1>5, OneMore
<1>7. Len(share) \in Nat \ {0} /\ DOMAIN share = 1 .. Len(share) /\ k \in 1 .. Len(share)
  BY <1>3, <1>6, SharedUnits
<1>8. Given(query, k, share[k], made)
  <2>1. IsUnit(query.units[k], DOMAIN query.clauses)
    BY <1>3, <1>7, SharedUnits
  <2> HIDE DEF k
  <2>2. Given(query, k, share[k], UnitEvidence(query, k, outcome))
    BY <1>3, <2>1, RetrieveGives
  <2> QED BY <2>2 DEF made
<1>9. ASSUME NEW j \in DOMAIN control' PROVE j \in DOMAIN share /\ Given(query, j, share[j], control'[j])
  <2>1. j \in 1 .. Len(control) \/ j = k
    BY <1>6
  <2> QED BY <1>6, <1>7, <1>8, <2>1 DEF ShareInv
<1>10. SharedOut'
  BY <1>2, <1>3 DEF SharedOut
<1> HIDE DEF k
<1>11. turn' = "control" => Len(control') < Len(share')
  <2>1. share' = share /\ (turn' = "control" => k # Len(share))
    BY <1>2
  <2>2. Len(share') = Len(share) /\ Len(control') = k
    BY <1>6, <2>1
  <2>3. Len(share) \in Nat /\ k \in 1 .. Len(share) /\ (turn' = "control" => k # Len(share))
    BY <1>7, <2>1
  <2> DEFINE n == Len(share)
  <2>4. n \in Nat /\ k \in 1 .. n /\ (turn' = "control" => k # n)
    BY <2>3
  <2> HIDE DEF n
  <2>5. turn' = "control" => k < n
    BY <2>4
  <2> QED BY <2>2, <2>5 DEF n
<1>12. turn' = "recall" => work' \in 1 .. Len(share')
  <2>1. share' = share /\ work' = 1
    BY <1>2, <1>3
  <2> QED BY <1>7, <2>1
<1>13. turn' \in {"control", "recall"} /\ DOMAIN compared' = {} /\ DOMAIN arms' = {}
  BY <1>2, <1>3
<1> QED BY <1>2, <1>3, <1>9, <1>10, <1>11, <1>12, <1>13 DEF ShareInv

\* Recalling for an arm finds pools that fit and a ranking that numbers.
LEMMA RecallKeepsShares == EvidenceInv /\ ShareInv /\ Recall => ShareInv'
<1> SUFFICES ASSUME EvidenceInv, ShareInv, Recall PROVE ShareInv'
  OBVIOUS
<1>1. /\ turn = "recall" /\ turn' = "select" /\ UNCHANGED <<query, share, control, work, arms, compared>>
      /\ ranked' = Fusion(query, pools', "static_vector")
  BY DEF Recall, Begin
<1>2. WellAsked(query) /\ SharedOut /\ work \in 1 .. Len(share) /\ arms = <<>>
  BY <1>1 DEF ShareInv, EvidenceInv, ArmsInv
<1>3. IsUnit(query.units[work], DOMAIN query.clauses)
  BY <1>2, SharedUnits
<1>4. HitsFit(query, pools') /\ BlockedNote \notin notes'
  <2>1. CASE pools' = NoHits /\ notes' = {}
    BY <2>1, NoHitsFit
  <2>2. CASE \E outcome \in VectorOutcomes(query, query.units[work], "shadow") :
               pools' = PoolsOf(query, query.units[work], outcome) /\ notes' = VectorNotes(outcome)
    <3>1. PICK outcome : pools' = PoolsOf(query, query.units[work], outcome) /\ notes' = VectorNotes(outcome)
      BY <2>2
    <3>2. HitsFit(query, PoolsOf(query, query.units[work], outcome))
      BY <1>2, <1>3, AskedIsRankable, PoolsFit
    <3> QED BY <3>1, <3>2, VectorNotesAreNotBlocked
  <2> QED BY <2>1, <2>2 DEF Recall
<1>5. Numbers(ranked') /\ DOMAIN ranked' \subseteq Applicable(query)
  <2> DEFINE hits == pools'
  <2>1. HitsFit(query, hits) /\ ranked' = Order(query, hits, "static_vector", Active("static_vector"))
    BY <1>1, <1>4 DEF Fusion
  <2> HIDE DEF hits
  <2>2. Numbers(Order(query, hits, "static_vector", Active("static_vector")))
    BY <1>2, <2>1, AskedIsRankable, OrderNumbers
  <2>3. DOMAIN Order(query, hits, "static_vector", Active("static_vector")) \subseteq Applicable(query)
    BY <1>2, <2>1, AskedIsRankable, OrderNumbers
  <2> QED BY <2>1, <2>2, <2>3
<1>6. SelectsFrom'
  BY <1>1, <1>4, <1>5 DEF SelectsFrom
<1> QED BY <1>1, <1>2, <1>6 DEF ShareInv, SharedOut

\* Serving a dimension and trying a clause keep what an arm selects from.
LEMMA ServeKeepsShares ==
  ASSUME ShareInv, ServeDimension \/ \E r \in DOMAIN ranked : Consider(r)
  PROVE  ShareInv'
<1>1. /\ turn = "select"
      /\ UNCHANGED <<query, turn, share, control, work, pools, notes, ranked, arms, compared>>
  BY DEF ServeDimension, Consider, recall
<1> QED BY <1>1 DEF ShareInv, SharedOut, SelectsFrom

\* An arm is what a selection in one go would have been, which it is
\* compared with.
LEMMA FinishKeepsShares == EvidenceInv /\ ShareInv /\ FinishArm => ShareInv'
<1> SUFFICES ASSUME EvidenceInv, ShareInv, FinishArm PROVE ShareInv'
  OBVIOUS
<1> DEFINE u == query.units[work]
           made == IF Open(query, work) = {} THEN Evidence(<<>>, <<>>, {BlockedNote})
                   ELSE Evidence(ranked, status, Noted(query, u, status, notes))
<1>1. /\ turn = "select" /\ UNCHANGED <<query, share, control, work, pools, notes, compared>>
      /\ \/ /\ ArmHolds(query, work, ranked, status)
            /\ arms' = Append(arms, made)
            /\ turn' = IF arm = "hybrid" THEN "compare" ELSE turn
            /\ IF arm = "hybrid" THEN UNCHANGED selecting ELSE Begin(pools, "hybrid")
         \/ turn' = "raised" /\ UNCHANGED arms
  BY DEF FinishArm, recall
<1>2. SelectsFrom /\ WellAsked(query) /\ SharedOut /\ work \in 1 .. Len(share)
  BY <1>1 DEF ShareInv
<1>3. SharedOut'
  BY <1>1, <1>2 DEF SharedOut
<1>4. CASE turn' = "raised" /\ UNCHANGED arms
  BY <1>1, <1>2, <1>3, <1>4 DEF ShareInv
<1>5. CASE /\ ArmHolds(query, work, ranked, status)
           /\ arms' = Append(arms, made)
           /\ turn' = IF arm = "hybrid" THEN "compare" ELSE turn
           /\ IF arm = "hybrid" THEN UNCHANGED selecting ELSE Begin(pools, "hybrid")
  <2>1. Given(query, work, share[work], made)
    <3>1. CASE Open(query, work) = {}
      <4>1. made.rank = <<>> /\ made.status = <<>> /\ BlockedNote \in made.notes
        BY <3>1 DEF Evidence
      <4> QED BY <3>1, <4>1 DEF Given
    <3>2. CASE Open(query, work) # {}
      <4>1. made.rank = ranked /\ made.status = status /\ made.notes = Noted(query, u, status, notes)
        BY <3>2 DEF Evidence
      <4>2. status = Replayed(query, u.dims, share[work], ranked)
        BY <1>5 DEF ArmHolds
      <4> HIDE DEF made
      <4> QED BY <1>2, <3>2, <4>1, <4>2 DEF Given, SelectsFrom
    <3> QED BY <3>1, <3>2
  <2>2. PICK S : arms \in Seq(S)
    BY DEF EvidenceInv, ArmsInv
  <2>3. arms' = Append(arms, made)
    BY <1>5
  <2> HIDE DEF made
  <2>4. /\ Len(arms) \in Nat
        /\ DOMAIN arms' = 1 .. Len(arms) + 1 /\ DOMAIN arms = 1 .. Len(arms)
        /\ arms'[Len(arms) + 1] = made /\ \A n \in 1 .. Len(arms) : arms'[n] = arms[n]
    BY <2>2, <2>3, OneMore
  <2>5. \A n \in DOMAIN arms' : Given(query, work, share[work], arms'[n])
    <3> SUFFICES ASSUME NEW n \in 1 .. Len(arms) + 1 PROVE Given(query, work, share[work], arms'[n])
      BY <2>4
    <3>1. n \in 1 .. Len(arms) \/ n = Len(arms) + 1
      BY <2>4
    <3> QED BY <2>1, <2>4, <3>1 DEF ShareInv
  <2>6. CASE arm = "hybrid"
    <3>1. turn' = "compare" /\ ranked' = ranked
      BY <1>1, <1>5, <2>6 DEF selecting
    <3> QED BY <1>1, <1>2, <1>3, <2>5, <3>1 DEF ShareInv
  <2>7. CASE arm # "hybrid"
    <3>1. turn' = "select" /\ ranked' = Fusion(query, pools, "hybrid")
      BY <1>1, <1>5, <2>7 DEF Begin
    <3>2. HitsFit(query, pools)
      BY <1>2 DEF SelectsFrom
    <3>3. Numbers(Fusion(query, pools, "hybrid")) /\ DOMAIN Fusion(query, pools, "hybrid") \subseteq Applicable(query)
      BY <1>2, <3>2, AskedIsRankable, OrderNumbers DEF Fusion
    <3>4. SelectsFrom'
      BY <1>1, <1>2, <3>1, <3>3 DEF SelectsFrom
    <3> QED BY <1>1, <1>2, <1>3, <2>5, <3>1, <3>4 DEF ShareInv
  <2> QED BY <2>6, <2>7
<1> QED BY <1>1, <1>4, <1>5

\* Comparing the arms of a unit keeps their evidence.
LEMMA CompareKeepsShares == EvidenceInv /\ ShareInv /\ CompareUnit => ShareInv'
<1> SUFFICES ASSUME EvidenceInv, ShareInv, CompareUnit PROVE ShareInv'
  OBVIOUS
<1> DEFINE made == [pools |-> pools, arms |-> Made]
<1>1. /\ turn = "compare" /\ UNCHANGED <<query, share, control, pools, notes>>
      /\ \/ turn' = "raised" /\ UNCHANGED <<work, arms, compared>>
         \/ /\ compared' = Append(compared, made) /\ arms' = <<>> /\ work' = work + 1
            /\ turn' = IF work = Len(share) THEN "bind" ELSE "recall"
  BY DEF CompareUnit, recall
<1>2. WellAsked(query) /\ SharedOut /\ work \in 1 .. Len(share) /\ work = Len(compared) + 1
  BY <1>1 DEF ShareInv, EvidenceInv
<1>3. SharedOut'
  BY <1>1, <1>2 DEF SharedOut
<1>4. CASE turn' = "raised" /\ UNCHANGED <<work, arms, compared>>
  BY <1>1, <1>2, <1>3, <1>4 DEF ShareInv
<1>5. CASE /\ compared' = Append(compared, made) /\ arms' = <<>> /\ work' = work + 1
           /\ turn' = IF work = Len(share) THEN "bind" ELSE "recall"
  <2>1. \A a \in Arm : Given(query, work, share[work], made.arms[a])
    <3>1. PICK S : arms \in Seq(S)
      BY DEF EvidenceInv, ArmsInv
    <3>2. 1 \in DOMAIN arms /\ 2 \in DOMAIN arms
      BY <1>1, <3>1 DEF EvidenceInv, ArmsInv
    <3>3. made.arms["static_vector"] = arms[1] /\ made.arms["hybrid"] = arms[2]
      BY DEF Made
    <3> HIDE DEF made
    <3> QED BY <3>2, <3>3 DEF ShareInv, Arm
  <2> HIDE DEF made
  <2>2. PICK S : compared \in Seq(S)
    BY DEF EvidenceInv
  <2>3. /\ Len(compared) \in Nat
        /\ DOMAIN compared' = 1 .. Len(compared) + 1 /\ DOMAIN compared = 1 .. Len(compared)
        /\ compared'[Len(compared) + 1] = made
        /\ \A k \in 1 .. Len(compared) : compared'[k] = compared[k]
    BY <1>5, <2>2, OneMore
  <2>4. Len(share) \in Nat \ {0} /\ DOMAIN share = 1 .. Len(share)
    BY <1>2, SharedUnits
  <2>5. ASSUME NEW k \in DOMAIN compared', NEW a \in Arm
        PROVE  k \in DOMAIN share /\ Given(query, k, share[k], compared'[k].arms[a])
    <3>1. k \in 1 .. Len(compared) \/ k = work
      BY <1>2, <2>3
    <3>2. CASE k = work
      BY <1>2, <2>1, <2>3, <2>4, <3>2
    <3>3. CASE k \in 1 .. Len(compared)
      BY <2>3, <3>3 DEF ShareInv
    <3> QED BY <3>1, <3>2, <3>3
  <2>6. DOMAIN arms' = {}
    BY <1>5
  <2>7. turn' = "recall" => work' \in 1 .. Len(share')
    <3>1. share' = share /\ work' = work + 1 /\ (turn' = "recall" => work # Len(share))
      BY <1>1, <1>5
    <3>2. Len(share') = Len(share)
      BY <3>1
    <3> DEFINE n == Len(share)
    <3>3. n \in Nat /\ work \in 1 .. n /\ (turn' = "recall" => work # n)
      BY <1>2, <2>4, <3>1
    <3> HIDE DEF n
    <3>4. turn' = "recall" => work + 1 \in 1 .. n
      BY <3>3
    <3> QED BY <3>1, <3>2, <3>4 DEF n
  <2>8. turn' \in {"bind", "recall"}
    BY <1>5
  <2> QED BY <1>1, <1>2, <1>3, <2>5, <2>6, <2>7, <2>8 DEF ShareInv
<1> QED BY <1>1, <1>4, <1>5

\* No step gives a unit other evidence than that.
LEMMA NextShares == EvidenceInv /\ ShareInv /\ [PipelineNext]_pipelineVars => ShareInv'
<1> SUFFICES ASSUME EvidenceInv, ShareInv, [PipelineNext]_pipelineVars PROVE ShareInv'
  OBVIOUS
<1>1. CASE AnalysisStep \/ FileStep \/ UNCHANGED pipelineVars
  <2>1. UNCHANGED <<query, turn, share, control, work, pools, notes, ranked, arms, compared>>
    BY <1>1 DEF AnalysisStep, FileStep, pipelineVars, retrievalVars, recall, selecting
  <2> QED BY <2>1 DEF ShareInv, SharedOut, SelectsFrom
<1>2. CASE AskForEvidence
  <2>1. /\ turn = "idle" /\ turn' = "asked" /\ WellAsked(query') /\ UNCHANGED <<control, arms, compared>>
    BY <1>2 DEF AskForEvidence
  <2>2. control' = <<>> /\ arms' = <<>> /\ compared' = <<>>
    BY <2>1 DEF ShareInv
  <2>3. DOMAIN control' = {} /\ DOMAIN arms' = {} /\ DOMAIN compared' = {}
    BY <2>2
  <2> QED BY <2>1, <2>2, <2>3 DEF ShareInv
<1>3. ASSUME turn # "idle", Conclude \/ Answered PROVE ShareInv'
  <2>1. /\ UNCHANGED <<query, share, control, work, pools, notes, ranked, arms, compared>>
        /\ \/ turn' = turn
           \/ turn = "bind" /\ turn' \in {"returned", "raised"}
    <3>1. CASE Conclude
      BY <3>1 DEF Conclude, recall, selecting
    <3>2. CASE Answered
      BY <3>2 DEF Answered, retrievalVars, recall, selecting
    <3> QED BY <1>3, <3>1, <3>2
  <2> QED BY <1>3, <2>1 DEF ShareInv, SharedOut, SelectsFrom
<1>4. CASE RetrievalStep
  BY <1>3, <1>4, BuildKeepsShares, RetrieveKeepsShares, RecallKeepsShares, ServeKeepsShares,
     FinishKeepsShares, CompareKeepsShares
  DEF RetrievalStep, RetrievalNext
<1> QED BY <1>1, <1>2, <1>4 DEF PipelineNext

-----------------------------------------------------------------------------
(* Evidence keeps its share.                                               *)

\* A unit has no question that may be asked if no bundle that may be sent for
\* it asks one that is bound to it.
LEMMA OpenMeans ==
  ASSUME NEW q, WellAsked(q), NEW k
  PROVE  Open(q, k) = {} <=>
           \A b \in q.bundles : b.dispatch_allowed => k \notin b.group \/ <<k, b.question>> \notin q.bindings
<1> DEFINE X == {x \in q.bindings :
                   /\ x[1] = k
                   /\ \E bundle \in q.bundles :
                        bundle.dispatch_allowed /\ k \in bundle.group /\ bundle.question = x[2]}
<1>1. Open(q, k) = {} <=> X = {}
  BY DEF Open
<1>2. ASSUME NEW b \in q.bundles, b.dispatch_allowed, k \in b.group, <<k, b.question>> \in q.bindings
      PROVE  X # {}
  <2>1. <<k, b.question>> \in X
    BY <1>2
  <2> QED BY <2>1
<1>3. ASSUME NEW x \in X
      PROVE  \E b \in q.bundles : b.dispatch_allowed /\ k \in b.group /\ <<k, b.question>> \in q.bindings
  <2>1. x = <<x[1], x[2]>> /\ x \in q.bindings /\ x[1] = k
    BY DEF WellAsked
  <2>2. PICK b \in q.bundles : b.dispatch_allowed /\ k \in b.group /\ b.question = x[2]
    OBVIOUS
  <2>3. <<k, b.question>> = x
    BY <2>1, <2>2
  <2> QED BY <2>1, <2>2, <2>3
<1> HIDE DEF X
<1> QED BY <1>1, <1>2, <1>3

\* The notes on a selection never say that the unit is blocked.
LEMMA NotedIsNotBlocked ==
  ASSUME NEW q, NEW u, NEW s, NEW path, BlockedNote \notin path
  PROVE  BlockedNote \notin Noted(q, u, s, path)
<1>1. \A r : <<"applicability_unknown", r>> # BlockedNote
  <2>1. \A r : Len(<<"applicability_unknown", r>>) = 2
    OBVIOUS
  <2>2. Len(BlockedNote) = 1
    BY DEF BlockedNote
  <2> QED BY <2>1, <2>2
<1>2. <<"budget_exhausted">> # BlockedNote /\ <<"empty_result">> # BlockedNote /\ <<"parser_degraded">> # BlockedNote
  BY DEF BlockedNote
<1> QED BY <1>1, <1>2 DEF Noted

\* what evidence of a unit with the budget b must be
Honest(q, k, b, e) ==
  /\ BlockedNote \in e.notes <=> Open(q, k) = {}
  /\ Open(q, k) = {} => Chosen(e.status) = {}
  /\ \A r \in Chosen(e.status) : Applicability(q, r) # "excluded"
  /\ TokensIn(q, Chosen(e.status)) <= b
  /\ \A d \in q.units[k].dims \ DimensionsOf(q, e) :
       \A r \in {x \in DOMAIN e.rank : d \in q.clauses[x].dims} :
         \/ e.status[r] = "token_budget" /\ <<"budget_exhausted">> \in e.notes
         \/ Cardinality(q.units[k].dims) > q.policy.results

\* Evidence that was given keeps its share and says what it does not cover.
LEMMA GivenIsHonest ==
  ASSUME NEW q, WellAsked(q), NEW k, IsUnit(q.units[k], DOMAIN q.clauses), NEW b \in Nat, NEW e, Given(q, k, b, e)
  PROVE  Honest(q, k, b, e)
<1>1. CASE Open(q, k) = {}
  <2>1. e.rank = <<>> /\ e.status = <<>> /\ BlockedNote \in e.notes
    BY <1>1 DEF Given
  <2>2. Chosen(e.status) = {} /\ TokensIn(q, Chosen(e.status)) = 0 /\ DOMAIN e.rank = {}
    <3>1. Chosen(e.status) = {}
      BY <2>1, NothingChosen
    <3>2. TokensIn(q, Chosen(e.status)) = TokensIn(q, {})
      BY <3>1
    <3> QED BY <2>1, <3>1, <3>2, TokensOfNone
  <2> QED BY <1>1, <2>1, <2>2 DEF Honest
<1>2. CASE Open(q, k) # {}
  <2> DEFINE u == q.units[k]
             dims == u.dims
             rank == e.rank
             s == e.status
  <2>1. PICK path : /\ BlockedNote \notin path /\ e.notes = Noted(q, u, s, path)
                    /\ Numbers(rank) /\ DOMAIN rank \subseteq Applicable(q)
                    /\ s = Replayed(q, dims, b, rank)
    BY <1>2 DEF Given
  <2>2. dims \in SUBSET Nat /\ IsFiniteSet(dims)
    BY DEF IsUnit
  <2>3. Selectable(q, DOMAIN rank)
    <3>1. IsFiniteSet(DOMAIN rank) /\ DOMAIN rank \subseteq DOMAIN q.clauses
      BY <2>1 DEF Numbers, Applicable
    <3> QED BY <3>1 DEF Selectable, WellAsked, IsClause
  <2> HIDE DEF rank, s, dims
  <2> DEFINE t == Replayed(q, dims, b, rank)
  <2>4. /\ t \in Picks(DOMAIN rank) /\ TokensIn(q, Chosen(t)) <= b
        /\ \A d \in dims :
             \/ \E r \in Chosen(t) : d \in q.clauses[r].dims
             \/ Cardinality(dims) > q.policy.results
             \/ \A r \in DOMAIN rank :
                  d \in q.clauses[r].dims => r \in DOMAIN t /\ t[r] = "token_budget"
    BY <2>1, <2>2, <2>3, ReplayedWell
  <2>5. t = s
    BY <2>1
  <2> HIDE DEF t
  <2>6. BlockedNote \notin e.notes
    BY <2>1, NotedIsNotBlocked
  <2>7. \A r \in Chosen(s) : Applicability(q, r) # "excluded"
    BY <2>1, <2>4, <2>5, SelectionShape DEF Applicable
  <2>8. ASSUME NEW d \in dims \ DimensionsOf(q, e), NEW r \in DOMAIN rank, d \in q.clauses[r].dims,
               ~(Cardinality(dims) > q.policy.results)
        PROVE  s[r] = "token_budget" /\ <<"budget_exhausted">> \in e.notes
    <3>1. \A x \in Chosen(s) : d \notin q.clauses[x].dims
      BY DEF DimensionsOf, s
    <3>2. r \in DOMAIN s /\ s[r] = "token_budget"
      BY <2>4, <2>5, <2>8, <3>1
    <3>3. Exhausted(s)
      BY <3>2 DEF Exhausted
    <3> QED BY <2>1, <3>2, <3>3 DEF Noted
  <2> QED BY <1>2, <2>4, <2>5, <2>6, <2>7, <2>8 DEF Honest, rank, s, dims
<1> QED BY <1>1, <1>2

\* The evidence of every arm, and of the control, is honest.
LEMMA EvidenceIsHonest ==
  ASSUME ShareInv, NEW k \in DOMAIN control, NEW e \in Evidences(k)
  PROVE  Honest(query, k, share[k], e) /\ WellAsked(query)
<1>1. turn \notin {"idle", "asked", "refused"}
  BY DEF ShareInv
<1>2. WellAsked(query) /\ SharedOut
  BY <1>1 DEF ShareInv
<1>3. k \in DOMAIN share /\ Given(query, k, share[k], e)
  <2>1. CASE e = control[k]
    BY <2>1 DEF ShareInv
  <2>2. CASE k \in DOMAIN compared /\ \E a \in Arm : e = compared[k].arms[a]
    BY <2>2 DEF ShareInv
  <2> QED BY <2>1, <2>2 DEF Evidences
<1>4. IsUnit(query.units[k], DOMAIN query.clauses) /\ share[k] \in Nat
  BY <1>2, <1>3, SharedUnits
<1> QED BY <1>2, <1>3, <1>4, GivenIsHonest

\* So evidence keeps its share and what is uncovered is explained.
LEMMA SharesKept == ShareInv => EvidenceKeepsItsShare /\ UncoveredIsExplained
<1> SUFFICES ASSUME ShareInv PROVE EvidenceKeepsItsShare /\ UncoveredIsExplained
  OBVIOUS
<1>1. UncoveredIsExplained
  BY EvidenceIsHonest DEF Honest, UncoveredIsExplained
<1>2. ASSUME turn = "returned"
      PROVE  /\ MapThenSumSet(LAMBDA k : share[k], DOMAIN share) <= query.total
             /\ \A j, k \in DOMAIN share : share[j] - share[k] \in -1 .. 1
  <2>1. PICK n \in Nat \ {0} : query.total \in Nat /\ share = Shares(query.total, n)
    BY <1>2 DEF ShareInv, SharedOut
  <2>2. DOMAIN share = 1 .. n /\ \A j, k \in 1 .. n : share[j] - share[k] \in -1 .. 1
    BY <2>1, SharesTyped
  <2>3. Total(share, 1 .. n) = query.total
    BY <2>1, SharesAddUp
  <2>4. MapThenSumSet(LAMBDA k : share[k], DOMAIN share) = Total(share, DOMAIN share)
    BY ShareSumIsTotal
  <2>5. MapThenSumSet(LAMBDA k : share[k], DOMAIN share) = query.total
    BY <2>2, <2>3, <2>4
  <2> QED BY <2>1, <2>2, <2>5
<1>3. ASSUME NEW k \in DOMAIN control, NEW e \in Evidences(k)
      PROVE  /\ <<"context_dispatch_blocked">> \in e.notes <=>
                  \A b \in query.bundles :
                    b.dispatch_allowed => k \notin b.group \/ <<k, b.question>> \notin query.bindings
             /\ <<"context_dispatch_blocked">> \in e.notes => Chosen(e.status) = {}
             /\ \A r \in Chosen(e.status) : Applicability(query, r) # "excluded"
             /\ TokensIn(query, Chosen(e.status)) <= share[k]
  <2>1. Honest(query, k, share[k], e) /\ WellAsked(query)
    BY EvidenceIsHonest
  <2>2. Open(query, k) = {} <=>
           \A b \in query.bundles : b.dispatch_allowed => k \notin b.group \/ <<k, b.question>> \notin query.bindings
    BY <2>1, OpenMeans
  <2> QED BY <2>1, <2>2 DEF Honest, BlockedNote
<1>4. EvidenceKeepsItsShare
  BY <1>2, <1>3 DEF EvidenceKeepsItsShare
<1> QED BY <1>1, <1>4

\* Evidence keeps its share, and what it leaves uncovered is explained, for
\* every request, answer of the vector search and choice of candidates.  The
\* units' shares stay in the budget of the request and differ by a token at
\* most; what retrieve() and every arm of the comparison select for a unit
\* costs no more than its share and is never excluded; a unit is blocked
\* exactly if no bundle that may be dispatched asks a question bound to it,
\* and is then given nothing.  A dimension goes without a clause only if every
\* clause found with it is too large for the share, and that is noted, or if
\* there are more dimensions than results.
THEOREM SharesAreKept == PipelineSpec => [](EvidenceKeepsItsShare /\ UncoveredIsExplained)
<1>1. PipelineInit => EvidenceInv /\ ShareInv
  BY InitEvidence, InitShares
<1>2. EvidenceInv /\ ShareInv /\ [PipelineNext]_pipelineVars => (EvidenceInv /\ ShareInv)'
  BY NextEvidence, NextShares
<1>3. EvidenceInv /\ ShareInv => EvidenceKeepsItsShare /\ UncoveredIsExplained
  BY SharesKept
<1> QED BY <1>1, <1>2, <1>3, PTL DEF PipelineSpec

-----------------------------------------------------------------------------
(* The order of two clauses.                                               *)

\* the keys of an arm's clauses
FusionKeys(q, hits, a, seen) == [r \in Found(hits, Active(a)) |-> FusionKey(q, hits, a, seen, r)]

\* The ten numbers of a clause's key.
LEMMA FusionKeyTyped ==
  ASSUME NEW q, Rankable(q), NEW hits, HitsFit(q, hits), NEW a, NEW seen, NEW r \in Found(hits, Active(a))
  PROVE  IsKey(FusionKey(q, hits, a, seen, r), 10) /\ FusionKey(q, hits, a, seen, r)[10] = r
<1> DEFINE score(p) == IF p \in seen THEN PathScore(hits, p, r) ELSE -100
           c == IF r \in DOMAIN hits["formal_exact"] THEN 0 ELSE 1
           key == FusionKey(q, hits, a, seen, r)
<1>1. r \in Applicable(q)
  BY DEF Found, Active, HitsFit, PoolFits
<1>2. r \in Nat /\ q.clauses[r].authority \in Nat
  BY <1>1, ApplicableFinite
<1>3. Unknown(q, r) \in Int /\ c \in Int
  BY DEF Unknown
<1>4. \A p \in Pool : score(p) \in Int
  BY PathScoreTyped
<1>5. -Fused(q, hits, a, r) \in Int
  BY FusedTyped
<1>6. key = <<-Fused(q, hits, a, r), c,
              -score("formal_exact"), -score("semantic_vector"), -score("file_hint"),
              -score("text_keyword"), -score("ai_inferred"), Unknown(q, r), -q.clauses[r].authority, r>>
  BY DEF FusionKey
<1> HIDE DEF key, score, c
<1>7. /\ -score("formal_exact") \in Int /\ -score("semantic_vector") \in Int /\ -score("file_hint") \in Int
      /\ -score("text_keyword") \in Int /\ -score("ai_inferred") \in Int
  BY <1>4 DEF Pool
<1>8. IsKey(key, 10) /\ key[10] = r
  BY <1>2, <1>3, <1>5, <1>6, <1>7 DEF IsKey
<1> QED BY <1>8 DEF key

\* The clauses of an arm have keys, all different.
LEMMA FusionIsKeyed ==
  ASSUME NEW q, Rankable(q), NEW hits, HitsFit(q, hits), NEW a, NEW seen
  PROVE  /\ Keyed(FusionKeys(q, hits, a, seen))
         /\ DOMAIN FusionKeys(q, hits, a, seen) = Found(hits, Active(a))
         /\ Order(q, hits, a, seen) = Positions(FusionKeys(q, hits, a, seen))
<1> DEFINE R == Found(hits, Active(a))
           key == FusionKeys(q, hits, a, seen)
<1>1. Order(q, hits, a, seen) = Positions(key)
  BY DEF Order, FusionKeys
<1>2. R \subseteq Applicable(q)
  BY DEF Found, Active, HitsFit, PoolFits
<1>3. \A r \in R : key[r] = FusionKey(q, hits, a, seen, r)
  BY DEF FusionKeys
<1>4. DOMAIN key = R /\ IsFiniteSet(R)
  BY <1>2, ApplicableFinite, FS_Subset DEF FusionKeys
<1>5. ASSUME NEW r \in R PROVE IsKey(key[r], 10) /\ key[r][10] = r
  BY <1>3, FusionKeyTyped
<1> HIDE DEF key, R
<1>6. Keyed(key)
  <2>1. 10 \in Nat /\ 10 \in 1 .. 10
    OBVIOUS
  <2>2. \A x, y \in R : x # y => \E i \in 1 .. 10 : key[x][i] # key[y][i]
    BY <1>5, <2>1
  <2>3. \E n \in Nat : /\ \A x \in R : IsKey(key[x], n)
                      /\ \A x, y \in R : x # y => \E i \in 1 .. n : key[x][i] # key[y][i]
    BY <1>5, <2>1, <2>2, Zenon
  <2> QED BY <1>4, <2>3 DEF Keyed
<1> QED BY <1>1, <1>4, <1>6 DEF key, R

\* The order of an arm is that of the keys.
LEMMA OrderOfKeys ==
  ASSUME NEW q, Rankable(q), NEW hits, HitsFit(q, hits), NEW a, NEW seen,
         NEW x \in Found(hits, Active(a)), NEW y \in Found(hits, Active(a))
  PROVE  Order(q, hits, a, seen)[x] < Order(q, hits, a, seen)[y]
           <=> Precedes(FusionKey(q, hits, a, seen, x), FusionKey(q, hits, a, seen, y))
<1> DEFINE key == FusionKeys(q, hits, a, seen)
<1>1. Keyed(key) /\ x \in DOMAIN key /\ y \in DOMAIN key /\ Order(q, hits, a, seen) = Positions(key)
  BY FusionIsKeyed
<1>2. key[x] = FusionKey(q, hits, a, seen, x) /\ key[y] = FusionKey(q, hits, a, seen, y)
  BY DEF FusionKeys
<1> HIDE DEF key
<1>3. Positions(key)[x] < Positions(key)[y] <=> Precedes(key[x], key[y])
  BY <1>1, EarlierPrecedes
<1> QED BY <1>1, <1>2, <1>3

-----------------------------------------------------------------------------
(* What the AI does to the ranks.                                          *)


\* The other fields of a unit are as before.
LEMMA WithoutAI ==
  ASSUME NEW u, NEW C, IsUnit(u, C)
  PROVE  LET v == [u EXCEPT !.ai = {}] IN
         /\ v.facts = u.facts /\ v.exact = u.exact /\ v.hints = u.hints /\ v.dims = u.dims
         /\ v.requested = u.requested /\ v.words = u.words /\ v.near = u.near
BY DEF IsUnit

\* What ranks a pool does not look at the AI.
LEMMA RankedWithoutAI ==
  ASSUME NEW q, NEW u, NEW C, IsUnit(u, C), NEW pool, NEW score, NEW matches
  PROVE  Ranked(q, [u EXCEPT !.ai = {}], pool, score, matches) = Ranked(q, u, pool, score, matches)
<1> DEFINE v == [u EXCEPT !.ai = {}]
<1>1. v.dims = u.dims
  BY WithoutAI
<1> HIDE DEF v
<1>2. \A r : Overlap(q, v, r) = Overlap(q, u, r)
  BY <1>1 DEF Overlap
<1>3. [r \in DOMAIN score |->
         <<-score[r], -Cardinality(matches[r]), -Overlap(q, v, r), Unknown(q, r), -q.clauses[r].authority, r>>]
      = [r \in DOMAIN score |->
           <<-score[r], -Cardinality(matches[r]), -Overlap(q, u, r), Unknown(q, r), -q.clauses[r].authority, r>>]
  BY <1>2
<1>4. Ranked(q, v, pool, score, matches) = Ranked(q, u, pool, score, matches)
  BY <1>3 DEF Ranked
<1> QED BY <1>4 DEF v

\* A pool but that of the AI is the same without the AI.
LEMMA StructuredWithoutAI ==
  ASSUME NEW q, NEW u, NEW C, IsUnit(u, C), NEW p \in {"formal_exact", "file_hint", "text_keyword"}
  PROVE  StructuredPool(q, [u EXCEPT !.ai = {}], p) = StructuredPool(q, u, p)
<1> DEFINE v == [u EXCEPT !.ai = {}]
<1>1. /\ v.facts = u.facts /\ v.exact = u.exact /\ v.hints = u.hints /\ v.dims = u.dims
      /\ v.requested = u.requested /\ v.words = u.words
  BY WithoutAI
<1>2. \A score, matches : Ranked(q, v, p, score, matches) = Ranked(q, u, p, score, matches)
  BY RankedWithoutAI
<1> HIDE DEF v
<1>3. \A r : Matches(q, v, r, p) = Matches(q, u, r, p)
  <2>1. CanonicalFacts(q, v) = CanonicalFacts(q, u)
    BY <1>1 DEF CanonicalFacts
  <2>2. \A r : FormalMatches(q, v, r) = FormalMatches(q, u, r)
    BY <1>1, <2>1 DEF FormalMatches
  <2> QED BY <1>1, <2>2 DEF Matches
<1>4. \A r : Bonus(q, v, r) = Bonus(q, u, r)
  BY <1>1 DEF Bonus, Overlap
<1> DEFINE hits == {r \in Applicable(q) : Matches(q, u, r, p) # {}}
           matches == [r \in hits |-> Matches(q, u, r, p)]
           score(x) == [r \in hits |->
                          IF p = "ai_inferred" THEN Cardinality(matches[r])
                          ELSE Weighed(q, matches[r]) + Bonus(q, x, r)]
<1>5. score(v) = score(u)
  BY <1>4
<1>6. StructuredPool(q, u, p) = Ranked(q, u, p, score(u), matches)
  BY DEF StructuredPool
<1>7. StructuredPool(q, v, p) = Ranked(q, v, p, score(v), matches)
  <2>1. {r \in Applicable(q) : Matches(q, v, r, p) # {}} = hits
    BY <1>3
  <2>2. [r \in hits |-> Matches(q, v, r, p)] = matches
    BY <1>3
  <2> HIDE DEF hits, matches
  <2> QED BY <2>1, <2>2 DEF StructuredPool
<1> HIDE DEF score, matches, hits
<1> QED BY <1>2, <1>5, <1>6, <1>7 DEF v

\* The pool of the vectors is the same without the AI, and empty unless something was found.
LEMMA VectorWithoutAI ==
  ASSUME NEW q, NEW u, NEW C, IsUnit(u, C), NEW outcome
  PROVE  VectorPool(q, [u EXCEPT !.ai = {}], outcome) = VectorPool(q, u, outcome)
<1> DEFINE v == [u EXCEPT !.ai = {}]
<1>1. v.near = u.near
  BY WithoutAI
<1>2. \A score, matches : Ranked(q, v, "semantic_vector", score, matches)
                          = Ranked(q, u, "semantic_vector", score, matches)
  BY RankedWithoutAI
<1> HIDE DEF v
<1>3. Near(q, v, "shadow", outcome) = Near(q, u, "shadow", outcome)
  BY <1>1 DEF Near
<1> DEFINE hits == Near(q, u, "shadow", outcome)
           score == [r \in hits |-> u.near["shadow"][r]]
           matches == [r \in hits |-> {<<"vector", "model">>}]
<1>4. VectorPool(q, u, outcome) = Ranked(q, u, "semantic_vector", score, matches)
  BY DEF VectorPool
<1>5. VectorPool(q, v, outcome) = Ranked(q, v, "semantic_vector", score, matches)
  BY <1>1, <1>3 DEF VectorPool
<1> HIDE DEF score, matches, hits
<1> QED BY <1>2, <1>4, <1>5 DEF v

\* Nothing ranked is nothing found.
LEMMA NothingRanked ==
  ASSUME NEW q, NEW u, NEW pool, NEW score, NEW matches, DOMAIN score = {}
  PROVE  Ranked(q, u, pool, score, matches) = <<>>
<1> DEFINE key == [r \in DOMAIN score |->
                     <<-score[r], -Cardinality(matches[r]), -Overlap(q, u, r), Unknown(q, r),
                       -q.clauses[r].authority, r>>]
           rank == Cut(Positions(key), q.policy.limit[pool])
           made == [r \in DOMAIN rank |-> [rank |-> rank[r], score |-> score[r], matches |-> matches[r]]]
<1>1. Ranked(q, u, pool, score, matches) = made
  BY DEF Ranked
<1>2. DOMAIN key = {}
  OBVIOUS
<1> HIDE DEF key
<1>3. DOMAIN rank = {}
  BY <1>2 DEF Cut, Positions
<1> HIDE DEF rank
<1>4. DOMAIN made = {} /\ made \in [{} -> {}]
  BY <1>3
<1> HIDE DEF made
<1>5. <<>> \in [{} -> {}]
  OBVIOUS
<1> QED BY <1>1, <1>4, <1>5

\* A search that found nothing leaves an empty pool.
LEMMA VectorsSilent ==
  ASSUME NEW q, NEW u, NEW outcome, outcome # "found"
  PROVE  VectorPool(q, u, outcome) = <<>>
<1> DEFINE hits == Near(q, u, "shadow", outcome)
           score == [r \in hits |-> u.near["shadow"][r]]
           matches == [r \in hits |-> {<<"vector", "model">>}]
<1>1. VectorPool(q, u, outcome) = Ranked(q, u, "semantic_vector", score, matches)
  BY DEF VectorPool
<1>2. DOMAIN score = {}
  BY DEF Near
<1> HIDE DEF score, matches
<1> QED BY <1>1, <1>2, NothingRanked

\* An AI that found nothing has an empty pool.
LEMMA NoAIPool ==
  ASSUME NEW q, NEW u, u.ai = {}
  PROVE  StructuredPool(q, u, "ai_inferred") = <<>>
<1> DEFINE hits == {r \in Applicable(q) : Matches(q, u, r, "ai_inferred") # {}}
           matches == [r \in hits |-> Matches(q, u, r, "ai_inferred")]
           score == [r \in hits |->
                       IF "ai_inferred" = "ai_inferred" THEN Cardinality(matches[r])
                       ELSE Weighed(q, matches[r]) + Bonus(q, u, r)]
<1>1. StructuredPool(q, u, "ai_inferred") = Ranked(q, u, "ai_inferred", score, matches)
  BY DEF StructuredPool
<1>2. \A r : Matches(q, u, r, "ai_inferred") = {}
  <2>1. \A r : u.ai \cap q.clauses[r].tags = {}
    OBVIOUS
  <2> QED BY <2>1 DEF Matches
<1>3. DOMAIN score = {}
  BY <1>2
<1> HIDE DEF score, matches
<1> QED BY <1>1, <1>3, NothingRanked

\* The fused score of a clause depends on its places in the pools that count.
LEMMA FusedDepends ==
  ASSUME NEW q, NEW hits, NEW other, NEW a, NEW b, NEW r,
         Counting(hits, a, r) = Counting(other, b, r),
         \A p \in Counting(hits, a, r) : hits[p] = other[p]
  PROVE  Fused(q, hits, a, r) = Fused(q, other, b, r)
<1> DEFINE S == Counting(hits, a, r)
<1>1. PoolShare(q, hits, S, r) = PoolShare(q, other, S, r)
  BY DEF PoolShare
<1>2. Fused(q, hits, a, r) = Total(PoolShare(q, hits, S, r), S)
  BY FusedIsTotal
<1>3. Fused(q, other, b, r) = Total(PoolShare(q, other, S, r), S)
  BY FusedIsTotal
<1> QED BY <1>1, <1>2, <1>3

\* The static arm does not look at the pool of the AI.
LEMMA StaticDepends ==
  ASSUME NEW q, NEW hits, NEW other, \A p \in Active("static_vector") : hits[p] = other[p]
  PROVE  Fusion(q, hits, "static_vector") = Fusion(q, other, "static_vector")
<1> DEFINE A == Active("static_vector")
           R == Found(hits, A)
<1>1. Found(other, A) = R
  BY DEF Found
<1>2. \A p \in {"formal_exact", "file_hint", "text_keyword", "semantic_vector"} : p \in A
  BY DEF Active, Pool
<1>3. ASSUME NEW r
      PROVE  FusionKey(q, hits, "static_vector", A, r) = FusionKey(q, other, "static_vector", A, r)
  <2>1. Counting(hits, "static_vector", r) = Counting(other, "static_vector", r)
    BY DEF Counting
  <2>2. \A p \in Counting(hits, "static_vector", r) : hits[p] = other[p]
    BY DEF Counting
  <2>3. Fused(q, hits, "static_vector", r) = Fused(q, other, "static_vector", r)
    BY <2>1, <2>2, FusedDepends
  <2>4. \A p \in A : PathScore(hits, p, r) = PathScore(other, p, r)
    BY DEF PathScore
  <2>5. hits["formal_exact"] = other["formal_exact"]
    BY <1>2
  <2> HIDE DEF A
  <2> QED BY <2>3, <2>4, <2>5 DEF FusionKey
<1>4. [r \in R |-> FusionKey(q, hits, "static_vector", A, r)] = [r \in R |-> FusionKey(q, other, "static_vector", A, r)]
  BY <1>3
<1> HIDE DEF A, R
<1>5. Order(q, hits, "static_vector", Active("static_vector")) = Order(q, other, "static_vector", Active("static_vector"))
  BY <1>1, <1>4 DEF Order, R, A
<1> QED BY <1>5 DEF Fusion

\* A clause that the AI did not find has one key in both arms.
LEMMA PlainKey ==
  ASSUME NEW q, NEW hits, NEW r, r \notin DOMAIN hits["ai_inferred"]
  PROVE  FusionKey(q, hits, "hybrid", Active("hybrid"), r)
           = FusionKey(q, hits, "static_vector", Active("static_vector"), r)
<1>1. Counting(hits, "hybrid", r) = Counting(hits, "static_vector", r)
  BY DEF Counting, Active
<1>2. Fused(q, hits, "hybrid", r) = Fused(q, hits, "static_vector", r)
  BY <1>1, FusedDepends
<1>3. PathScore(hits, "ai_inferred", r) = -100
  BY DEF PathScore
<1>4. /\ "ai_inferred" \in Active("hybrid") /\ "ai_inferred" \notin Active("static_vector")
      /\ \A p \in {"formal_exact", "file_hint", "text_keyword", "semantic_vector"} :
           p \in Active("hybrid") /\ p \in Active("static_vector")
  BY DEF Active, Pool
<1> QED BY <1>2, <1>3, <1>4 DEF FusionKey

\* What the AI did not find was found without it.
LEMMA PlainIsFound ==
  ASSUME NEW hits, NEW r \in Found(hits, Active("hybrid")), r \notin DOMAIN hits["ai_inferred"]
  PROVE  r \in Found(hits, Active("static_vector"))
BY DEF Found, Active

\* The hybrid arm finds what the static arm finds, and what the AI found.
LEMMA FoundMore ==
  ASSUME NEW hits
  PROVE  Found(hits, Active("static_vector")) \subseteq Found(hits, Active("hybrid"))
BY DEF Found, Active

\* The AI does not change the order of what it did not find.
LEMMA PlainOrder ==
  ASSUME NEW q, Rankable(q), NEW hits, HitsFit(q, hits),
         NEW x \in Found(hits, Active("hybrid")), x \notin DOMAIN hits["ai_inferred"],
         NEW y \in Found(hits, Active("hybrid")), y \notin DOMAIN hits["ai_inferred"]
  PROVE  Fusion(q, hits, "hybrid")[x] < Fusion(q, hits, "hybrid")[y]
           <=> Fusion(q, hits, "static_vector")[x] < Fusion(q, hits, "static_vector")[y]
<1>1. x \in Found(hits, Active("static_vector")) /\ y \in Found(hits, Active("static_vector"))
  BY PlainIsFound
<1>2. Fusion(q, hits, "hybrid")[x] < Fusion(q, hits, "hybrid")[y]
        <=> Precedes(FusionKey(q, hits, "hybrid", Active("hybrid"), x), FusionKey(q, hits, "hybrid", Active("hybrid"), y))
  BY OrderOfKeys DEF Fusion
<1>3. Fusion(q, hits, "static_vector")[x] < Fusion(q, hits, "static_vector")[y]
        <=> Precedes(FusionKey(q, hits, "static_vector", Active("static_vector"), x),
                     FusionKey(q, hits, "static_vector", Active("static_vector"), y))
  BY <1>1, OrderOfKeys DEF Fusion
<1> QED BY <1>2, <1>3, PlainKey

\* If the AI found nothing, the arms rank alike.
LEMMA NoAIOrder ==
  ASSUME NEW q, NEW hits, DOMAIN hits["ai_inferred"] = {}
  PROVE  Fusion(q, hits, "hybrid") = Fusion(q, hits, "static_vector")
<1> DEFINE R == Found(hits, Active("hybrid"))
<1>1. Found(hits, Active("static_vector")) = R
  BY PlainIsFound, FoundMore
<1>2. [r \in R |-> FusionKey(q, hits, "hybrid", Active("hybrid"), r)]
      = [r \in R |-> FusionKey(q, hits, "static_vector", Active("static_vector"), r)]
  BY PlainKey
<1> HIDE DEF R
<1> QED BY <1>1, <1>2 DEF Fusion, Order, R

\* A quotient is at most another if it is so many times.
LEMMA QuotientAtLeast ==
  ASSUME NEW a \in Nat, NEW b \in Nat \ {0}, NEW m \in Nat, m * b <= a
  PROVE  m <= a \div b
<1> DEFINE k == a \div b
           r == a % b
<1>1. a = k * b + r /\ r \in 0 .. b - 1 /\ k \in Nat
  BY DivisionIs
<1> HIDE DEF k, r
<1>2. SUFFICES ASSUME k < m PROVE FALSE
  BY <1>1 DEF k
<1>3. PICK d \in Nat : m = k + 1 + d
  <2>1. m - k - 1 \in Nat /\ m = k + 1 + (m - k - 1)
    BY <1>1, <1>2
  <2> QED BY <2>1
<1>4. m * b = (k + 1) * b + d * b /\ (k + 1) * b = k * b + b /\ d * b \in Nat /\ k * b \in Nat
  BY <1>1, <1>3, Z3
<1> QED BY <1>1, <1>4

\* The larger the divisor, the smaller the rounded quotient.
LEMMA RoundedFalls ==
  ASSUME NEW n \in Nat, NEW c \in Nat \ {0}, NEW d \in Nat \ {0}, c <= d
  PROVE  Rounded(n, d) <= Rounded(n, c)
<1> DEFINE m == Rounded(n, d)
           a == 2 * n + d
           b == 2 * d
           e == 2 * n + c
           f == 2 * c
           r == a % b
<1>1. a \in Nat /\ b \in Nat \ {0} /\ e \in Nat /\ f \in Nat \ {0}
  OBVIOUS
<1>2. m = a \div b /\ Rounded(n, c) = e \div f
  BY DEF Rounded
<1>3. a = m * b + r /\ r \in 0 .. b - 1 /\ m \in Nat
  <2> HIDE DEF a, b, m
  <2> QED BY <1>1, <1>2, DivisionIs DEF r
<1>4. m * f <= e
  <2> HIDE DEF m, r
  <2>1. CASE m = 0
    BY <2>1
  <2>2. CASE m # 0
    <3> DEFINE h == 2 * m - 1
    <3>1. h \in Nat /\ m * b = h * d + d /\ m * f = h * c + c
      BY <1>3, <2>2, Z3
    <3>2. h * c <= h * d
      BY <3>1, Z3
    <3>3. h * d \in Nat /\ h * c \in Nat
      BY <3>1, TimesTyped
    <3> HIDE DEF h
    <3>4. h * d <= 2 * n
      BY <1>3, <3>1, <3>3
    <3> QED BY <3>1, <3>2, <3>3, <3>4
  <2> QED BY <2>1, <2>2
<1> HIDE DEF a, b, e, f, r, m
<1>5. m <= e \div f
  BY <1>1, <1>3, <1>4, QuotientAtLeast
<1> QED BY <1>2, <1>5 DEF m

\* A later place in a pool contributes no more.
LEMMA ContributionFalls ==
  ASSUME NEW q, Rankable(q), NEW p \in Pool, NEW i \in Nat \ {0}, NEW j \in Nat \ {0}, i <= j
  PROVE  /\ Contribution(q, p, i) \in Nat
         /\ Contribution(q, p, j) <= Contribution(q, p, i)
<1> DEFINE n == Scale * q.policy.share[p]
           k == q.policy.k
           c == 4 * (k + i)
           d == 4 * (k + j)
<1>1. q.policy.share[p] \in Nat \ {0} /\ k \in Nat \ {0} /\ Scale \in Nat
  BY DEF Rankable, Scale
<1>2. n \in Nat
  BY <1>1, TimesTyped
<1>3. Contribution(q, p, i) = Rounded(n, c) /\ Contribution(q, p, j) = Rounded(n, d)
  BY DEF Contribution
<1> HIDE DEF n
<1>4. c \in Nat \ {0} /\ d \in Nat \ {0} /\ c <= d
  BY <1>1
<1> HIDE DEF c, d, k
<1>5. Rounded(n, d) <= Rounded(n, c)
  BY <1>2, <1>4, RoundedFalls
<1>6. Rounded(n, c) \in Nat
  BY <1>2, <1>4, RoundedTyped
<1> QED BY <1>3, <1>5, <1>6

\* the hits of every pool are within its limit
WithinLimits(q, hits) == \A p \in Pool : \A r \in DOMAIN hits[p] : hits[p][r].rank <= q.policy.limit[p]

\* A pool ranked by scores is cut at its limit.
LEMMA RankedWithin ==
  ASSUME NEW q, NEW u, NEW pool, NEW score, NEW matches
  PROVE  \A r \in DOMAIN Ranked(q, u, pool, score, matches) :
           Ranked(q, u, pool, score, matches)[r].rank <= q.policy.limit[pool]
<1> DEFINE key == [r \in DOMAIN score |->
                     <<-score[r], -Cardinality(matches[r]), -Overlap(q, u, r), Unknown(q, r),
                       -q.clauses[r].authority, r>>]
           rank == Cut(Positions(key), q.policy.limit[pool])
           made == [r \in DOMAIN rank |-> [rank |-> rank[r], score |-> score[r], matches |-> matches[r]]]
<1>1. Ranked(q, u, pool, score, matches) = made
  BY DEF Ranked
<1> HIDE DEF key
<1>2. \A r \in DOMAIN rank : rank[r] <= q.policy.limit[pool]
  BY DEF Cut
<1> HIDE DEF rank
<1>3. \A r \in DOMAIN made : made[r].rank <= q.policy.limit[pool]
  BY <1>2
<1> HIDE DEF made
<1> QED BY <1>1, <1>3

\* Pools hold no more than their limit.
LEMMA PoolsWithin ==
  ASSUME NEW q, NEW u, NEW outcome
  PROVE  WithinLimits(q, PoolsOf(q, u, outcome))
<1> SUFFICES ASSUME NEW p \in Pool
             PROVE  \A r \in DOMAIN PoolsOf(q, u, outcome)[p] : PoolsOf(q, u, outcome)[p][r].rank <= q.policy.limit[p]
  BY DEF WithinLimits
<1>1. \E score, matches : PoolsOf(q, u, outcome)[p] = Ranked(q, u, p, score, matches)
  <2>1. PoolsOf(q, u, outcome)[p] = IF p = "semantic_vector" THEN VectorPool(q, u, outcome) ELSE StructuredPool(q, u, p)
    BY DEF PoolsOf
  <2>2. \E score, matches : StructuredPool(q, u, p) = Ranked(q, u, p, score, matches)
    BY DEF StructuredPool
  <2>3. \E score, matches : VectorPool(q, u, outcome) = Ranked(q, u, "semantic_vector", score, matches)
    BY DEF VectorPool
  <2> QED BY <2>1, <2>2, <2>3
<1>2. PICK score, matches : PoolsOf(q, u, outcome)[p] = Ranked(q, u, p, score, matches)
  BY <1>1
<1> QED BY <1>2, RankedWithin

\* There are finitely many pools.
LEMMA PoolFinite == IsFiniteSet(Pool)
<1>1. IsFiniteSet({"formal_exact"}) /\ IsFiniteSet({"file_hint"}) /\ IsFiniteSet({"text_keyword"})
      /\ IsFiniteSet({"ai_inferred"}) /\ IsFiniteSet({"semantic_vector"})
  BY FS_Singleton
<1>2. Pool = (({"formal_exact"} \cup {"file_hint"}) \cup ({"text_keyword"} \cup {"ai_inferred"}))
              \cup {"semantic_vector"}
  BY DEF Pool
<1> QED BY <1>1, <1>2, FS_Union

\* What each pool adds is a number.
LEMMA SharesOfPools ==
  ASSUME NEW q, Rankable(q), NEW hits, HitsFit(q, hits), NEW a, NEW r
  PROVE  /\ IsFiniteSet(Counting(hits, a, r))
         /\ PoolShare(q, hits, Counting(hits, a, r), r) \in [Counting(hits, a, r) -> Nat]
<1> DEFINE S == Counting(hits, a, r)
<1>1. S \subseteq Pool /\ \A p \in S : r \in DOMAIN hits[p]
  BY DEF Counting, Active
<1>2. IsFiniteSet(S)
  BY <1>1, PoolFinite, FS_Subset
<1> HIDE DEF S
<1>3. ASSUME NEW p \in S PROVE Contribution(q, p, hits[p][r].rank) \in Nat
  <2>1. p \in Pool /\ hits[p][r].rank \in Nat \ {0}
    BY <1>1 DEF HitsFit, PoolFits
  <2> QED BY <2>1, ContributionFalls
<1>4. PoolShare(q, hits, S, r) \in [S -> Nat]
  BY <1>3 DEF PoolShare
<1> QED BY <1>2, <1>4 DEF S

\* A fused score is at least what each pool adds.
LEMMA FusedAtLeast ==
  ASSUME NEW q, Rankable(q), NEW hits, HitsFit(q, hits), NEW a, NEW r, NEW p \in Counting(hits, a, r)
  PROVE  Contribution(q, p, hits[p][r].rank) <= Fused(q, hits, a, r)
<1> DEFINE S == Counting(hits, a, r)
           w == PoolShare(q, hits, S, r)
<1>1. IsFiniteSet(S) /\ w \in [S -> Nat]
  BY SharesOfPools
<1>2. w[p] = Contribution(q, p, hits[p][r].rank)
  BY DEF PoolShare
<1>3. Fused(q, hits, a, r) = Total(w, S)
  BY FusedIsTotal
<1>4. p \in S
  OBVIOUS
<1> HIDE DEF w, S
<1>5. S \in SUBSET S /\ S \ {p} \in SUBSET S /\ IsFiniteSet(S \ {p})
  BY <1>1, FS_Subset
<1>6. Total(w, S) = w[p] + Total(w, S \ {p})
  BY <1>1, <1>4, <1>5, TotalWithout
<1>7. Total(w, S \ {p}) \in Nat
  BY <1>1, <1>5, TotalTyped
<1>8. w[p] \in Nat
  BY <1>1, <1>4
<1> QED BY <1>2, <1>3, <1>6, <1>7, <1>8

\* The fused score of what one pool found is what that one adds.
LEMMA FusedOfOne ==
  ASSUME NEW q, Rankable(q), NEW hits, HitsFit(q, hits), NEW a, NEW r, NEW p, Counting(hits, a, r) = {p}
  PROVE  Fused(q, hits, a, r) = Contribution(q, p, hits[p][r].rank)
<1> DEFINE S == Counting(hits, a, r)
           w == PoolShare(q, hits, S, r)
<1>1. IsFiniteSet(S) /\ w \in [S -> Nat]
  BY SharesOfPools
<1>2. p \in S /\ S \ {p} = {} /\ w[p] = Contribution(q, p, hits[p][r].rank)
  BY DEF PoolShare
<1>3. Fused(q, hits, a, r) = Total(w, S)
  BY FusedIsTotal
<1> HIDE DEF w, S
<1>4. S \in SUBSET S
  OBVIOUS
<1>5. Total(w, S) = w[p] + Total(w, S \ {p})
  BY <1>1, <1>2, <1>4, TotalWithout
<1>6. IsFiniteSet({})
  BY FS_EmptySet
<1>7. Total(w, {}) = 0
  BY <1>6, TotalStep
<1>8. w[p] \in Nat
  BY <1>1, <1>2
<1> QED BY <1>2, <1>3, <1>5, <1>7, <1>8

\* With such weights, what only the AI found comes behind.
LEMMA StrongFirst ==
  ASSUME NEW q, WellAsked(q), NEW hits, HitsFit(q, hits), WithinLimits(q, hits), AIWeighsLeast(q),
         NEW x \in Found(hits, {"formal_exact", "file_hint", "semantic_vector"}),
         NEW y \in Found(hits, Active("hybrid")), y \notin Found(hits, Active("static_vector"))
  PROVE  Fusion(q, hits, "hybrid")[x] < Fusion(q, hits, "hybrid")[y]
<1>0. Rankable(q)
  BY AskedIsRankable
<1>1. PICK p \in {"formal_exact", "file_hint", "semantic_vector"} : x \in DOMAIN hits[p]
  BY DEF Found
<1>2. p \in Pool /\ "ai_inferred" \in Pool /\ Active("hybrid") = Pool
  BY DEF Pool, Active
<1>3. p \in Counting(hits, "hybrid", x) /\ x \in Found(hits, Active("hybrid"))
  BY <1>1, <1>2 DEF Counting, Found
<1>4. Counting(hits, "hybrid", y) = {"ai_inferred"} /\ y \in DOMAIN hits["ai_inferred"]
  <2>1. \A r \in Pool \ {"ai_inferred"} : y \notin DOMAIN hits[r]
    BY DEF Found, Active
  <2> QED BY <1>2, <2>1 DEF Counting, Found
<1>5. hits[p][x].rank \in Nat \ {0} /\ hits["ai_inferred"][y].rank \in Nat \ {0}
  BY <1>1, <1>2, <1>4 DEF HitsFit, PoolFits
<1>6. hits[p][x].rank <= q.policy.limit[p] /\ q.policy.limit[p] \in Nat \ {0}
  BY <1>1, <1>2 DEF WithinLimits, WellAsked
<1> DEFINE i == hits[p][x].rank
           j == hits["ai_inferred"][y].rank
           n == q.policy.limit[p]
<1>7. i \in Nat \ {0} /\ j \in Nat \ {0} /\ n \in Nat \ {0} /\ i <= n
  BY <1>5, <1>6
<1>8. /\ Contribution(q, p, i) <= Fused(q, hits, "hybrid", x)
      /\ Fused(q, hits, "hybrid", y) = Contribution(q, "ai_inferred", j)
  BY <1>0, <1>3, <1>4, FusedAtLeast, FusedOfOne
<1>9. Contribution(q, "ai_inferred", 1) < Contribution(q, p, n)
  BY DEF AIWeighsLeast
<1>10. Fused(q, hits, "hybrid", x) \in Nat /\ Fused(q, hits, "hybrid", y) \in Nat
  BY <1>0, FusedTyped
<1> HIDE DEF i, j, n
<1>11. /\ Contribution(q, p, n) <= Contribution(q, p, i) /\ Contribution(q, p, n) \in Nat /\ Contribution(q, p, i) \in Nat
  BY <1>0, <1>2, <1>7, ContributionFalls
<1>12. 1 \in Nat \ {0} /\ 1 <= j
  BY <1>7
<1>13. /\ Contribution(q, "ai_inferred", j) <= Contribution(q, "ai_inferred", 1)
       /\ Contribution(q, "ai_inferred", 1) \in Nat /\ Contribution(q, "ai_inferred", j) \in Nat
  BY <1>0, <1>2, <1>7, <1>12, ContributionFalls
<1>14. Fused(q, hits, "hybrid", y) < Fused(q, hits, "hybrid", x)
  BY <1>8, <1>9, <1>10, <1>11, <1>13
<1>15. Precedes(FusionKey(q, hits, "hybrid", Active("hybrid"), x), FusionKey(q, hits, "hybrid", Active("hybrid"), y))
  <2> DEFINE s == FusionKey(q, hits, "hybrid", Active("hybrid"), x)
             t == FusionKey(q, hits, "hybrid", Active("hybrid"), y)
  <2>1. s[1] = -Fused(q, hits, "hybrid", x) /\ t[1] = -Fused(q, hits, "hybrid", y) /\ 1 \in DOMAIN s
    BY DEF FusionKey
  <2> HIDE DEF s, t
  <2>2. s[1] < t[1] /\ \A m \in 1 .. 1 - 1 : s[m] = t[m]
    BY <1>10, <1>14, <2>1
  <2>3. Precedes(s, t)
    BY <2>1, <2>2 DEF Precedes
  <2> QED BY <2>3 DEF s, t
<1> QED BY <1>0, <1>3, <1>15, OrderOfKeys DEF Fusion

-----------------------------------------------------------------------------
(* What the arms of a unit are made of.                                    *)

\* what the pools of the unit k have found
Recalled(q, k, hits) ==
  \/ Open(q, k) = {} /\ hits = NoHits
  \/ /\ Open(q, k) # {}
     /\ \E outcome \in VectorOutcomes(q, q.units[k], "shadow") : hits = PoolsOf(q, q.units[k], outcome)

\* the arm a of a unit that may spend b
Armed(q, k, b, hits, noted, a) ==
  LET rank == Fusion(q, hits, a)
      s == Replayed(q, q.units[k].dims, b, rank)
  IN IF Open(q, k) = {} THEN Evidence(<<>>, <<>>, {BlockedNote})
     ELSE Evidence(rank, s, Noted(q, q.units[k], s, noted))

\* the arms in the order in which they are made
Arms == <<"static_vector", "hybrid">>

\* the arms are made of what was recalled for their unit
MadeInv ==
  /\ turn \in {"select", "compare"} =>
       /\ Recalled(query, work, pools)
       /\ \A n \in DOMAIN arms : arms[n] = Armed(query, work, share[work], pools, notes, Arms[n])
  /\ turn = "select" => ranked = Fusion(query, pools, arm)
  /\ \A k \in DOMAIN compared :
       /\ Recalled(query, k, compared[k].pools)
       /\ \E noted : \A a \in Arm :
            compared[k].arms[a] = Armed(query, k, share[k], compared[k].pools, noted, a)

\* Nothing has been compared at the start.
LEMMA InitMade == PipelineInit => MadeInv
<1> SUFFICES ASSUME PipelineInit PROVE MadeInv
  OBVIOUS
<1>1. turn \in {"idle", "asked"} /\ compared = <<>>
  BY DEF PipelineInit, Unasked, RetrievalInit
<1>2. DOMAIN compared = {}
  BY <1>1
<1> QED BY <1>1, <1>2 DEF MadeInv

\* Recalling for an arm gives it pools and a ranking.
LEMMA RecallMakes == EvidenceInv /\ MadeInv /\ Recall => MadeInv'
<1> SUFFICES ASSUME EvidenceInv, MadeInv, Recall PROVE MadeInv'
  OBVIOUS
<1>1. /\ turn = "recall" /\ turn' = "select" /\ UNCHANGED <<query, share, work, arms, compared>>
      /\ ranked' = Fusion(query, pools', "static_vector") /\ arm' = "static_vector"
  BY DEF Recall, Begin
<1>2. arms = <<>>
  BY <1>1 DEF EvidenceInv, ArmsInv
<1>3. DOMAIN arms' = {}
  BY <1>1, <1>2
<1>4. Recalled(query, work, pools')
  BY DEF Recall, Recalled
<1> QED BY <1>1, <1>3, <1>4 DEF MadeInv

\* Finishing an arm makes it of those, and the next arm starts of the same pools.
LEMMA FinishMakes == EvidenceInv /\ MadeInv /\ FinishArm => MadeInv'
<1> SUFFICES ASSUME EvidenceInv, MadeInv, FinishArm PROVE MadeInv'
  OBVIOUS
<1> DEFINE u == query.units[work]
           made == IF Open(query, work) = {} THEN Evidence(<<>>, <<>>, {BlockedNote})
                   ELSE Evidence(ranked, status, Noted(query, u, status, notes))
<1>1. /\ turn = "select" /\ UNCHANGED <<query, share, work, pools, notes, compared>>
      /\ \/ /\ ArmHolds(query, work, ranked, status)
            /\ arms' = Append(arms, made)
            /\ turn' = IF arm = "hybrid" THEN "compare" ELSE turn
            /\ IF arm = "hybrid" THEN UNCHANGED selecting ELSE Begin(pools, "hybrid")
         \/ turn' = "raised"
  BY DEF FinishArm, recall
<1>2. CASE turn' = "raised"
  BY <1>1, <1>2 DEF MadeInv
<1>3. CASE /\ ArmHolds(query, work, ranked, status)
           /\ arms' = Append(arms, made)
           /\ turn' = IF arm = "hybrid" THEN "compare" ELSE turn
           /\ IF arm = "hybrid" THEN UNCHANGED selecting ELSE Begin(pools, "hybrid")
  <2>1. made = Armed(query, work, share[work], pools, notes, arm)
    <3>1. ranked = Fusion(query, pools, arm)
      BY <1>1 DEF MadeInv
    <3>2. status = Replayed(query, u.dims, share[work], ranked)
      BY <1>3 DEF ArmHolds
    <3> QED BY <3>1, <3>2 DEF Armed
  <2>2. PICK S : arms \in Seq(S)
    BY DEF EvidenceInv, ArmsInv
  <2>3. arms' = Append(arms, made)
    BY <1>3
  <2> HIDE DEF made
  <2>4. /\ Len(arms) \in Nat
        /\ DOMAIN arms' = 1 .. Len(arms) + 1 /\ DOMAIN arms = 1 .. Len(arms)
        /\ arms'[Len(arms) + 1] = made /\ \A n \in 1 .. Len(arms) : arms'[n] = arms[n]
    BY <2>2, <2>3, OneMore
  <2>5. arm \in Arm /\ Len(arms) = IF arm = "hybrid" THEN 1 ELSE 0
    BY <1>1 DEF EvidenceInv, ArmsInv
  <2>6. Arms[Len(arms) + 1] = arm
    BY <2>5 DEF Arm, Arms
  <2>7. ASSUME NEW n \in DOMAIN arms'
        PROVE  arms'[n] = Armed(query, work, share[work], pools, notes, Arms[n])
    <3>1. n \in 1 .. Len(arms) \/ n = Len(arms) + 1
      BY <2>4
    <3> QED BY <1>1, <2>1, <2>4, <2>6, <3>1 DEF MadeInv
  <2>8. CASE arm = "hybrid"
    <3>1. turn' = "compare"
      BY <1>3, <2>8
    <3> QED BY <1>1, <2>7, <3>1 DEF MadeInv
  <2>9. CASE arm # "hybrid"
    <3>1. turn' = "select" /\ arm' = "hybrid" /\ ranked' = Fusion(query, pools, "hybrid")
      BY <1>1, <1>3, <2>9 DEF Begin
    <3> QED BY <1>1, <2>7, <3>1 DEF MadeInv
  <2> QED BY <2>8, <2>9
<1> QED BY <1>1, <1>2, <1>3

\* Comparing the arms of a unit keeps what they are made of.
LEMMA CompareMakes == EvidenceInv /\ MadeInv /\ CompareUnit => MadeInv'
<1> SUFFICES ASSUME EvidenceInv, MadeInv, CompareUnit PROVE MadeInv'
  OBVIOUS
<1> DEFINE made == [pools |-> pools, arms |-> Made]
<1>1. /\ turn = "compare" /\ UNCHANGED <<query, share>>
      /\ \/ turn' = "raised" /\ UNCHANGED <<work, arms, compared>>
         \/ /\ compared' = Append(compared, made)
            /\ turn' = IF work = Len(share) THEN "bind" ELSE "recall"
  BY DEF CompareUnit
<1>2. CASE turn' = "raised" /\ UNCHANGED <<work, arms, compared>>
  BY <1>1, <1>2 DEF MadeInv
<1>3. CASE /\ compared' = Append(compared, made)
           /\ turn' = IF work = Len(share) THEN "bind" ELSE "recall"
  <2>1. \A a \in Arm : made.arms[a] = Armed(query, work, share[work], pools, notes, a)
    <3>1. PICK S : arms \in Seq(S)
      BY DEF EvidenceInv, ArmsInv
    <3>2. 1 \in DOMAIN arms /\ 2 \in DOMAIN arms
      BY <1>1, <3>1 DEF EvidenceInv, ArmsInv
    <3>3. made.arms["static_vector"] = arms[1] /\ made.arms["hybrid"] = arms[2]
      BY DEF Made
    <3>4. Arms[1] = "static_vector" /\ Arms[2] = "hybrid"
      BY DEF Arms
    <3> HIDE DEF made
    <3> QED BY <1>1, <3>2, <3>3, <3>4 DEF MadeInv, Arm
  <2>2. made.pools = pools /\ Recalled(query, work, pools)
    BY <1>1 DEF MadeInv
  <2> HIDE DEF made
  <2>3. PICK S : compared \in Seq(S)
    BY DEF EvidenceInv
  <2>4. /\ Len(compared) \in Nat
        /\ DOMAIN compared' = 1 .. Len(compared) + 1 /\ DOMAIN compared = 1 .. Len(compared)
        /\ compared'[Len(compared) + 1] = made
        /\ \A k \in 1 .. Len(compared) : compared'[k] = compared[k]
    BY <1>3, <2>3, OneMore
  <2>5. work = Len(compared) + 1
    BY DEF EvidenceInv
  <2>6. ASSUME NEW k \in DOMAIN compared'
        PROVE  /\ Recalled(query, k, compared'[k].pools)
               /\ \E noted : \A a \in Arm :
                    compared'[k].arms[a] = Armed(query, k, share[k], compared'[k].pools, noted, a)
    <3>1. k \in 1 .. Len(compared) \/ k = work
      BY <2>4, <2>5
    <3>2. CASE k = work
      BY <2>1, <2>2, <2>4, <2>5, <3>2
    <3>3. CASE k \in 1 .. Len(compared)
      <4>1. compared'[k] = compared[k] /\ k \in DOMAIN compared
        BY <2>4, <3>3
      <4>2. /\ Recalled(query, k, compared[k].pools)
            /\ \E noted : \A a \in Arm :
                 compared[k].arms[a] = Armed(query, k, share[k], compared[k].pools, noted, a)
        BY <4>1 DEF MadeInv
      <4> QED BY <4>1, <4>2, Zenon
    <3> QED BY <3>1, <3>2, <3>3
  <2>7. turn' \in {"bind", "recall"}
    BY <1>3
  <2> QED BY <1>1, <2>6, <2>7 DEF MadeInv
<1> QED BY <1>1, <1>2, <1>3

\* No step makes an arm of anything else.
LEMMA NextMade == EvidenceInv /\ MadeInv /\ [PipelineNext]_pipelineVars => MadeInv'
<1> SUFFICES ASSUME EvidenceInv, MadeInv, [PipelineNext]_pipelineVars PROVE MadeInv'
  OBVIOUS
<1>1. CASE AnalysisStep \/ FileStep \/ UNCHANGED pipelineVars
  <2>1. UNCHANGED <<query, turn, share, work, pools, notes, arm, ranked, arms, compared>>
    BY <1>1 DEF AnalysisStep, FileStep, pipelineVars, retrievalVars, recall, selecting
  <2> QED BY <2>1 DEF MadeInv
<1>2. ASSUME turn' \notin {"select", "compare"}, compared = <<>>, compared' = compared PROVE MadeInv'
  <2>1. DOMAIN compared' = {}
    BY <1>2
  <2> QED BY <1>2, <2>1 DEF MadeInv
<1>3. CASE AskForEvidence \/ BuildRequest \/ RetrieveUnit
  <2>1. turn \in {"idle", "asked", "control"} /\ turn' \notin {"select", "compare"} /\ compared' = compared
    BY <1>3 DEF AskForEvidence, BuildRequest, RetrieveUnit
  <2> QED BY <1>2, <2>1 DEF EvidenceInv
<1>4. CASE ServeDimension \/ \E r \in DOMAIN ranked : Consider(r)
  <2>1. UNCHANGED <<query, turn, share, work, pools, notes, arm, ranked, arms, compared>>
    BY <1>4 DEF ServeDimension, Consider, recall
  <2> QED BY <2>1 DEF MadeInv
<1>5. CASE Conclude \/ Answered
  <2>1. /\ UNCHANGED <<query, share, work, pools, notes, arm, ranked, arms, compared>>
        /\ turn' \notin {"select", "compare"}
    BY <1>5 DEF Conclude, Answered, retrievalVars, recall, selecting
  <2> QED BY <2>1 DEF MadeInv
<1> QED BY <1>1, <1>3, <1>4, <1>5, RecallMakes, FinishMakes, CompareMakes
        DEF PipelineNext, RetrievalStep, RetrievalNext

\* An arm ranks what was found for it.
LEMMA FusionDomain ==
  ASSUME NEW q, Rankable(q), NEW hits, HitsFit(q, hits), NEW a
  PROVE  DOMAIN Fusion(q, hits, a) = Found(hits, Active(a))
<1>1. /\ Keyed(FusionKeys(q, hits, a, Active(a)))
      /\ DOMAIN FusionKeys(q, hits, a, Active(a)) = Found(hits, Active(a))
      /\ Order(q, hits, a, Active(a)) = Positions(FusionKeys(q, hits, a, Active(a)))
  BY FusionIsKeyed
<1>2. DOMAIN Positions(FusionKeys(q, hits, a, Active(a))) = Found(hits, Active(a))
  BY <1>1, PositionsList
<1> QED BY <1>1, <1>2 DEF Fusion

\* The static arm is that of a unit of which the AI found nothing.
LEMMA StaticWithoutAI ==
  ASSUME NEW q, NEW u, NEW C, IsUnit(u, C), NEW outcome, NEW found,
         found = IF VectorPool(q, u, outcome) = <<>> THEN "none" ELSE "found"
  PROVE  Fusion(q, PoolsOf(q, u, outcome), "static_vector")
           = Fusion(q, PoolsOf(q, [u EXCEPT !.ai = {}], found), "static_vector")
<1> DEFINE v == [u EXCEPT !.ai = {}]
           hits == PoolsOf(q, u, outcome)
           other == PoolsOf(q, v, found)
<1>1. VectorPool(q, v, found) = VectorPool(q, u, outcome)
  <2>1. VectorPool(q, v, found) = VectorPool(q, u, found)
    BY VectorWithoutAI
  <2>2. CASE VectorPool(q, u, outcome) = <<>>
    <3>1. found # "found"
      BY <2>2
    <3> QED BY <2>1, <2>2, <3>1, VectorsSilent
  <2>3. CASE VectorPool(q, u, outcome) # <<>>
    <3>1. outcome = "found" /\ found = "found"
      BY <2>3, VectorsSilent
    <3> QED BY <2>1, <3>1
  <2> QED BY <2>2, <2>3
<1>2. \A p \in {"formal_exact", "file_hint", "text_keyword"} : StructuredPool(q, v, p) = StructuredPool(q, u, p)
  BY StructuredWithoutAI
<1> HIDE DEF v
<1>3. ASSUME NEW p \in Active("static_vector") PROVE hits[p] = other[p]
  <2>1. p \in Pool /\ p \in {"formal_exact", "file_hint", "text_keyword", "semantic_vector"}
    BY DEF Active, Pool
  <2>2. /\ hits[p] = IF p = "semantic_vector" THEN VectorPool(q, u, outcome) ELSE StructuredPool(q, u, p)
        /\ other[p] = IF p = "semantic_vector" THEN VectorPool(q, v, found) ELSE StructuredPool(q, v, p)
    BY <2>1 DEF PoolsOf
  <2> QED BY <1>1, <1>2, <2>1, <2>2
<1> HIDE DEF hits, other
<1>4. Fusion(q, hits, "static_vector") = Fusion(q, other, "static_vector")
  BY <1>3, StaticDepends
<1> QED BY <1>4 DEF hits, other, v

\* the arms of a unit, as AIOnlyAdds says
OnlyAdded(q, u, hits, static, hybrid, opened) ==
  LET found == IF hits["semantic_vector"] = <<>> THEN "none" ELSE "found"
      plain == DOMAIN hybrid.rank \ DOMAIN hits["ai_inferred"]
      only == DOMAIN hybrid.rank \ DOMAIN static.rank
      strong == Found(hits, {"formal_exact", "file_hint", "semantic_vector"})
  IN /\ opened =>
          static.rank = Fusion(q, PoolsOf(q, [u EXCEPT !.ai = {}], found), "static_vector")
     /\ \A x, y \in plain : hybrid.rank[x] < hybrid.rank[y] <=> static.rank[x] < static.rank[y]
     /\ AIWeighsLeast(q) => \A x \in strong, y \in only : hybrid.rank[x] < hybrid.rank[y]
     /\ u.ai = {} => static = hybrid

\* The arms of a unit that may be asked about.
LEMMA OpenAdds ==
  ASSUME NEW q, WellAsked(q), NEW u, IsUnit(u, DOMAIN q.clauses), NEW outcome, NEW hits, hits = PoolsOf(q, u, outcome),
         NEW static, NEW hybrid,
         static.rank = Fusion(q, hits, "static_vector"), hybrid.rank = Fusion(q, hits, "hybrid"),
         static.rank = hybrid.rank => static = hybrid
  PROVE  OnlyAdded(q, u, hits, static, hybrid, TRUE)
<1>1. Rankable(q) /\ HitsFit(q, hits) /\ WithinLimits(q, hits)
  BY AskedIsRankable, PoolsFit, PoolsWithin
<1>2. /\ DOMAIN hybrid.rank = Found(hits, Active("hybrid"))
      /\ DOMAIN static.rank = Found(hits, Active("static_vector"))
  BY <1>1, FusionDomain
<1>3. /\ hits["semantic_vector"] = VectorPool(q, u, outcome)
      /\ hits["ai_inferred"] = StructuredPool(q, u, "ai_inferred")
  BY DEF PoolsOf, Pool
<1> DEFINE found == IF hits["semantic_vector"] = <<>> THEN "none" ELSE "found"
<1>4. static.rank = Fusion(q, PoolsOf(q, [u EXCEPT !.ai = {}], found), "static_vector")
  <2>1. found = IF VectorPool(q, u, outcome) = <<>> THEN "none" ELSE "found"
    BY <1>3
  <2> HIDE DEF found
  <2>2. Fusion(q, PoolsOf(q, u, outcome), "static_vector")
          = Fusion(q, PoolsOf(q, [u EXCEPT !.ai = {}], found), "static_vector")
    BY <2>1, StaticWithoutAI
  <2> QED BY <2>2
<1>5. \A x, y \in DOMAIN hybrid.rank \ DOMAIN hits["ai_inferred"] :
        hybrid.rank[x] < hybrid.rank[y] <=> static.rank[x] < static.rank[y]
  BY <1>1, <1>2, PlainOrder
<1>6. AIWeighsLeast(q) =>
        \A x \in Found(hits, {"formal_exact", "file_hint", "semantic_vector"}),
           y \in DOMAIN hybrid.rank \ DOMAIN static.rank : hybrid.rank[x] < hybrid.rank[y]
  BY <1>1, <1>2, StrongFirst
<1>7. u.ai = {} => static = hybrid
  <2> SUFFICES ASSUME u.ai = {} PROVE static = hybrid
    OBVIOUS
  <2>1. hits["ai_inferred"] = <<>>
    BY <1>3, NoAIPool
  <2>2. DOMAIN hits["ai_inferred"] = {}
    BY <2>1
  <2> QED BY <2>2, NoAIOrder
<1> QED BY <1>4, <1>5, <1>6, <1>7 DEF OnlyAdded

\* The arms of a blocked unit are empty.
LEMMA BlockedAdds ==
  ASSUME NEW q, NEW u, NEW static, NEW hybrid, static = hybrid, hybrid.rank = <<>>
  PROVE  OnlyAdded(q, u, NoHits, static, hybrid, FALSE)
<1>1. DOMAIN hybrid.rank = {}
  OBVIOUS
<1> QED BY <1>1 DEF OnlyAdded

\* The AI only adds, for what was made as it was.
LEMMA OnlyAdds == ShareInv /\ MadeInv => AIOnlyAdds
<1> SUFFICES ASSUME ShareInv, MadeInv, turn = "returned", NEW k \in DOMAIN compared
             PROVE  OnlyAdded(query, query.units[k], compared[k].pools, compared[k].arms.static_vector,
                              compared[k].arms.hybrid, Open(query, k) # {})
  BY DEF AIOnlyAdds, OnlyAdded
<1> DEFINE u == query.units[k]
           hits == compared[k].pools
           static == compared[k].arms.static_vector
           hybrid == compared[k].arms.hybrid
<1>1. WellAsked(query) /\ SharedOut /\ k \in DOMAIN share
  <2>1. "static_vector" \in Arm
    BY DEF Arm
  <2> QED BY <2>1 DEF ShareInv
<1>2. IsUnit(u, DOMAIN query.clauses)
  BY <1>1, SharedUnits
<1>3. Recalled(query, k, hits)
  BY DEF MadeInv
<1>4. PICK noted : \A a \in Arm : compared[k].arms[a] = Armed(query, k, share[k], hits, noted, a)
  BY DEF MadeInv
<1>5. /\ static = Armed(query, k, share[k], hits, noted, "static_vector")
      /\ hybrid = Armed(query, k, share[k], hits, noted, "hybrid")
  BY <1>4 DEF Arm
<1> HIDE DEF hits, static, hybrid
<1>6. CASE Open(query, k) = {}
  <2>1. hits = NoHits
    BY <1>3, <1>6 DEF Recalled
  <2>2. static = hybrid /\ hybrid.rank = <<>>
    BY <1>5, <1>6 DEF Armed, Evidence
  <2>3. OnlyAdded(query, u, NoHits, static, hybrid, FALSE)
    BY <2>2, BlockedAdds
  <2> QED BY <1>6, <2>1, <2>3 DEF hits, static, hybrid
<1>7. CASE Open(query, k) # {}
  <2>1. PICK outcome : hits = PoolsOf(query, u, outcome)
    BY <1>3, <1>7 DEF Recalled
  <2>2. static.rank = Fusion(query, hits, "static_vector") /\ hybrid.rank = Fusion(query, hits, "hybrid")
    BY <1>5, <1>7 DEF Armed, Evidence
  <2>3. static.rank = hybrid.rank => static = hybrid
    BY <1>5, <1>7, <2>2 DEF Armed
  <2>4. OnlyAdded(query, u, hits, static, hybrid, TRUE)
    BY <1>1, <1>2, <2>1, <2>2, <2>3, OpenAdds
  <2> QED BY <1>7, <2>4 DEF hits, static, hybrid
<1> QED BY <1>6, <1>7

\* The AI only adds, for every request, answer of the vector search and choice of
\* candidates.  The static arm ranks and selects as if the AI had found nothing;
\* the AI changes nothing in the order of the clauses that it did not find; and
\* with weights by which its best hit counts for less than the last of the
\* facts, the file or the vectors, what it alone found comes behind all theirs.
THEOREM AIAddsOnly == PipelineSpec => []AIOnlyAdds
<1>1. PipelineInit => EvidenceInv /\ ShareInv /\ MadeInv
  BY InitEvidence, InitShares, InitMade
<1>2. EvidenceInv /\ ShareInv /\ MadeInv /\ [PipelineNext]_pipelineVars => (EvidenceInv /\ ShareInv /\ MadeInv)'
  BY NextEvidence, NextShares, NextMade
<1> QED BY <1>1, <1>2, OnlyAdds, PTL DEF PipelineSpec

-----------------------------------------------------------------------------
(* The two rankings of the static arm.                                     *)

\* Keys in the same order give the same positions.
LEMMA SamePositions ==
  ASSUME NEW key, Keyed(key), NEW other, Keyed(other), DOMAIN other = DOMAIN key,
         \A x, y \in DOMAIN key : Precedes(key[x], key[y]) => Precedes(other[x], other[y])
  PROVE  Positions(key) = Positions(other)
<1> DEFINE D == DOMAIN key
<1>1. PICK n \in Nat : /\ \A z \in D : IsKey(key[z], n)
                       /\ \A y, z \in D : y # z => \E i \in 1 .. n : key[y][i] # key[z][i]
  BY DEF Keyed
<1>2. PICK m \in Nat : \A z \in D : IsKey(other[z], m)
  BY DEF Keyed
<1>3. ASSUME NEW x \in D, NEW y \in D, Precedes(other[x], other[y]) PROVE Precedes(key[x], key[y])
  <2>1. x # y
    BY <1>2, <1>3, KeysAreStrict
  <2>2. Precedes(key[x], key[y]) \/ Precedes(key[y], key[x])
    BY <1>1, <2>1, KeysAreOrdered
  <2>3. ASSUME Precedes(other[y], other[x]) PROVE FALSE
    <3>1. Precedes(other[x], other[x])
      BY <1>2, <1>3, <2>3, KeysAreTransitive
    <3> QED BY <1>2, <3>1, KeysAreStrict
  <2> QED BY <2>2, <2>3
<1>4. ASSUME NEW x \in D
      PROVE  {y \in D : Precedes(key[y], key[x])} = {y \in D : Precedes(other[y], other[x])}
  BY <1>3
<1>5. /\ Positions(key) = [x \in D |-> 1 + Cardinality({y \in D : Precedes(key[y], key[x])})]
      /\ Positions(other) = [x \in D |-> 1 + Cardinality({y \in D : Precedes(other[y], other[x])})]
  BY DEF Positions
<1> HIDE DEF D
<1> QED BY <1>4, <1>5

\* x is before y in the static arm for the reasons that TieForTheAI names
Ties(q, hits, x, y) ==
  /\ Fused(q, hits, "static_vector", x) = Fused(q, hits, "static_vector", y)
  /\ \A p \in Active("static_vector") : PathScore(hits, p, x) = PathScore(hits, p, y)
  /\ PathScore(hits, "ai_inferred", x) < PathScore(hits, "ai_inferred", y)

\* the keys of the static arm, without and with the scores of the AI
Blind(q, hits, r) == FusionKey(q, hits, "static_vector", Active("static_vector"), r)
\* and with the AI's score counted, as the check ranks them
Seeing(q, hits, r) == FusionKey(q, hits, "static_vector", Pool, r)

\* They differ in one place.
LEMMA BlindAndSeeing ==
  ASSUME NEW q, NEW hits, NEW r
  PROVE  /\ Blind(q, hits, r)[1] = -Fused(q, hits, "static_vector", r)
         /\ Blind(q, hits, r)[2] = IF r \in DOMAIN hits["formal_exact"] THEN 0 ELSE 1
         /\ Blind(q, hits, r)[3] = -PathScore(hits, "formal_exact", r)
         /\ Blind(q, hits, r)[4] = -PathScore(hits, "semantic_vector", r)
         /\ Blind(q, hits, r)[5] = -PathScore(hits, "file_hint", r)
         /\ Blind(q, hits, r)[6] = -PathScore(hits, "text_keyword", r)
         /\ Blind(q, hits, r)[7] = 100
         /\ Seeing(q, hits, r)[7] = -PathScore(hits, "ai_inferred", r)
         /\ \A i \in 1 .. 10 : i # 7 => Seeing(q, hits, r)[i] = Blind(q, hits, r)[i]
<1>1. /\ "ai_inferred" \notin Active("static_vector") /\ "ai_inferred" \in Pool
      /\ \A p \in {"formal_exact", "file_hint", "text_keyword", "semantic_vector"} :
           p \in Active("static_vector") /\ p \in Pool
  BY DEF Active, Pool
<1> DEFINE c == IF r \in DOMAIN hits["formal_exact"] THEN 0 ELSE 1
           f == -Fused(q, hits, "static_vector", r)
           s3 == -PathScore(hits, "formal_exact", r)
           s4 == -PathScore(hits, "semantic_vector", r)
           s5 == -PathScore(hits, "file_hint", r)
           s6 == -PathScore(hits, "text_keyword", r)
           s7 == -PathScore(hits, "ai_inferred", r)
           k8 == Unknown(q, r)
           k9 == -q.clauses[r].authority
<1>2. /\ Blind(q, hits, r) = <<f, c, s3, s4, s5, s6, -(-100), k8, k9, r>>
      /\ Seeing(q, hits, r) = <<f, c, s3, s4, s5, s6, s7, k8, k9, r>>
  BY <1>1 DEF Blind, Seeing, FusionKey
<1> HIDE DEF c, f, s3, s4, s5, s6, s7, k8, k9
<1>3. /\ Blind(q, hits, r)[1] = f /\ Blind(q, hits, r)[2] = c /\ Blind(q, hits, r)[3] = s3
      /\ Blind(q, hits, r)[4] = s4 /\ Blind(q, hits, r)[5] = s5 /\ Blind(q, hits, r)[6] = s6
      /\ Blind(q, hits, r)[7] = 100 /\ Seeing(q, hits, r)[7] = s7
  <2>1. -(-100) = 100
    <3>1. ASSUME NEW z \in Int PROVE -(-z) = z
      OBVIOUS
    <3>2. 100 \in Int
      OBVIOUS
    <3> QED BY <3>1, <3>2
  <2> DEFINE m == -(-100)
  <2>2. Blind(q, hits, r) = <<f, c, s3, s4, s5, s6, m, k8, k9, r>> /\ m = 100
    BY <1>2, <2>1
  <2> HIDE DEF m
  <2>3. Blind(q, hits, r)[7] = m
    BY <2>2
  <2>5. Seeing(q, hits, r)[7] = s7
    BY <1>2
  <2>4. /\ Blind(q, hits, r)[1] = f /\ Blind(q, hits, r)[2] = c /\ Blind(q, hits, r)[3] = s3
        /\ Blind(q, hits, r)[4] = s4 /\ Blind(q, hits, r)[5] = s5 /\ Blind(q, hits, r)[6] = s6
    BY <2>2
  <2> QED BY <2>2, <2>3, <2>4, <2>5
<1>4. ASSUME NEW i \in 1 .. 10, i # 7 PROVE Seeing(q, hits, r)[i] = Blind(q, hits, r)[i]
  <2>1. i = 1 \/ i = 2 \/ i = 3 \/ i = 4 \/ i = 5 \/ i = 6 \/ i = 8 \/ i = 9 \/ i = 10
    BY <1>4
  <2> QED BY <1>2, <2>1
<1> QED BY <1>3, <1>4 DEF c, f, s3, s4, s5, s6, s7

\* Without a tie the scores of the AI keep the order.
LEMMA NoTieKeepsOrder ==
  ASSUME NEW q, Rankable(q), NEW hits, HitsFit(q, hits),
         NEW x \in Found(hits, Active("static_vector")), NEW y \in Found(hits, Active("static_vector")),
         Precedes(Blind(q, hits, x), Blind(q, hits, y)), ~Ties(q, hits, x, y)
  PROVE  Precedes(Seeing(q, hits, x), Seeing(q, hits, y))
<1> DEFINE bx == Blind(q, hits, x)
           by == Blind(q, hits, y)
           sx == Seeing(q, hits, x)
           sy == Seeing(q, hits, y)
<1>1. IsKey(bx, 10) /\ IsKey(by, 10) /\ IsKey(sx, 10) /\ IsKey(sy, 10)
  BY FusionKeyTyped DEF Blind, Seeing
<1>2. PICK n \in 1 .. 10 : bx[n] < by[n] /\ \A m \in 1 .. n - 1 : bx[m] = by[m]
  BY <1>1 DEF Precedes, IsKey
<1>3. /\ \A i \in 1 .. 10 : i # 7 => sx[i] = bx[i] /\ sy[i] = by[i]
      /\ bx[7] = 100 /\ by[7] = 100
      /\ sx[7] = -PathScore(hits, "ai_inferred", x) /\ sy[7] = -PathScore(hits, "ai_inferred", y)
  BY BlindAndSeeing
<1>4. PathScore(hits, "ai_inferred", x) \in Int /\ PathScore(hits, "ai_inferred", y) \in Int
  BY PathScoreTyped DEF Pool
<1>5. CASE n < 7
  <2>1. n # 7 /\ \A m \in 1 .. n - 1 : m \in 1 .. 10 /\ m # 7
    BY <1>5
  <2>2. n \in DOMAIN sx
    BY <1>1 DEF IsKey
  <2> HIDE DEF bx, by, sx, sy
  <2>3. sx[n] < sy[n] /\ \A m \in 1 .. n - 1 : sx[m] = sy[m]
    BY <1>2, <1>3, <2>1
  <2> QED BY <2>2, <2>3 DEF Precedes, sx, sy
<1>6. CASE n > 7
  <2>1. \A m \in 1 .. 6 : bx[m] = by[m]
    BY <1>2, <1>6
  <2>2. bx[1] = by[1] /\ bx[3] = by[3] /\ bx[4] = by[4] /\ bx[5] = by[5] /\ bx[6] = by[6]
    BY <2>1
  <2>3. /\ -Fused(q, hits, "static_vector", x) = -Fused(q, hits, "static_vector", y)
        /\ -PathScore(hits, "formal_exact", x) = -PathScore(hits, "formal_exact", y)
        /\ -PathScore(hits, "semantic_vector", x) = -PathScore(hits, "semantic_vector", y)
        /\ -PathScore(hits, "file_hint", x) = -PathScore(hits, "file_hint", y)
        /\ -PathScore(hits, "text_keyword", x) = -PathScore(hits, "text_keyword", y)
    BY <2>2, BlindAndSeeing
  <2>4. Fused(q, hits, "static_vector", x) = Fused(q, hits, "static_vector", y)
    <3>1. Fused(q, hits, "static_vector", x) \in Nat /\ Fused(q, hits, "static_vector", y) \in Nat
      BY FusedTyped
    <3> QED BY <2>3, <3>1
  <2>5. ASSUME NEW p \in Active("static_vector") PROVE PathScore(hits, p, x) = PathScore(hits, p, y)
    <3>1. p \in {"formal_exact", "file_hint", "text_keyword", "semantic_vector"} /\ p \in Pool
      BY DEF Active, Pool
    <3>2. PathScore(hits, p, x) \in Int /\ PathScore(hits, p, y) \in Int
      BY <3>1, PathScoreTyped
    <3>3. -PathScore(hits, p, x) = -PathScore(hits, p, y)
      BY <2>3, <3>1
    <3> QED BY <3>2, <3>3
  <2>6. ~(PathScore(hits, "ai_inferred", x) < PathScore(hits, "ai_inferred", y))
    BY <2>4, <2>5 DEF Ties
  <2>7. sx[7] = sy[7] \/ sx[7] < sy[7]
    BY <1>3, <1>4, <2>6
  <2>8. \A m \in 1 .. 6 : sx[m] = sy[m]
    BY <1>3, <2>1
  <2>9. 7 \in DOMAIN sx /\ n \in DOMAIN sx
    BY <1>1 DEF IsKey
  <2>10. sx[n] < sy[n] /\ \A m \in 1 .. n - 1 : m # 7 => sx[m] = sy[m]
    BY <1>2, <1>3, <1>6
  <2> HIDE DEF bx, by, sx, sy
  <2>11. CASE sx[7] < sy[7]
    <3>1. \A m \in 1 .. 7 - 1 : sx[m] = sy[m]
      BY <2>8
    <3> QED BY <2>9, <2>11, <3>1 DEF Precedes, sx, sy
  <2>12. CASE sx[7] = sy[7]
    <3>1. \A m \in 1 .. n - 1 : sx[m] = sy[m]
      BY <2>10, <2>12
    <3> QED BY <2>9, <2>10, <3>1 DEF Precedes, sx, sy
  <2> QED BY <2>7, <2>11, <2>12
<1> QED BY <1>2, <1>3, <1>5, <1>6

\* scores of the facts are no less than nothing
FactsCount(hits) == \A r \in DOMAIN hits["formal_exact"] : hits["formal_exact"][r].score \in Nat

\* With a tie the scores of the AI turn the order.
LEMMA TieTurnsOrder ==
  ASSUME NEW q, Rankable(q), NEW hits, HitsFit(q, hits), FactsCount(hits),
         NEW x \in Found(hits, Active("static_vector")), NEW y \in Found(hits, Active("static_vector")),
         Ties(q, hits, x, y)
  PROVE  Precedes(Seeing(q, hits, y), Seeing(q, hits, x))
<1> DEFINE sx == Seeing(q, hits, x)
           sy == Seeing(q, hits, y)
<1>1. IsKey(sx, 10) /\ IsKey(sy, 10)
  BY FusionKeyTyped DEF Seeing
<1>2. \A i \in 1 .. 10 : i # 7 => sx[i] = Blind(q, hits, x)[i] /\ sy[i] = Blind(q, hits, y)[i]
  BY BlindAndSeeing
<1>3. sx[7] = -PathScore(hits, "ai_inferred", x) /\ sy[7] = -PathScore(hits, "ai_inferred", y)
  BY BlindAndSeeing
<1>4. PathScore(hits, "ai_inferred", x) \in Int /\ PathScore(hits, "ai_inferred", y) \in Int
  BY PathScoreTyped DEF Pool
<1>5. sy[7] < sx[7]
  BY <1>3, <1>4 DEF Ties
<1>6. \A p \in {"formal_exact", "file_hint", "text_keyword", "semantic_vector"} :
        PathScore(hits, p, x) = PathScore(hits, p, y)
  BY DEF Ties, Active, Pool
<1>7. x \in DOMAIN hits["formal_exact"] <=> y \in DOMAIN hits["formal_exact"]
  <2>1. PathScore(hits, "formal_exact", x) = PathScore(hits, "formal_exact", y)
    BY <1>6
  <2>2. ASSUME NEW v, NEW w, v \in DOMAIN hits["formal_exact"], w \notin DOMAIN hits["formal_exact"]
        PROVE  PathScore(hits, "formal_exact", v) # PathScore(hits, "formal_exact", w)
    <3>1. PathScore(hits, "formal_exact", v) \in Nat
      BY <2>2 DEF FactsCount, PathScore
    <3>2. PathScore(hits, "formal_exact", w) = -100
      BY <2>2 DEF PathScore
    <3> QED BY <3>1, <3>2
  <2> QED BY <2>1, <2>2
<1>8. Blind(q, hits, y)[1] = Blind(q, hits, x)[1]
  BY BlindAndSeeing DEF Ties
<1>9. Blind(q, hits, y)[2] = Blind(q, hits, x)[2]
  BY <1>7, BlindAndSeeing
<1>10. /\ Blind(q, hits, y)[3] = Blind(q, hits, x)[3] /\ Blind(q, hits, y)[4] = Blind(q, hits, x)[4]
       /\ Blind(q, hits, y)[5] = Blind(q, hits, x)[5] /\ Blind(q, hits, y)[6] = Blind(q, hits, x)[6]
  BY <1>6, BlindAndSeeing
<1>11. ASSUME NEW m \in 1 .. 7 - 1 PROVE sy[m] = sx[m]
  <2>1. m = 1 \/ m = 2 \/ m = 3 \/ m = 4 \/ m = 5 \/ m = 6
    OBVIOUS
  <2> QED BY <1>2, <1>8, <1>9, <1>10, <2>1
<1>12. 7 \in DOMAIN sy
  BY <1>1 DEF IsKey
<1> HIDE DEF sx, sy
<1> QED BY <1>5, <1>11, <1>12 DEF Precedes, sx, sy

\* The check of the static arm finds its order if and only if there is no tie.
LEMMA OnlyTiesTurn ==
  ASSUME NEW q, Rankable(q), NEW hits, HitsFit(q, hits), FactsCount(hits)
  PROVE  Order(q, hits, "static_vector", Pool) = Fusion(q, hits, "static_vector")
           <=> ~TieForTheAI(q, hits)
<1> DEFINE A == Active("static_vector")
           R == Found(hits, A)
           key == FusionKeys(q, hits, "static_vector", A)
           other == FusionKeys(q, hits, "static_vector", Pool)
           rank == Fusion(q, hits, "static_vector")
           order == Order(q, hits, "static_vector", Pool)
<1>1. Keyed(key) /\ DOMAIN key = R /\ rank = Positions(key)
  BY FusionIsKeyed DEF Fusion
<1>2. Keyed(other) /\ DOMAIN other = R /\ order = Positions(other)
  BY FusionIsKeyed
<1>3. \A r \in R : key[r] = Blind(q, hits, r) /\ other[r] = Seeing(q, hits, r)
  BY DEF FusionKeys, Blind, Seeing
<1>4. DOMAIN rank = R
  BY FusionDomain
<1>5. TieForTheAI(q, hits) <=> \E x, y \in R : rank[x] < rank[y] /\ Ties(q, hits, x, y)
  BY <1>4 DEF TieForTheAI, Ties
<1>6. ASSUME NEW x \in R, NEW y \in R PROVE rank[x] < rank[y] <=> Precedes(key[x], key[y])
  BY <1>1, EarlierPrecedes
<1>7. ASSUME NEW x \in R, NEW y \in R PROVE order[x] < order[y] <=> Precedes(other[x], other[y])
  BY <1>2, EarlierPrecedes
<1>8. ASSUME ~TieForTheAI(q, hits) PROVE order = rank
  <2>1. ASSUME NEW x \in R, NEW y \in R, Precedes(key[x], key[y]) PROVE Precedes(other[x], other[y])
    <3>1. ~Ties(q, hits, x, y)
      BY <1>5, <1>6, <1>8, <2>1
    <3>2. Precedes(Blind(q, hits, x), Blind(q, hits, y))
      BY <1>3, <2>1
    <3>3. Precedes(Seeing(q, hits, x), Seeing(q, hits, y))
      BY <3>1, <3>2, NoTieKeepsOrder
    <3> QED BY <1>3, <3>3
  <2> HIDE DEF key, other, R
  <2>2. Positions(key) = Positions(other)
    BY <1>1, <1>2, <2>1, SamePositions
  <2> QED BY <1>1, <1>2, <2>2
<1>9. ASSUME TieForTheAI(q, hits) PROVE order # rank
  <2>1. PICK x \in R, y \in R : rank[x] < rank[y] /\ Ties(q, hits, x, y)
    BY <1>5, <1>9
  <2>2. Precedes(Seeing(q, hits, y), Seeing(q, hits, x))
    BY <2>1, TieTurnsOrder
  <2>3. order[y] < order[x]
    BY <1>3, <1>7, <2>2
  <2>4. rank[x] \in Int /\ rank[y] \in Int
    BY <1>1, PositionsList
  <2> HIDE DEF order, rank
  <2> QED BY <2>1, <2>3, <2>4
<1> QED BY <1>8, <1>9

\* The check of the hybrid arm ranks as the arm was.
LEMMA HybridIsChecked ==
  ASSUME NEW q, NEW hits
  PROVE  Order(q, hits, "hybrid", Pool) = Fusion(q, hits, "hybrid")
BY DEF Fusion, Active

\* A hit has the score and the matches it was ranked by.
LEMMA RankedShows ==
  ASSUME NEW q, Rankable(q), NEW u, NEW pool, NEW score, NEW matches, DOMAIN score \subseteq Applicable(q)
  PROVE  \A r \in DOMAIN Ranked(q, u, pool, score, matches) :
           /\ r \in DOMAIN score
           /\ Ranked(q, u, pool, score, matches)[r].score = score[r]
           /\ Ranked(q, u, pool, score, matches)[r].matches = matches[r]
<1> DEFINE key == [r \in DOMAIN score |->
                     <<-score[r], -Cardinality(matches[r]), -Overlap(q, u, r), Unknown(q, r),
                       -q.clauses[r].authority, r>>]
           rank == Cut(Positions(key), q.policy.limit[pool])
           made == [r \in DOMAIN rank |-> [rank |-> rank[r], score |-> score[r], matches |-> matches[r]]]
<1>1. Ranked(q, u, pool, score, matches) = made
  BY DEF Ranked
<1>2. DOMAIN rank \subseteq DOMAIN key /\ DOMAIN key = DOMAIN score
  BY DEF Cut, Positions
<1> HIDE DEF rank, key
<1>3. DOMAIN made = DOMAIN rank /\ \A r \in DOMAIN rank : made[r].score = score[r] /\ made[r].matches = matches[r]
  OBVIOUS
<1> QED BY <1>1, <1>2, <1>3

\* A structured hit has matches, and a score that counts them.
LEMMA StructuredShows ==
  ASSUME NEW q, Rankable(q), NEW u, NEW pool \in Pool \ {"semantic_vector"}
  PROVE  \A r \in DOMAIN StructuredPool(q, u, pool) :
           /\ r \in Applicable(q)
           /\ StructuredPool(q, u, pool)[r].matches = Matches(q, u, r, pool)
           /\ pool # "ai_inferred" => StructuredPool(q, u, pool)[r].score \in Nat
<1> DEFINE hits == {r \in Applicable(q) : Matches(q, u, r, pool) # {}}
           matches == [r \in hits |-> Matches(q, u, r, pool)]
           score == [r \in hits |->
                       IF pool = "ai_inferred" THEN Cardinality(matches[r])
                       ELSE Weighed(q, matches[r]) + Bonus(q, u, r)]
<1>1. StructuredPool(q, u, pool) = Ranked(q, u, pool, score, matches)
  BY DEF StructuredPool
<1>2. DOMAIN score = hits /\ hits \subseteq Applicable(q) /\ \A r \in hits : matches[r] = Matches(q, u, r, pool)
  OBVIOUS
<1>3. ASSUME NEW r \in hits, pool # "ai_inferred" PROVE score[r] \in Nat
  <2>1. IsClause(q.clauses[r]) /\ q.policy.weight \in [Weighted -> Nat] /\ matches[r] = Matches(q, u, r, pool)
    BY ApplicableFinite DEF Rankable
  <2>2. Weighable(matches[r])
    BY <2>1, <1>3, MatchesWeighable DEF Pool
  <2>3. score[r] = Weighed(q, matches[r]) + Bonus(q, u, r)
    BY <1>3
  <2>4. Bonus(q, u, r) \in Nat
    BY <2>1, BonusTyped DEF BonusOK
  <2> HIDE DEF matches, score
  <2>5. Weighed(q, matches[r]) \in Nat
    BY <2>1, <2>2, WeighedTyped
  <2> QED BY <2>3, <2>4, <2>5
<1> HIDE DEF score, matches, hits
<1>4. DOMAIN score \subseteq Applicable(q)
  BY <1>2
<1>5. \A r \in DOMAIN Ranked(q, u, pool, score, matches) :
        /\ r \in DOMAIN score
        /\ Ranked(q, u, pool, score, matches)[r].score = score[r]
        /\ Ranked(q, u, pool, score, matches)[r].matches = matches[r]
  BY <1>4, RankedShows
<1> QED BY <1>1, <1>2, <1>3, <1>5

\* What the check looks for in the matches is there.
LEMMA MatchesHold ==
  ASSUME NEW q, Rankable(q), NEW u, NEW r \in Applicable(q)
  PROVE  /\ Matches(q, u, r, "ai_inferred") \subseteq {<<"ai", t>> : t \in u.ai}
         /\ \A m \in Matches(q, u, r, "formal_exact") : m[1] = "tag" => m[2] \in u.exact
         /\ Matches(q, u, r, "file_hint") \subseteq {<<"hint", t>> : t \in u.hints \ u.exact}
<1>1. IsClause(q.clauses[r])
  BY ApplicableFinite
<1>2. Matches(q, u, r, "ai_inferred") = {<<"ai", t>> : t \in u.ai \cap q.clauses[r].tags}
  BY DEF Matches
<1>3. Matches(q, u, r, "file_hint") = {<<"hint", t>> : t \in (u.hints \ u.exact) \cap q.clauses[r].tags}
  BY DEF Matches
<1>4. Matches(q, u, r, "formal_exact") = FormalMatches(q, u, r)
  BY DEF Matches
<1>5. ASSUME NEW m \in FormalMatches(q, u, r), m[1] = "tag" PROVE m[2] \in u.exact
  <2>1. \/ m \in q.clauses[r].facts
        \/ m \in {<<"tag", t>> : t \in u.exact \cap q.clauses[r].tags}
        \/ m \in {<<"rule_id", x>> : x \in {r} \cap u.requested}
    BY DEF FormalMatches
  <2>2. m \notin q.clauses[r].facts
    BY <1>1, <1>5 DEF IsClause
  <2>3. m \notin {<<"rule_id", x>> : x \in {r} \cap u.requested}
    BY <1>5
  <2> QED BY <2>1, <2>2, <2>3
<1>6. Matches(q, u, r, "ai_inferred") \subseteq {<<"ai", t>> : t \in u.ai}
  BY <1>2
<1>7. Matches(q, u, r, "file_hint") \subseteq {<<"hint", t>> : t \in u.hints \ u.exact}
  BY <1>3
<1> QED BY <1>4, <1>5, <1>6, <1>7

\* The pools of a unit pass their checks.
LEMMA PoolsHold ==
  ASSUME NEW q, Rankable(q), NEW u, NEW outcome, NEW hits, hits = PoolsOf(q, u, outcome)
  PROVE  /\ FactsCount(hits)
         /\ \A r \in DOMAIN hits["ai_inferred"] :
              hits["ai_inferred"][r].matches \subseteq {<<"ai", t>> : t \in u.ai}
         /\ \A r \in DOMAIN hits["formal_exact"] :
              \A m \in hits["formal_exact"][r].matches : m[1] = "tag" => m[2] \in u.exact
         /\ \A r \in DOMAIN hits["file_hint"] :
              hits["file_hint"][r].matches \subseteq {<<"hint", t>> : t \in u.hints \ u.exact}
<1>1. /\ hits["ai_inferred"] = StructuredPool(q, u, "ai_inferred")
      /\ hits["formal_exact"] = StructuredPool(q, u, "formal_exact")
      /\ hits["file_hint"] = StructuredPool(q, u, "file_hint")
  BY DEF PoolsOf, Pool
<1>2. /\ "ai_inferred" \in Pool \ {"semantic_vector"} /\ "formal_exact" \in Pool \ {"semantic_vector"}
      /\ "file_hint" \in Pool \ {"semantic_vector"}
  BY DEF Pool
<1>3. FactsCount(hits)
  BY <1>1, <1>2, StructuredShows DEF FactsCount
<1>4. ASSUME NEW r \in DOMAIN hits["ai_inferred"]
      PROVE  hits["ai_inferred"][r].matches \subseteq {<<"ai", t>> : t \in u.ai}
  <2>1. r \in Applicable(q) /\ hits["ai_inferred"][r].matches = Matches(q, u, r, "ai_inferred")
    BY <1>1, <1>2, StructuredShows
  <2> QED BY <2>1, MatchesHold
<1>5. ASSUME NEW r \in DOMAIN hits["formal_exact"], NEW m \in hits["formal_exact"][r].matches, m[1] = "tag"
      PROVE  m[2] \in u.exact
  <2>1. r \in Applicable(q) /\ hits["formal_exact"][r].matches = Matches(q, u, r, "formal_exact")
    BY <1>1, <1>2, StructuredShows
  <2> QED BY <1>5, <2>1, MatchesHold
<1>6. ASSUME NEW r \in DOMAIN hits["file_hint"]
      PROVE  hits["file_hint"][r].matches \subseteq {<<"hint", t>> : t \in u.hints \ u.exact}
  <2>1. r \in Applicable(q) /\ hits["file_hint"][r].matches = Matches(q, u, r, "file_hint")
    BY <1>1, <1>2, StructuredShows
  <2> QED BY <2>1, MatchesHold
<1> QED BY <1>3, <1>4, <1>5, <1>6

\* Where nothing was found, nothing is ranked.
LEMMA NothingOrdered ==
  ASSUME NEW q, NEW a, NEW seen
  PROVE  Order(q, NoHits, a, seen) = <<>>
<1>1. Found(NoHits, Active(a)) = {}
  BY DEF Found, Active, NoHits
<1> DEFINE key == [r \in Found(NoHits, Active(a)) |-> FusionKey(q, NoHits, a, seen, r)]
<1>2. DOMAIN key = {}
  BY <1>1
<1>3. Order(q, NoHits, a, seen) = Positions(key)
  BY DEF Order
<1> HIDE DEF key
<1>4. Positions(key) = [x \in {} |-> 1 + Cardinality({y \in DOMAIN key : Precedes(key[y], key[x])})]
  BY <1>2 DEF Positions
<1> QED BY <1>3, <1>4

\* The comparison of a unit is refused if and only if there is a tie.
LEMMA HeldUnlessTie ==
  ASSUME NEW q, WellAsked(q), NEW k, IsUnit(q.units[k], DOMAIN q.clauses), NEW hits, Recalled(q, k, hits),
         NEW made,
         \A a \in Arm : made[a].rank = IF Open(q, k) = {} THEN <<>> ELSE Fusion(q, hits, a)
  PROVE  UnitHolds(q, k, hits, made) <=> ~TieForTheAI(q, hits)
<1> DEFINE u == q.units[k]
<1>1. Rankable(q)
  BY AskedIsRankable
<1>2. Arm = {"static_vector", "hybrid"}
  BY DEF Arm
<1>3. CASE Open(q, k) = {}
  <2>1. hits = NoHits
    BY <1>3 DEF Recalled
  <2>2. \A a \in Arm : made[a].rank = Order(q, hits, a, Pool)
    BY <1>3, <2>1, NothingOrdered
  <2>3. \A p \in Pool : hits[p] = <<>>
    BY <2>1 DEF NoHits
  <2>4. UnitHolds(q, k, hits, made)
    BY <2>2, <2>3 DEF UnitHolds, Pool
  <2>5. Fusion(q, hits, "static_vector") = <<>>
    BY <2>1, NothingOrdered DEF Fusion
  <2>6. ~TieForTheAI(q, hits)
    BY <2>5 DEF TieForTheAI
  <2> QED BY <2>4, <2>6
<1>4. CASE Open(q, k) # {}
  <2>1. PICK outcome : hits = PoolsOf(q, u, outcome)
    BY <1>4 DEF Recalled
  <2>2. HitsFit(q, hits)
    BY <1>1, <2>1, PoolsFit
  <2>3. /\ FactsCount(hits)
        /\ \A r \in DOMAIN hits["ai_inferred"] :
             hits["ai_inferred"][r].matches \subseteq {<<"ai", t>> : t \in u.ai}
        /\ \A r \in DOMAIN hits["formal_exact"] :
             \A m \in hits["formal_exact"][r].matches : m[1] = "tag" => m[2] \in u.exact
        /\ \A r \in DOMAIN hits["file_hint"] :
             hits["file_hint"][r].matches \subseteq {<<"hint", t>> : t \in u.hints \ u.exact}
    BY <1>1, <2>1, PoolsHold
  <2>4. UnitHolds(q, k, hits, made) <=> \A a \in Arm : made[a].rank = Order(q, hits, a, Pool)
    BY <2>3 DEF UnitHolds
  <2>5. made["hybrid"].rank = Order(q, hits, "hybrid", Pool)
    BY <1>2, <1>4, HybridIsChecked
  <2>6. made["static_vector"].rank = Fusion(q, hits, "static_vector")
    BY <1>2, <1>4
  <2>7. Order(q, hits, "static_vector", Pool) = Fusion(q, hits, "static_vector") <=> ~TieForTheAI(q, hits)
    BY <1>1, <2>2, <2>3, OnlyTiesTurn
  <2> QED BY <1>2, <2>4, <2>5, <2>6, <2>7
<1> QED BY <1>3, <1>4

\* The pools are bound to the call that they were recalled for.
LEMMA RecalledIsBound ==
  ASSUME NEW q, WellAsked(q), NEW result,
         \A k \in DOMAIN result : IsUnit(q.units[k], DOMAIN q.clauses) /\ Recalled(q, k, result[k].pools)
  PROVE  BindingHolds(q, result)
<1> SUFFICES ASSUME NEW k \in DOMAIN result
             PROVE  /\ \A p \in Pool \ {"semantic_vector"} :
                         result[k].pools[p] = IF Open(q, k) = {} THEN <<>> ELSE StructuredPool(q, q.units[k], p)
                    /\ DOMAIN result[k].pools["semantic_vector"] \subseteq
                         IF Open(q, k) # {} /\ q.vectors THEN Applicable(q) ELSE {}
  BY DEF BindingHolds
<1> DEFINE hits == result[k].pools
           u == q.units[k]
<1>1. Recalled(q, k, hits) /\ IsUnit(u, DOMAIN q.clauses)
  OBVIOUS
<1> HIDE DEF hits
<1>2. CASE Open(q, k) = {}
  <2>1. \A p \in Pool : hits[p] = <<>>
    BY <1>1, <1>2 DEF Recalled, NoHits
  <2> QED BY <1>2, <2>1 DEF hits, Pool
<1>3. CASE Open(q, k) # {}
  <2>1. PICK outcome \in VectorOutcomes(q, u, "shadow") : hits = PoolsOf(q, u, outcome)
    BY <1>1, <1>3 DEF Recalled
  <2>2. \A p \in Pool \ {"semantic_vector"} : hits[p] = StructuredPool(q, u, p)
    BY <2>1 DEF PoolsOf
  <2>3. hits["semantic_vector"] = VectorPool(q, u, outcome)
    BY <2>1 DEF PoolsOf, Pool
  <2>4. DOMAIN VectorPool(q, u, outcome) \subseteq Applicable(q)
    BY <1>1, AskedIsRankable, VectorFits DEF PoolFits
  <2>5. ~q.vectors => VectorPool(q, u, outcome) = <<>>
    BY <2>1, VectorsSilent DEF VectorOutcomes
  <2> QED BY <1>3, <2>2, <2>3, <2>4, <2>5 DEF hits
<1> QED BY <1>2, <1>3

-----------------------------------------------------------------------------
(* The selection step by step is the one that is replayed.                 *)

\* Marking one clause more.
LEMMA MarkedMore ==
  ASSUME NEW s, NEW S, NEW T, NEW what
  PROVE  Marked(Marked(s, S, what), T, what) = Marked(s, S \cup T, what)
<1>1. (DOMAIN s \cup S) \cup T = DOMAIN s \cup (S \cup T)
  OBVIOUS
<1> DEFINE m == Marked(s, S, what)
<1>2. DOMAIN m = DOMAIN s \cup S /\ \A x \in DOMAIN m : m[x] = IF x \in S THEN what ELSE s[x]
  BY DEF Marked
<1> HIDE DEF m
<1>3. Marked(m, T, what) = [r \in DOMAIN m \cup T |-> IF r \in T THEN what ELSE m[r]]
  BY DEF Marked
<1>4. ASSUME NEW r \in DOMAIN m \cup T
      PROVE  (IF r \in T THEN what ELSE m[r]) = IF r \in S \cup T THEN what ELSE s[r]
  BY <1>2
<1>5. Marked(s, S \cup T, what) = [r \in DOMAIN m \cup T |-> IF r \in S \cup T THEN what ELSE s[r]]
  BY <1>1, <1>2 DEF Marked
<1>6. Marked(m, T, what) = Marked(s, S \cup T, what)
  BY <1>3, <1>4, <1>5
<1> QED BY <1>6 DEF m

\* Marking none changes nothing.
LEMMA MarkedNone ==
  ASSUME NEW D, NEW s \in Picks(D), NEW what
  PROVE  Marked(s, {}, what) = s
<1>1. PICK X \in SUBSET D : s \in [X -> Verdict]
  BY DEF Picks
<1>2. Marked(s, {}, what) = [r \in X |-> s[r]]
  BY <1>1 DEF Marked
<1> QED BY <1>1, <1>2

\* Leaving out what was not chosen keeps what was.
LEMMA MarkedChosen ==
  ASSUME NEW s, NEW S, NEW what, S \cap Chosen(s) = {}, what # "selected"
  PROVE  Chosen(Marked(s, S, what)) = Chosen(s)
BY DEF Marked, Chosen

\* the first clause with a dimension that fits is selected: Served(), of any
\* ranking, budget and selection
Picked(q, budget, rank, s, d) ==
  LET left == {r \in DOMAIN rank : d \in q.clauses[r].dims} \ Chosen(s)
      fresh == {r \in left : r \notin DOMAIN s \/ s[r] # "token_budget"}
      fits == {r \in fresh : HasRoom(q, budget, s, r)}
      first == {r \in fits : \A x \in fits : rank[r] <= rank[x]}
      before == {r \in fresh : \A x \in first : rank[r] < rank[x]}
  IN IF Full(q, s) THEN Marked(s, fresh, "result_limit")
     ELSE Marked(Marked(s, before, "token_budget"), first, "selected")

\* the clauses that the search for a dimension may mark
Fresh(q, rank, s, d) ==
  {r \in DOMAIN rank : /\ d \in q.clauses[r].dims /\ r \notin Chosen(s)
                       /\ r \notin DOMAIN s \/ s[r] # "token_budget"}
\* those of S that stand at the place k or before it
UpToPlace(rank, S, k) == {r \in S : rank[r] <= k}

\* The next clause is in its place.
LEMMA NextPlace ==
  ASSUME NEW rank, Numbers(rank), NEW S, S \subseteq DOMAIN rank,
         NEW k \in 1 .. Cardinality(DOMAIN rank), NEW r \in DOMAIN rank, rank[r] = k
  PROVE  /\ r \in S => UpToPlace(rank, S, k) = UpToPlace(rank, S, k - 1) \cup {r}
         /\ r \notin S => UpToPlace(rank, S, k) = UpToPlace(rank, S, k - 1)
<1>1. \A x \in DOMAIN rank : rank[x] \in Nat /\ (rank[x] <= k <=> rank[x] <= k - 1 \/ x = r)
  <2> SUFFICES ASSUME NEW x \in DOMAIN rank PROVE rank[x] \in Nat /\ (rank[x] <= k <=> rank[x] <= k - 1 \/ x = r)
    OBVIOUS
  <2>1. rank[x] \in Nat /\ k \in Nat
    BY DEF Numbers
  <2>2. rank[x] = k => x = r
    BY DEF Numbers
  <2> QED BY <2>1, <2>2
<1> QED BY <1>1 DEF UpToPlace

\* A clause that is selected ends the search.
LEMMA OfferedTaken ==
  ASSUME NEW q, NEW budget, NEW d, NEW acc, NEW r, NEW s, acc.s = s, acc.done = FALSE,
         d \in q.clauses[r].dims, r \notin Chosen(s), r \in Chosen(Tried(q, budget, s, r))
  PROVE  Offered(q, budget, d, acc, r) = [s |-> Tried(q, budget, s, r), done |-> TRUE]
<1>1. (r \in Chosen(Tried(q, budget, s, r))) = TRUE
  OBVIOUS
<1>2. ~(acc.done \/ d \notin q.clauses[r].dims \/ r \in Chosen(acc.s))
  OBVIOUS
<1> QED BY <1>1, <1>2 DEF Offered

\* A clause that is not goes on with it.
LEMMA OfferedLeft ==
  ASSUME NEW q, NEW budget, NEW d, NEW acc, NEW r, NEW s, acc.s = s, acc.done = FALSE,
         d \in q.clauses[r].dims, r \notin Chosen(s), r \notin Chosen(Tried(q, budget, s, r))
  PROVE  Offered(q, budget, d, acc, r) = [s |-> Tried(q, budget, s, r), done |-> FALSE]
<1>1. (r \in Chosen(Tried(q, budget, s, r))) = FALSE
  OBVIOUS
<1>2. ~(acc.done \/ d \notin q.clauses[r].dims \/ r \in Chosen(acc.s))
  OBVIOUS
<1> QED BY <1>1, <1>2 DEF Offered

\* While the results are full every fresh clause is left out.
LEMMA FullSearch ==
  ASSUME NEW q, NEW budget, NEW rank, Numbers(rank), NEW s \in Picks(DOMAIN rank), NEW d, Full(q, s),
         NEW k \in 1 .. Cardinality(DOMAIN rank), NEW r \in DOMAIN rank, rank[r] = k,
         NEW acc,
         acc = [s |-> Marked(s, UpToPlace(rank, Fresh(q, rank, s, d), k - 1), "result_limit"), done |-> FALSE]
  PROVE  Offered(q, budget, d, acc, r)
           = [s |-> Marked(s, UpToPlace(rank, Fresh(q, rank, s, d), k), "result_limit"), done |-> FALSE]
<1> DEFINE fresh == Fresh(q, rank, s, d)
           T == UpToPlace(rank, fresh, k - 1)
           t == Marked(s, T, "result_limit")
<1>1. fresh \subseteq DOMAIN rank /\ fresh \cap Chosen(s) = {}
  BY DEF Fresh
<1>2. T \subseteq fresh /\ r \notin T
  BY DEF UpToPlace
<1>3. Chosen(t) = Chosen(s)
  BY <1>1, <1>2, MarkedChosen
<1>4. acc.s = t /\ acc.done = FALSE
  OBVIOUS
<1>5. r \in DOMAIN t <=> r \in DOMAIN s
  BY <1>2 DEF Marked
<1>6. r \in DOMAIN s => t[r] = s[r]
  BY <1>2 DEF Marked
<1>7. CASE d \notin q.clauses[r].dims \/ r \in Chosen(s)
  <2>1. Offered(q, budget, d, acc, r) = acc
    BY <1>3, <1>4, <1>7 DEF Offered
  <2>2. r \notin fresh
    BY <1>7 DEF Fresh
  <2>3. UpToPlace(rank, fresh, k) = T
    BY <1>1, <2>2, NextPlace
  <2> QED BY <2>1, <2>3
<1>8. CASE d \in q.clauses[r].dims /\ r \notin Chosen(s) /\ r \in DOMAIN s /\ s[r] = "token_budget"
  <2>1. Tried(q, budget, t, r) = t
    BY <1>5, <1>6, <1>8 DEF Tried
  <2>2. Offered(q, budget, d, acc, r) = [s |-> t, done |-> FALSE]
    <3>1. r \notin Chosen(Tried(q, budget, t, r))
      BY <1>3, <2>1, <1>8
    <3> HIDE DEF t
    <3>2. Offered(q, budget, d, acc, r) = [s |-> Tried(q, budget, t, r), done |-> FALSE]
      BY <1>3, <1>4, <1>8, <3>1, OfferedLeft
    <3> QED BY <2>1, <3>2
  <2>3. r \notin fresh
    BY <1>8 DEF Fresh
  <2>4. UpToPlace(rank, fresh, k) = T
    BY <1>1, <2>3, NextPlace
  <2> QED BY <2>2, <2>4
<1>9. CASE d \in q.clauses[r].dims /\ r \notin Chosen(s) /\ (r \notin DOMAIN s \/ s[r] # "token_budget")
  <2>1. r \in fresh
    BY <1>9 DEF Fresh
  <2>2. r \in DOMAIN t => t[r] \notin {"selected", "token_budget"}
    BY <1>5, <1>6, <1>9 DEF Chosen
  <2>3. Full(q, t)
    BY <1>3 DEF Full
  <2>4. Tried(q, budget, t, r) = Marked(t, {r}, "result_limit")
    BY <2>2, <2>3 DEF Tried
  <2>5. UpToPlace(rank, fresh, k) = T \cup {r}
    BY <1>1, <2>1, NextPlace
  <2> DEFINE n == Marked(s, UpToPlace(rank, fresh, k), "result_limit")
  <2>6. Tried(q, budget, t, r) = n
    BY <2>4, <2>5, MarkedMore
  <2>7. r \notin Chosen(n)
    <3>1. Chosen(n) = Chosen(s)
      BY <1>1, MarkedChosen DEF UpToPlace
    <3> QED BY <1>9, <3>1
  <2> HIDE DEF n, t
  <2>8. Offered(q, budget, d, acc, r) = [s |-> n, done |-> FALSE]
    <3>1. r \notin Chosen(Tried(q, budget, t, r))
      BY <1>3, <2>6, <2>7
    <3> HIDE DEF t
    <3>2. Offered(q, budget, d, acc, r) = [s |-> Tried(q, budget, t, r), done |-> FALSE]
      BY <1>3, <1>4, <1>9, <3>1, OfferedLeft
    <3> QED BY <2>6, <3>2
  <2> QED BY <2>8 DEF n
<1> QED BY <1>7, <1>8, <1>9

\* the fresh clauses there is room for
Fitting(q, budget, rank, s, d) == {r \in Fresh(q, rank, s, d) : HasRoom(q, budget, s, r)}

\* the search while it goes on, and at its end
Passed(q, rank, s, d, k) ==
  [s |-> Marked(s, UpToPlace(rank, Fresh(q, rank, s, d), k), "token_budget"), done |-> FALSE]
\* it took r, and all before r did not fit
SearchOver(q, budget, rank, s, d, r) ==
  [s |-> Marked(Marked(s, UpToPlace(rank, Fresh(q, rank, s, d), rank[r] - 1), "token_budget"), {r}, "selected"),
   done |-> TRUE]

\* While there are results left, the search goes on to a clause that fits.
LEMMA OpenSearch ==
  ASSUME NEW q, NEW budget, NEW rank, Numbers(rank), NEW s \in Picks(DOMAIN rank), NEW d, ~Full(q, s),
         NEW k \in 1 .. Cardinality(DOMAIN rank), NEW r \in DOMAIN rank, rank[r] = k,
         NEW acc, acc = Passed(q, rank, s, d, k - 1)
  PROVE  Offered(q, budget, d, acc, r)
           = IF r \in Fitting(q, budget, rank, s, d) THEN SearchOver(q, budget, rank, s, d, r)
             ELSE Passed(q, rank, s, d, k)
<1> DEFINE fresh == Fresh(q, rank, s, d)
           T == UpToPlace(rank, fresh, k - 1)
           t == Marked(s, T, "token_budget")
           next == Tried(q, budget, t, r)
<1>1. fresh \subseteq DOMAIN rank /\ fresh \cap Chosen(s) = {}
  BY DEF Fresh
<1>2. T \subseteq fresh /\ r \notin T
  <2>1. k \in Nat /\ ~(k <= k - 1)
    BY DEF Numbers
  <2> QED BY <2>1 DEF UpToPlace
<1>3. Chosen(t) = Chosen(s)
  BY <1>1, <1>2, MarkedChosen
<1>4. acc.s = t /\ acc.done = FALSE
  BY DEF Passed
<1>5. r \in DOMAIN t <=> r \in DOMAIN s
  BY <1>2 DEF Marked
<1>6. r \in DOMAIN s => t[r] = s[r]
  BY <1>2 DEF Marked
<1>7. CASE d \notin q.clauses[r].dims \/ r \in Chosen(s)
  <2>1. Offered(q, budget, d, acc, r) = acc
    BY <1>3, <1>4, <1>7 DEF Offered
  <2>2. r \notin fresh /\ r \notin Fitting(q, budget, rank, s, d)
    BY <1>7 DEF Fresh, Fitting
  <2>3. UpToPlace(rank, fresh, k) = T
    BY <1>1, <2>2, NextPlace
  <2> QED BY <2>1, <2>2, <2>3 DEF Passed
<1>8. CASE d \in q.clauses[r].dims /\ r \notin Chosen(s) /\ r \in DOMAIN s /\ s[r] = "token_budget"
  <2>1. next = t
    BY <1>5, <1>6, <1>8 DEF Tried
  <2>2. r \notin Chosen(Tried(q, budget, t, r))
    BY <1>3, <1>8, <2>1
  <2>3. r \notin fresh /\ r \notin Fitting(q, budget, rank, s, d)
    BY <1>8 DEF Fresh, Fitting
  <2>4. UpToPlace(rank, fresh, k) = T
    BY <1>1, <2>3, NextPlace
  <2>5. Passed(q, rank, s, d, k) = [s |-> t, done |-> FALSE]
    BY <2>4 DEF Passed
  <2> HIDE DEF t
  <2>6. Offered(q, budget, d, acc, r) = [s |-> Tried(q, budget, t, r), done |-> FALSE]
    BY <1>3, <1>4, <1>8, <2>2, OfferedLeft
  <2> QED BY <2>1, <2>3, <2>5, <2>6
<1>9. CASE d \in q.clauses[r].dims /\ r \notin Chosen(s) /\ (r \notin DOMAIN s \/ s[r] # "token_budget")
  <2>1. r \in fresh
    BY <1>9 DEF Fresh
  <2>2. r \in DOMAIN t => t[r] \notin {"selected", "token_budget"}
    BY <1>5, <1>6, <1>9 DEF Chosen
  <2>3. ~Full(q, t)
    BY <1>3 DEF Full
  <2>4. HasRoom(q, budget, t, r) <=> HasRoom(q, budget, s, r)
    BY <1>3 DEF HasRoom
  <2>5. r \in Fitting(q, budget, rank, s, d) <=> HasRoom(q, budget, s, r)
    BY <2>1 DEF Fitting
  <2>6. CASE HasRoom(q, budget, s, r)
    <3>1. next = Marked(t, {r}, "selected")
      BY <2>2, <2>3, <2>4, <2>6 DEF Tried
    <3>2. r \in Chosen(Marked(t, {r}, "selected"))
      BY DEF Marked, Chosen
    <3>3. SearchOver(q, budget, rank, s, d, r) = [s |-> Marked(t, {r}, "selected"), done |-> TRUE]
      BY DEF SearchOver
    <3> HIDE DEF t
    <3>4. Offered(q, budget, d, acc, r) = [s |-> Tried(q, budget, t, r), done |-> TRUE]
      <4>1. acc.s = t /\ acc.done = FALSE /\ r \notin Chosen(t)
        BY <1>3, <1>4, <1>9
      <4>2. r \in Chosen(Tried(q, budget, t, r))
        BY <3>1, <3>2
      <4> HIDE DEF next
      <4> QED BY <1>9, <4>1, <4>2, OfferedTaken
    <3> QED BY <2>5, <2>6, <3>1, <3>3, <3>4
  <2>7. CASE ~HasRoom(q, budget, s, r)
    <3> DEFINE n == Marked(s, UpToPlace(rank, fresh, k), "token_budget")
    <3>1. next = Marked(t, {r}, "token_budget")
      BY <2>2, <2>3, <2>4, <2>7 DEF Tried
    <3>2. UpToPlace(rank, fresh, k) = T \cup {r}
      BY <1>1, <2>1, NextPlace
    <3>3. next = n
      BY <3>1, <3>2, MarkedMore
    <3>4. Chosen(n) = Chosen(s)
      BY <1>1, MarkedChosen DEF UpToPlace
    <3>5. Passed(q, rank, s, d, k) = [s |-> n, done |-> FALSE]
      BY DEF Passed
    <3> HIDE DEF t, n
    <3>6. Offered(q, budget, d, acc, r) = [s |-> Tried(q, budget, t, r), done |-> FALSE]
      BY <1>3, <1>4, <1>9, <3>3, <3>4, OfferedLeft
    <3> QED BY <2>5, <2>7, <3>3, <3>5, <3>6
  <2> QED BY <2>6, <2>7
<1> QED BY <1>7, <1>8, <1>9

\* the search so far: full, over, or past the clauses that do not fit
SearchedTo(q, budget, rank, s, d, k, acc) ==
  IF Full(q, s)
    THEN acc = [s |-> Marked(s, UpToPlace(rank, Fresh(q, rank, s, d), k), "result_limit"), done |-> FALSE]
    ELSE \/ /\ \E r \in Fitting(q, budget, rank, s, d) :
                 /\ rank[r] <= k /\ acc = SearchOver(q, budget, rank, s, d, r)
                 /\ \A x \in Fitting(q, budget, rank, s, d) : rank[r] <= rank[x]
         \/ /\ \A x \in Fitting(q, budget, rank, s, d) : rank[x] > k
            /\ acc = Passed(q, rank, s, d, k)

\* A clause more.
LEMMA SearchGoesOn ==
  ASSUME NEW q, NEW budget, NEW rank, Numbers(rank), NEW s \in Picks(DOMAIN rank), NEW d,
         NEW k \in 1 .. Cardinality(DOMAIN rank), NEW r \in DOMAIN rank, rank[r] = k,
         NEW acc, SearchedTo(q, budget, rank, s, d, k - 1, acc)
  PROVE  SearchedTo(q, budget, rank, s, d, k, Offered(q, budget, d, acc, r))
<1> DEFINE F == Fitting(q, budget, rank, s, d)
           new == Offered(q, budget, d, acc, r)
<1>1. F \subseteq DOMAIN rank /\ k \in Nat /\ \A x \in DOMAIN rank : rank[x] \in Nat
  BY DEF Fitting, Fresh, Numbers
<1>2. CASE Full(q, s)
  BY <1>2, FullSearch DEF SearchedTo
<1>3. CASE ~Full(q, s)
  <2>1. CASE \E y \in F : /\ rank[y] <= k - 1 /\ acc = SearchOver(q, budget, rank, s, d, y)
                          /\ \A x \in F : rank[y] <= rank[x]
    <3>1. PICK y \in F : /\ rank[y] <= k - 1 /\ acc = SearchOver(q, budget, rank, s, d, y)
                         /\ \A x \in F : rank[y] <= rank[x]
      BY <2>1
    <3>2. new = acc
      BY <3>1 DEF Offered, SearchOver
    <3>3. rank[y] <= k
      BY <1>1, <3>1
    <3> HIDE DEF F, new
    <3> QED BY <1>3, <3>1, <3>2, <3>3 DEF SearchedTo, F, new
  <2>2. CASE (\A x \in F : rank[x] > k - 1) /\ acc = Passed(q, rank, s, d, k - 1)
    <3>1. new = IF r \in F THEN SearchOver(q, budget, rank, s, d, r) ELSE Passed(q, rank, s, d, k)
      BY <1>3, <2>2, OpenSearch
    <3> HIDE DEF F, new
    <3>2. CASE r \in F
      <4>1. rank[r] <= k /\ \A x \in F : rank[r] <= rank[x]
        BY <1>1, <2>2
      <4> QED BY <1>3, <3>1, <3>2, <4>1 DEF SearchedTo, F, new
    <3>3. CASE r \notin F
      <4>1. \A x \in F : rank[x] > k
        <5>1. \A x \in F : rank[x] # k
          BY <1>1, <3>3 DEF Numbers
        <5> QED BY <1>1, <2>2, <5>1
      <4> QED BY <1>3, <3>1, <3>3, <4>1 DEF SearchedTo, F, new
    <3> QED BY <3>2, <3>3
  <2> QED BY <1>3, <2>1, <2>2 DEF SearchedTo
<1> QED BY <1>2, <1>3

\* The search starts.
LEMMA SearchStarts ==
  ASSUME NEW q, NEW budget, NEW rank, Numbers(rank), NEW s \in Picks(DOMAIN rank), NEW d
  PROVE  SearchedTo(q, budget, rank, s, d, 0, [s |-> s, done |-> FALSE])
<1> DEFINE fresh == Fresh(q, rank, s, d)
<1>1. \A x \in fresh : x \in DOMAIN rank /\ rank[x] \in Nat /\ rank[x] > 0
  BY DEF Fresh, Numbers
<1>2. UpToPlace(rank, fresh, 0) = {}
  BY <1>1 DEF UpToPlace
<1>3. /\ Marked(s, UpToPlace(rank, fresh, 0), "result_limit") = s
      /\ Marked(s, UpToPlace(rank, fresh, 0), "token_budget") = s
  BY <1>2, MarkedNone
<1>4. \A x \in Fitting(q, budget, rank, s, d) : rank[x] > 0
  BY <1>1 DEF Fitting
<1>5. Passed(q, rank, s, d, 0) = [s |-> s, done |-> FALSE]
  BY <1>3 DEF Passed
<1> QED BY <1>3, <1>4, <1>5 DEF SearchedTo

\* At its end it has done what Served() does.
LEMMA SearchEnds ==
  ASSUME NEW q, NEW budget, NEW rank, Numbers(rank), NEW s \in Picks(DOMAIN rank), NEW d, NEW acc,
         SearchedTo(q, budget, rank, s, d, Cardinality(DOMAIN rank), acc)
  PROVE  acc.s = Picked(q, budget, rank, s, d)
<1> DEFINE D == DOMAIN rank
           N == Cardinality(D)
           fresh == Fresh(q, rank, s, d)
           fits == Fitting(q, budget, rank, s, d)
           first == {r \in fits : \A x \in fits : rank[r] <= rank[x]}
           before == {r \in fresh : \A x \in first : rank[r] < rank[x]}
<1>1. {r \in {x \in D : d \in q.clauses[x].dims} \ Chosen(s) : r \notin DOMAIN s \/ s[r] # "token_budget"} = fresh
  BY DEF Fresh
<1>2. fits = {r \in fresh : HasRoom(q, budget, s, r)}
  BY DEF Fitting
<1>3. Picked(q, budget, rank, s, d)
        = IF Full(q, s) THEN Marked(s, fresh, "result_limit")
          ELSE Marked(Marked(s, before, "token_budget"), first, "selected")
  BY <1>1, <1>2 DEF Picked
<1>4. fresh \subseteq D /\ fits \subseteq fresh /\ N \in Nat /\ \A x \in D : rank[x] \in 1 .. N
  BY DEF Fresh, Fitting, Numbers
<1>5. UpToPlace(rank, fresh, N) = fresh
  BY <1>4 DEF UpToPlace
<1>6. CASE Full(q, s)
  BY <1>3, <1>5, <1>6 DEF SearchedTo
<1>7. ASSUME ~Full(q, s), NEW r \in fits, acc = SearchOver(q, budget, rank, s, d, r), \A x \in fits : rank[r] <= rank[x]
      PROVE  acc.s = Picked(q, budget, rank, s, d)
  <2>1. first = {r}
    <3>1. \A x \in fits : rank[x] <= rank[r] => x = r
      <4> SUFFICES ASSUME NEW x \in fits, rank[x] <= rank[r] PROVE x = r
        OBVIOUS
      <4>1. rank[x] = rank[r]
        BY <1>4, <1>7
      <4> QED BY <1>4, <4>1 DEF Numbers
    <3> QED BY <1>7, <3>1
  <2>2. before = UpToPlace(rank, fresh, rank[r] - 1)
    <3>1. before = {x \in fresh : rank[x] < rank[r]}
      BY <2>1
    <3>2. \A x \in fresh : rank[x] < rank[r] <=> rank[x] <= rank[r] - 1
      BY <1>4
    <3> QED BY <3>1, <3>2 DEF UpToPlace
  <2>3. acc.s = Marked(Marked(s, UpToPlace(rank, fresh, rank[r] - 1), "token_budget"), {r}, "selected")
    BY <1>7 DEF SearchOver
  <2> QED BY <1>3, <1>7, <2>1, <2>2, <2>3
<1>8. ASSUME ~Full(q, s), \A x \in fits : rank[x] > N, acc = Passed(q, rank, s, d, N)
      PROVE  acc.s = Picked(q, budget, rank, s, d)
  <2>1. fits = {}
    BY <1>4, <1>8
  <2>2. first = {} /\ before = fresh
    BY <2>1
  <2>3. Marked(s, fresh, "token_budget") \in Picks(D)
    BY <1>4, MarkedIn DEF Verdict
  <2>4. Marked(Marked(s, fresh, "token_budget"), {}, "selected") = Marked(s, fresh, "token_budget")
    BY <2>3, MarkedNone
  <2>5. acc.s = Marked(s, fresh, "token_budget")
    BY <1>5, <1>8 DEF Passed
  <2> QED BY <1>3, <1>8, <2>2, <2>4, <2>5
<1> QED BY <1>6, <1>7, <1>8 DEF SearchedTo

\* Serving a dimension is searching for it.
LEMMA PickedIsFirst ==
  ASSUME NEW q, NEW budget, NEW rank, Numbers(rank), NEW s \in Picks(DOMAIN rank), NEW d
  PROVE  FirstOf(q, budget, InOrder(rank), s, d) = Picked(q, budget, rank, s, d)
<1> DEFINE D == DOMAIN rank
           N == Cardinality(D)
           order == InOrder(rank)
<1>1. N \in Nat /\ DOMAIN order = 1 .. N /\ \A k \in 1 .. N : order[k] \in D /\ rank[order[k]] = k
  BY OrderLists DEF Numbers
<1> HIDE DEF order, N
<1>2. PICK v \in [0 .. N -> Search(D)] : Trace(v, q, budget, order, s, d, N)
  BY <1>1, FirstTrace
<1> DEFINE P == {k \in 0 .. N : SearchedTo(q, budget, rank, s, d, k, v[k])}
<1>3. 0 \in P
  <2>1. v[0] = [s |-> s, done |-> FALSE]
    BY <1>2 DEF Trace
  <2>2. 0 \in 0 .. N
    BY <1>1
  <2> QED BY <2>1, <2>2, SearchStarts
<1>4. ASSUME NEW k \in 1 .. N, k - 1 \in P PROVE k \in P
  <2>1. v[k] = Offered(q, budget, d, v[k - 1], order[k])
    BY <1>2 DEF Trace
  <2>2. SearchedTo(q, budget, rank, s, d, k - 1, v[k - 1])
    BY <1>4
  <2>3. order[k] \in DOMAIN rank /\ rank[order[k]] = k /\ k \in 1 .. Cardinality(DOMAIN rank)
    BY <1>1 DEF N
  <2>4. SearchedTo(q, budget, rank, s, d, k, Offered(q, budget, d, v[k - 1], order[k]))
    BY <2>2, <2>3, SearchGoesOn
  <2>5. k \in 0 .. N
    BY <1>1
  <2> QED BY <2>1, <2>4, <2>5
<1> HIDE DEF P
<1>5. \A k \in 0 .. N : k \in P
  BY <1>1, <1>3, <1>4, StepByStep
<1>6. SearchedTo(q, budget, rank, s, d, N, v[N])
  BY <1>1, <1>5 DEF P
<1>7. v[N].s = Picked(q, budget, rank, s, d)
  BY <1>6, SearchEnds DEF N
<1>8. v[N].s = FirstOf(q, budget, order, s, d)
  BY <1>2 DEF Trace
<1> QED BY <1>7, <1>8 DEF order

\* Dimensions are in the order of numbers.
LEMMA DimensionsAscend ==
  ASSUME NEW dims \in SUBSET Nat, IsFiniteSet(dims), NEW x \in dims, NEW y \in dims
  PROVE  DimensionRank(dims)[x] < DimensionRank(dims)[y] <=> x < y
<1> DEFINE key == [d \in dims |-> <<d>>]
<1>1. DOMAIN key = dims
  OBVIOUS
<1>2. ASSUME NEW z \in dims PROVE IsKey(key[z], 1) /\ key[z][1] = z
  <2>1. key[z] = <<z>> /\ z \in Int
    OBVIOUS
  <2> QED BY <2>1 DEF IsKey
<1>3. 1 \in Nat /\ 1 \in 1 .. 1
  OBVIOUS
<1>4. DimensionRank(dims) = Positions(key)
  BY DEF DimensionRank
<1> HIDE DEF key
<1>5. \A v, w \in dims : v # w => \E i \in 1 .. 1 : key[v][i] # key[w][i]
  BY <1>2, <1>3
<1>6. \E n \in Nat : /\ \A v \in dims : IsKey(key[v], n)
                    /\ \A v, w \in dims : v # w => \E i \in 1 .. n : key[v][i] # key[w][i]
  BY <1>2, <1>3, <1>5, Zenon
<1>7. Keyed(key)
  BY <1>1, <1>6 DEF Keyed
<1>8. Positions(key)[x] < Positions(key)[y] <=> Precedes(key[x], key[y])
  BY <1>1, <1>7, EarlierPrecedes
<1>9. Precedes(key[x], key[y]) <=> x < y
  <2>1. DOMAIN key[x] = {1} /\ key[x][1] = x /\ key[y][1] = y
    <3>1. DOMAIN key[x] = 1 .. 1
      BY <1>2 DEF IsKey
    <3>2. 1 .. 1 = {1}
      OBVIOUS
    <3> QED BY <1>2, <3>1, <3>2
  <2> QED BY <2>1 DEF Precedes
<1> QED BY <1>4, <1>8, <1>9

\* The next dimension is the least that is left.
LEMMA NextDimension ==
  ASSUME NEW dims \in SUBSET Nat, IsFiniteSet(dims), NEW k \in 0 .. Cardinality(dims),
         NEW left, left = {InOrder(DimensionRank(dims))[i] : i \in k + 1 .. Cardinality(dims)}
  PROVE  /\ left = {} <=> k = Cardinality(dims)
         /\ left # {} => /\ Min(left) = InOrder(DimensionRank(dims))[k + 1]
                         /\ left \ {Min(left)}
                              = {InOrder(DimensionRank(dims))[i] : i \in k + 2 .. Cardinality(dims)}
<1> DEFINE M == Cardinality(dims)
           drank == DimensionRank(dims)
           dorder == InOrder(drank)
<1>1. Numbers(drank) /\ DOMAIN drank = dims
  BY DimensionsInOrder
<1>2. M \in Nat /\ \A i \in 1 .. M : dorder[i] \in dims /\ drank[dorder[i]] = i
  BY <1>1, OrderLists DEF Numbers
<1>4. ASSUME NEW x \in dims, NEW y \in dims PROVE drank[x] < drank[y] <=> x < y
  BY DimensionsAscend
<1> HIDE DEF drank, dorder, M
<1>5. ASSUME NEW i \in 1 .. M, NEW j \in 1 .. M, i < j PROVE dorder[i] < dorder[j]
  <2>1. drank[dorder[i]] < drank[dorder[j]]
    BY <1>2, <1>5
  <2> QED BY <1>2, <1>4, <2>1
<1>6. k \in 0 .. M /\ left = {dorder[i] : i \in k + 1 .. M}
  BY DEF M, dorder, drank
<1>7. left = {} <=> k = M
  <2>1. k # M => k + 1 \in k + 1 .. M
    BY <1>2, <1>6
  <2>2. k = M => k + 1 .. M = {}
    BY <1>2, <1>6
  <2> QED BY <1>6, <2>1, <2>2
<1>8. ASSUME k # M
      PROVE  /\ Min(left) = dorder[k + 1]
             /\ left \ {dorder[k + 1]} = {dorder[i] : i \in k + 2 .. M}
  <2>1. k + 1 \in 1 .. M /\ k + 1 \in k + 1 .. M
    BY <1>2, <1>6, <1>8
  <2>2. left \subseteq Nat /\ dorder[k + 1] \in left
    <3>1. dorder[k + 1] \in left
      BY <1>6, <2>1
    <3>2. ASSUME NEW i \in k + 1 .. M PROVE dorder[i] \in Nat
      <4>1. i \in 1 .. M
        BY <1>2, <1>6
      <4> QED BY <1>2, <4>1
    <3> QED BY <1>6, <3>1, <3>2
  <2>3. \A d \in left : dorder[k + 1] <= d
    <3> SUFFICES ASSUME NEW i \in k + 1 .. M PROVE dorder[k + 1] <= dorder[i]
      BY <1>6
    <3>1. i \in 1 .. M /\ (i = k + 1 \/ k + 1 < i)
      BY <1>2, <1>6
    <3>2. dorder[i] \in Nat /\ dorder[k + 1] \in Nat
      BY <1>2, <2>1, <3>1
    <3> QED BY <1>5, <2>1, <3>1, <3>2
  <2>4. Min(left) = dorder[k + 1]
    <3>1. Min(left) = CHOOSE x \in left : \A y \in left : x <= y
      BY DEF Min
    <3>2. \A x \in left : (\A y \in left : x <= y) => x = dorder[k + 1]
      BY <2>2, <2>3
    <3> QED BY <2>2, <2>3, <3>1, <3>2
  <2>5. ASSUME NEW i \in k + 2 .. M PROVE dorder[i] \in left /\ dorder[i] # dorder[k + 1]
    <3>1. i \in k + 1 .. M /\ i \in 1 .. M /\ k + 1 < i
      BY <1>2, <1>6
    <3>2. dorder[k + 1] < dorder[i] /\ dorder[i] \in Nat
      BY <1>2, <1>5, <2>1, <3>1
    <3> QED BY <1>6, <3>1, <3>2, <2>2
  <2>6. ASSUME NEW d \in left, d # dorder[k + 1] PROVE \E i \in k + 2 .. M : d = dorder[i]
    <3>1. PICK i \in k + 1 .. M : d = dorder[i]
      BY <1>6
    <3>2. i \in k + 2 .. M
      BY <1>2, <1>6, <2>6, <3>1
    <3> QED BY <3>1, <3>2
  <2> QED BY <2>4, <2>5, <2>6
<1> QED BY <1>7, <1>8 DEF M, dorder, drank

\* the selection s has served the dimensions but those that are left
Serving(q, dims, budget, rank, s, left) ==
  LET order == InOrder(rank)
      dorder == InOrder(DimensionRank(dims))
      M == Cardinality(dims)
  IN \E k \in 0 .. M : \E v \in [0 .. M -> Picks(DOMAIN rank)] :
       /\ Serves(v, q, budget, order, dorder, M)
       /\ s = v[k] /\ left = {dorder[i] : i \in k + 1 .. M}

\* and has then considered n clauses
Filling(q, dims, budget, rank, s, n) ==
  LET order == InOrder(rank)
      N == Cardinality(DOMAIN rank)
      served == ServedFirst(q, budget, order, InOrder(DimensionRank(dims)))
  IN \E w \in [0 .. N -> Picks(DOMAIN rank)] :
       Fills(w, q, budget, served, order, N) /\ n \in 0 .. N /\ s = w[n]

\* The orders of the clauses and of the dimensions.
LEMMA TwoOrders ==
  ASSUME NEW rank, Numbers(rank), NEW dims \in SUBSET Nat, IsFiniteSet(dims)
  PROVE  /\ Cardinality(DOMAIN rank) \in Nat /\ DOMAIN InOrder(rank) = 1 .. Cardinality(DOMAIN rank)
         /\ \A k \in 1 .. Cardinality(DOMAIN rank) : InOrder(rank)[k] \in DOMAIN rank
         /\ \A r \in DOMAIN rank : rank[r] \in 1 .. Cardinality(DOMAIN rank) /\ InOrder(rank)[rank[r]] = r
         /\ Cardinality(dims) \in Nat /\ DOMAIN InOrder(DimensionRank(dims)) = 1 .. Cardinality(dims)
         /\ dims = {InOrder(DimensionRank(dims))[i] : i \in 1 .. Cardinality(dims)}
<1> DEFINE drank == DimensionRank(dims)
           dorder == InOrder(drank)
           M == Cardinality(dims)
<1>1. Numbers(drank) /\ DOMAIN drank = dims
  BY DimensionsInOrder
<1>2. M \in Nat /\ DOMAIN dorder = 1 .. M /\ \A i \in 1 .. M : dorder[i] \in dims
  BY <1>1, OrderLists DEF Numbers
<1>3. \A d \in dims : drank[d] \in 1 .. M /\ dorder[drank[d]] = d
  BY <1>1, OrderLists DEF Numbers
<1>4. dims = {dorder[i] : i \in 1 .. M}
  <2> HIDE DEF drank, dorder, M
  <2> QED BY <1>2, <1>3
<1>5. /\ Cardinality(DOMAIN rank) \in Nat /\ DOMAIN InOrder(rank) = 1 .. Cardinality(DOMAIN rank)
      /\ \A k \in 1 .. Cardinality(DOMAIN rank) : InOrder(rank)[k] \in DOMAIN rank
  BY OrderLists DEF Numbers
<1>6. \A r \in DOMAIN rank : rank[r] \in 1 .. Cardinality(DOMAIN rank) /\ InOrder(rank)[rank[r]] = r
  BY OrderLists DEF Numbers
<1> HIDE DEF drank, dorder, M
<1> QED BY <1>2, <1>4, <1>5, <1>6 DEF drank, dorder, M

\* At first all dimensions are left.
LEMMA ServingStarts ==
  ASSUME NEW q, NEW budget, NEW rank, Numbers(rank), NEW dims \in SUBSET Nat, IsFiniteSet(dims)
  PROVE  Serving(q, dims, budget, rank, <<>>, dims)
<1> DEFINE order == InOrder(rank)
           N == Cardinality(DOMAIN rank)
           dorder == InOrder(DimensionRank(dims))
           M == Cardinality(dims)
<1>1. /\ N \in Nat /\ DOMAIN order = 1 .. N /\ \A k \in 1 .. N : order[k] \in DOMAIN rank
      /\ M \in Nat /\ DOMAIN dorder = 1 .. M /\ dims = {dorder[i] : i \in 1 .. M}
  BY TwoOrders
<1> HIDE DEF order, N, dorder, M
<1>2. PICK v \in [0 .. M -> Picks(DOMAIN rank)] : Serves(v, q, budget, order, dorder, M)
  BY <1>1, ServedTrace
<1>3. v[0] = <<>> /\ 0 \in 0 .. M /\ 0 + 1 = 1
  BY <1>1, <1>2 DEF Serves
<1>4. dims = {dorder[i] : i \in 0 + 1 .. M}
  BY <1>1, <1>3
<1>5. \E k \in 0 .. M : \E v1 \in [0 .. M -> Picks(DOMAIN rank)] :
        /\ Serves(v1, q, budget, order, dorder, M)
        /\ <<>> = v1[k] /\ dims = {dorder[i] : i \in k + 1 .. M}
  BY <1>2, <1>3, <1>4
<1> QED BY <1>5 DEF Serving, order, dorder, M

\* One dimension more is served.
LEMMA ServingGoesOn ==
  ASSUME NEW q, NEW budget, NEW rank, Numbers(rank), NEW dims \in SUBSET Nat, IsFiniteSet(dims),
         NEW s, NEW left, Serving(q, dims, budget, rank, s, left), left # {}
  PROVE  Serving(q, dims, budget, rank, Picked(q, budget, rank, s, Min(left)), left \ {Min(left)})
<1> DEFINE order == InOrder(rank)
           dorder == InOrder(DimensionRank(dims))
           M == Cardinality(dims)
<1>1. M \in Nat
  BY TwoOrders
<1>2. PICK k \in 0 .. M : \E v \in [0 .. M -> Picks(DOMAIN rank)] :
        /\ Serves(v, q, budget, order, dorder, M)
        /\ s = v[k] /\ left = {dorder[i] : i \in k + 1 .. M}
  BY DEF Serving
<1>3. PICK v \in [0 .. M -> Picks(DOMAIN rank)] :
        /\ Serves(v, q, budget, order, dorder, M)
        /\ s = v[k] /\ left = {dorder[i] : i \in k + 1 .. M}
  BY <1>2
<1>4. /\ left = {} <=> k = M
      /\ left # {} => Min(left) = dorder[k + 1] /\ left \ {Min(left)} = {dorder[i] : i \in k + 2 .. M}
  BY <1>2, <1>3, NextDimension
<1> HIDE DEF order, dorder, M
<1>5. k + 1 \in 1 .. M /\ k + 1 \in 0 .. M /\ (k + 1) - 1 = k /\ (k + 1) + 1 = k + 2
  BY <1>1, <1>4
<1>6. v[k + 1] = FirstOf(q, budget, order, v[k], dorder[k + 1])
  BY <1>3, <1>5 DEF Serves
<1>7. s \in Picks(DOMAIN rank)
  BY <1>3
<1>8. v[k + 1] = Picked(q, budget, rank, s, Min(left))
  BY <1>3, <1>4, <1>6, <1>7, PickedIsFirst DEF order
<1>9. left \ {Min(left)} = {dorder[i] : i \in (k + 1) + 1 .. M}
  BY <1>4, <1>5
<1> DEFINE rest == left \ {Min(left)}
           t == Picked(q, budget, rank, s, Min(left))
<1> HIDE DEF rest, t
<1>10. \E j \in 0 .. M : \E v1 \in [0 .. M -> Picks(DOMAIN rank)] :
         /\ Serves(v1, q, budget, order, dorder, M)
         /\ t = v1[j] /\ rest = {dorder[i] : i \in j + 1 .. M}
  <2>1. t = v[k + 1] /\ rest = {dorder[i] : i \in (k + 1) + 1 .. M}
    BY <1>8, <1>9 DEF rest, t
  <2> QED BY <1>3, <1>5, <2>1
<1>11. Serving(q, dims, budget, rank, t, rest)
  BY <1>10 DEF Serving, order, dorder, M
<1> QED BY <1>11 DEF rest, t

\* After the dimensions the clauses are considered.
LEMMA FillingStarts ==
  ASSUME NEW q, NEW budget, NEW rank, Numbers(rank), NEW dims \in SUBSET Nat, IsFiniteSet(dims),
         NEW s, Serving(q, dims, budget, rank, s, {})
  PROVE  Filling(q, dims, budget, rank, s, 0)
<1> DEFINE order == InOrder(rank)
           N == Cardinality(DOMAIN rank)
           dorder == InOrder(DimensionRank(dims))
           M == Cardinality(dims)
           served == ServedFirst(q, budget, order, dorder)
<1>1. /\ N \in Nat /\ DOMAIN order = 1 .. N /\ \A k \in 1 .. N : order[k] \in DOMAIN rank /\ M \in Nat
  BY TwoOrders
<1>2. PICK k \in 0 .. M, v \in [0 .. M -> Picks(DOMAIN rank)] :
        /\ Serves(v, q, budget, order, dorder, M)
        /\ s = v[k] /\ {} = {dorder[i] : i \in k + 1 .. M}
  BY DEF Serving
<1>3. k = M
  BY <1>2, NextDimension
<1> HIDE DEF order, N, dorder, M
<1>4. s = served /\ s \in Picks(DOMAIN rank)
  BY <1>2, <1>3 DEF Serves
<1> HIDE DEF served
<1>5. PICK w \in [0 .. N -> Picks(DOMAIN rank)] : Fills(w, q, budget, served, order, N)
  BY <1>1, <1>4, FilledTrace
<1>6. s = w[0] /\ 0 \in 0 .. N
  BY <1>1, <1>4, <1>5 DEF Fills
<1>7. \E w1 \in [0 .. N -> Picks(DOMAIN rank)] : Fills(w1, q, budget, served, order, N) /\ 0 \in 0 .. N /\ s = w1[0]
  BY <1>5, <1>6
<1> QED BY <1>7 DEF Filling, order, N, dorder, served

\* One clause more is considered.
LEMMA FillingGoesOn ==
  ASSUME NEW q, NEW budget, NEW rank, Numbers(rank), NEW dims \in SUBSET Nat, IsFiniteSet(dims),
         NEW s, NEW n, Filling(q, dims, budget, rank, s, n), NEW r \in DOMAIN rank, rank[r] = n + 1
  PROVE  Filling(q, dims, budget, rank, Tried(q, budget, s, r), n + 1)
<1> DEFINE order == InOrder(rank)
           N == Cardinality(DOMAIN rank)
           served == ServedFirst(q, budget, order, InOrder(DimensionRank(dims)))
<1>1. N \in Nat /\ rank[r] \in 1 .. N /\ order[rank[r]] = r
  BY TwoOrders
<1>2. PICK w \in [0 .. N -> Picks(DOMAIN rank)] : Fills(w, q, budget, served, order, N) /\ n \in 0 .. N /\ s = w[n]
  BY DEF Filling
<1> HIDE DEF order, N, served
<1>3. n + 1 \in 1 .. N /\ n + 1 \in 0 .. N /\ (n + 1) - 1 = n /\ order[n + 1] = r
  BY <1>1, <1>2
<1>4. Tried(q, budget, s, r) = w[n + 1]
  BY <1>2, <1>3 DEF Fills
<1>5. \E w1 \in [0 .. N -> Picks(DOMAIN rank)] :
        Fills(w1, q, budget, served, order, N) /\ n + 1 \in 0 .. N /\ Tried(q, budget, s, r) = w1[n + 1]
  BY <1>2, <1>3, <1>4
<1> QED BY <1>5 DEF Filling, order, N, served

\* At the end the selection is the one that is replayed.
LEMMA FillingEnds ==
  ASSUME NEW q, NEW budget, NEW rank, NEW dims, NEW s,
         Filling(q, dims, budget, rank, s, Cardinality(DOMAIN rank))
  PROVE  s = Replayed(q, dims, budget, rank)
<1> DEFINE order == InOrder(rank)
           N == Cardinality(DOMAIN rank)
           dorder == InOrder(DimensionRank(dims))
           served == ServedFirst(q, budget, order, dorder)
<1>1. PICK w \in [0 .. N -> Picks(DOMAIN rank)] : Fills(w, q, budget, served, order, N) /\ s = w[N]
  BY DEF Filling
<1>2. s = Filled(q, budget, served, order)
  BY <1>1 DEF Fills
<1>3. Replayed(q, dims, budget, rank) = Filled(q, budget, served, order)
  BY DEF Replayed, ServedFirst, Filled, DimensionRank
<1> QED BY <1>2, <1>3

\* Of nothing, nothing is selected.
LEMMA NothingReplayed ==
  ASSUME NEW q, NEW budget, NEW dims \in SUBSET Nat, IsFiniteSet(dims)
  PROVE  Replayed(q, dims, budget, <<>>) = <<>>
<1> DEFINE rank == <<>>
           t == Replayed(q, dims, budget, rank)
<1>1. DOMAIN rank = {}
  OBVIOUS
<1> HIDE DEF rank
<1>2. Numbers(rank)
  <2>1. IsFiniteSet({}) /\ Cardinality({}) = 0
    BY FS_EmptySet
  <2>2. 1 .. 0 = {}
    OBVIOUS
  <2> QED BY <1>1, <2>1, <2>2 DEF Numbers
<1>3. Serving(q, dims, budget, rank, <<>>, dims)
  BY <1>2, ServingStarts
<1> DEFINE order == InOrder(rank)
           dorder == InOrder(DimensionRank(dims))
           M == Cardinality(dims)
<1>4. PICK v \in [0 .. M -> Picks(DOMAIN rank)] : Serves(v, q, budget, order, dorder, M)
  BY <1>3 DEF Serving
<1>5. M \in Nat
  BY <1>2, TwoOrders
<1>6. ASSUME NEW x \in Picks({}) PROVE x = <<>>
  <2>1. PICK X \in SUBSET {} : x \in [X -> Verdict]
    BY DEF Picks
  <2>2. X = {}
    OBVIOUS
  <2> QED BY <2>1, <2>2
<1> HIDE DEF order, dorder, M
<1>7. v[M] = <<>> /\ v[M] \in Picks(DOMAIN rank)
  BY <1>1, <1>4, <1>5, <1>6
<1>8. ServedFirst(q, budget, order, dorder) = v[M]
  BY <1>4 DEF Serves
<1>9. PICK w \in [0 .. 0 -> Picks(DOMAIN rank)] : Fills(w, q, budget, v[M], order, 0)
  <2>1. DOMAIN order = 1 .. Cardinality(DOMAIN rank)
    BY <1>2, TwoOrders DEF order
  <2>2. Cardinality(DOMAIN rank) = 0
    BY <1>1, FS_EmptySet
  <2>3. 0 \in Nat /\ DOMAIN order = 1 .. 0 /\ \A k \in 1 .. 0 : order[k] \in DOMAIN rank
    BY <2>1, <2>2
  <2> QED BY <1>7, <2>3, FilledTrace
<1>10. Filled(q, budget, v[M], order) = v[M]
  BY <1>9 DEF Fills
<1>11. t = Filled(q, budget, ServedFirst(q, budget, order, dorder), order)
  BY DEF Replayed, ServedFirst, Filled, DimensionRank, order, dorder
<1>12. t = <<>>
  BY <1>7, <1>8, <1>10, <1>11
<1> QED BY <1>12 DEF rank

-----------------------------------------------------------------------------
(* What is refused, and when.                                              *)

\* the selection in hand is on the way to the one that is replayed
SelectingInv ==
  turn = "select" =>
    IF Open(query, work) = {} THEN ranked = <<>> /\ status = <<>> /\ unserved = {} /\ reached = 0
    ELSE LET dims == query.units[work].dims IN
         \/ reached = 0 /\ Serving(query, dims, share[work], ranked, status, unserved)
         \/ unserved = {} /\ Filling(query, dims, share[work], ranked, status, reached)

\* a comparison was refused for a tie, and is refused for any
RefusedInv ==
  /\ turn = "raised" => TieForTheAI(query, pools)
  /\ \A k \in DOMAIN compared : ~TieForTheAI(query, compared[k].pools)

\* The unit in hand, and what its arm ranks.
LEMMA InHand ==
  ASSUME ShareInv, turn = "select"
  PROVE  /\ WellAsked(query) /\ share[work] \in Nat /\ Numbers(ranked) /\ DOMAIN ranked \subseteq Applicable(query)
         /\ IsUnit(query.units[work], DOMAIN query.clauses)
         /\ query.units[work].dims \in SUBSET Nat /\ IsFiniteSet(query.units[work].dims)
         /\ Selectable(query, DOMAIN ranked)
<1>1. WellAsked(query) /\ SharedOut /\ work \in 1 .. Len(share) /\ SelectsFrom
  BY DEF ShareInv
<1>2. IsUnit(query.units[work], DOMAIN query.clauses) /\ share[work] \in Nat
  BY <1>1, SharedUnits
<1>3. Numbers(ranked) /\ DOMAIN ranked \subseteq Applicable(query)
  BY <1>1 DEF SelectsFrom
<1>4. DOMAIN ranked \subseteq DOMAIN query.clauses /\ IsFiniteSet(DOMAIN ranked)
  BY <1>3 DEF Applicable, Numbers
<1>5. (\A r \in DOMAIN query.clauses : query.clauses[r].tokens \in Nat) /\ query.policy.results \in Nat
  BY <1>1 DEF WellAsked, IsClause
<1>6. Selectable(query, DOMAIN ranked)
  BY <1>4, <1>5 DEF Selectable
<1> QED BY <1>1, <1>2, <1>3, <1>6 DEF IsUnit

\* A unit without open dimensions ranks nothing.
LEMMA NothingToSelect ==
  ASSUME NEW q, NEW k, NEW hits, Recalled(q, k, hits), Open(q, k) = {}, NEW a
  PROVE  Fusion(q, hits, a) = <<>>
<1>1. hits = NoHits
  BY DEF Recalled
<1> QED BY <1>1, NothingOrdered DEF Fusion

\* A selection begins with nothing served.
LEMMA SelectionBegins ==
  ASSUME NEW q, WellAsked(q), NEW k, IsUnit(q.units[k], DOMAIN q.clauses), NEW hits, Recalled(q, k, hits),
         Open(q, k) # {}, NEW a, NEW budget
  PROVE  Serving(q, q.units[k].dims, budget, Fusion(q, hits, a), <<>>, q.units[k].dims)
<1>1. PICK outcome : hits = PoolsOf(q, q.units[k], outcome)
  BY DEF Recalled
<1>2. Rankable(q) /\ HitsFit(q, hits)
  BY <1>1, AskedIsRankable, PoolsFit
<1>3. Numbers(Order(q, hits, a, Active(a)))
  BY <1>2, OrderNumbers
<1>4. Numbers(Fusion(q, hits, a))
  BY <1>3 DEF Fusion
<1>5. q.units[k].dims \in SUBSET Nat /\ IsFiniteSet(q.units[k].dims)
  BY DEF IsUnit
<1> QED BY <1>4, <1>5, ServingStarts

\* A finished selection is the one that is replayed, and within its share.
LEMMA FinishedIsReplayed ==
  ShareInv /\ SelectingInv /\ turn = "select" /\ unserved = {} /\ reached = Cardinality(DOMAIN ranked)
    => ArmHolds(query, work, ranked, status)
<1> SUFFICES ASSUME ShareInv, SelectingInv, turn = "select", unserved = {}, reached = Cardinality(DOMAIN ranked)
             PROVE  ArmHolds(query, work, ranked, status)
  OBVIOUS
<1> DEFINE dims == query.units[work].dims
<1>1. /\ Numbers(ranked) /\ share[work] \in Nat /\ dims \in SUBSET Nat /\ IsFiniteSet(dims)
      /\ Selectable(query, DOMAIN ranked)
  BY InHand
<1>2. status = Replayed(query, dims, share[work], ranked)
  <2>1. CASE Open(query, work) = {}
    <3>1. ranked = <<>> /\ status = <<>>
      BY <2>1 DEF SelectingInv
    <3> QED BY <1>1, <3>1, NothingReplayed
  <2>2. CASE Open(query, work) # {}
    <3>1. \/ reached = 0 /\ Serving(query, dims, share[work], ranked, status, {})
          \/ Filling(query, dims, share[work], ranked, status, reached)
      BY <2>2 DEF SelectingInv
    <3>2. Filling(query, dims, share[work], ranked, status, reached)
      BY <1>1, <3>1, FillingStarts
    <3> QED BY <3>2, FillingEnds
  <2> QED BY <2>1, <2>2
<1>3. TokensIn(query, Chosen(Replayed(query, dims, share[work], ranked))) <= share[work]
  BY <1>1, ReplayedWell
<1> QED BY <1>2, <1>3 DEF ArmHolds

\* the selection in hand, and what has been compared so far
CheckedInv == SelectingInv /\ RefusedInv

\* Nothing is selected or refused at the start.
LEMMA InitChecked == PipelineInit => CheckedInv
<1> SUFFICES ASSUME PipelineInit PROVE CheckedInv
  OBVIOUS
<1>1. turn \in {"idle", "asked"} /\ compared = <<>>
  BY DEF PipelineInit, Unasked, RetrievalInit
<1>2. DOMAIN compared = {}
  BY <1>1
<1> QED BY <1>1, <1>2 DEF CheckedInv, SelectingInv, RefusedInv

\* Recalling begins the static arm.
LEMMA RecallIsChecked == ShareInv /\ RefusedInv /\ Recall => CheckedInv'
<1> SUFFICES ASSUME ShareInv, RefusedInv, Recall PROVE CheckedInv'
  OBVIOUS
<1>1. /\ turn = "recall" /\ turn' = "select" /\ UNCHANGED <<query, share, work, compared>>
      /\ ranked' = Fusion(query, pools', "static_vector") /\ status' = <<>> /\ reached' = 0
      /\ unserved' = IF Open(query, work) = {} THEN {} ELSE query.units[work].dims
  BY DEF Recall, Begin
<1>2. WellAsked(query) /\ IsUnit(query.units[work], DOMAIN query.clauses)
  BY <1>1, SharedUnits DEF ShareInv
<1>3. Recalled(query, work, pools')
  BY DEF Recall, Recalled
<1>4. ASSUME Open(query, work) = {} PROVE SelectingInv'
  <2>1. ranked' = <<>> /\ unserved' = {}
    BY <1>1, <1>3, <1>4, NothingToSelect
  <2> QED BY <1>1, <1>4, <2>1 DEF SelectingInv
<1>5. ASSUME Open(query, work) # {} PROVE SelectingInv'
  <2>1. Serving(query, query.units[work].dims, share[work], ranked', <<>>, query.units[work].dims)
    BY <1>1, <1>2, <1>3, <1>5, SelectionBegins
  <2> QED BY <1>1, <1>5, <2>1 DEF SelectingInv
<1>6. SelectingInv'
  BY <1>4, <1>5
<1>7. RefusedInv'
  BY <1>1 DEF RefusedInv
<1> QED BY <1>6, <1>7 DEF CheckedInv

\* Serving a dimension follows the selection.
LEMMA ServeIsChecked == ShareInv /\ CheckedInv /\ ServeDimension => CheckedInv'
<1> SUFFICES ASSUME ShareInv, CheckedInv, ServeDimension PROVE CheckedInv'
  OBVIOUS
<1> DEFINE dims == query.units[work].dims
<1>1. /\ turn = "select" /\ unserved # {}
      /\ status' = Picked(query, share[work], ranked, status, Min(unserved)) /\ unserved' = unserved \ {Min(unserved)}
      /\ UNCHANGED <<query, turn, share, work, pools, ranked, reached, compared>>
  BY DEF ServeDimension, Served, Picked, recall
<1>2. Open(query, work) # {} /\ reached = 0 /\ Serving(query, dims, share[work], ranked, status, unserved)
  BY <1>1 DEF CheckedInv, SelectingInv
<1>3. Numbers(ranked) /\ dims \in SUBSET Nat /\ IsFiniteSet(dims)
  BY <1>1, InHand
<1> HIDE DEF dims
<1>4. Serving(query, dims, share[work], ranked, Picked(query, share[work], ranked, status, Min(unserved)),
              unserved \ {Min(unserved)})
  BY <1>1, <1>2, <1>3, ServingGoesOn
<1>5. Serving(query, dims, share[work], ranked, status', unserved')
  BY <1>1, <1>4
<1>6. SelectingInv'
  BY <1>1, <1>2, <1>5 DEF SelectingInv, dims
<1>7. RefusedInv'
  BY <1>1 DEF CheckedInv, RefusedInv
<1> QED BY <1>6, <1>7 DEF CheckedInv

\* So does considering a clause.
LEMMA ConsiderIsChecked == ASSUME NEW r \in DOMAIN ranked PROVE ShareInv /\ CheckedInv /\ Consider(r) => CheckedInv'
<1> SUFFICES ASSUME ShareInv, CheckedInv, Consider(r) PROVE CheckedInv'
  OBVIOUS
<1> DEFINE dims == query.units[work].dims
<1>1. /\ turn = "select" /\ unserved = {} /\ ranked[r] = reached + 1
      /\ reached' = ranked[r] /\ status' = Tried(query, share[work], status, r)
      /\ UNCHANGED <<query, turn, share, work, pools, ranked, unserved, compared>>
  BY DEF Consider, recall
<1>2. Numbers(ranked) /\ dims \in SUBSET Nat /\ IsFiniteSet(dims)
  BY <1>1, InHand
<1>3. Open(query, work) # {}
  <2>1. ranked # <<>>
    OBVIOUS
  <2> QED BY <1>1, <2>1 DEF CheckedInv, SelectingInv
<1>4. \/ reached = 0 /\ Serving(query, dims, share[work], ranked, status, {})
      \/ Filling(query, dims, share[work], ranked, status, reached)
  BY <1>1, <1>3 DEF CheckedInv, SelectingInv
<1> HIDE DEF dims
<1>5. Filling(query, dims, share[work], ranked, status, reached)
  BY <1>2, <1>4, FillingStarts
<1>6. Filling(query, dims, share[work], ranked, Tried(query, share[work], status, r), reached + 1)
  BY <1>1, <1>2, <1>5, FillingGoesOn
<1>7. Filling(query, dims, share[work], ranked, status', reached')
  BY <1>1, <1>6
<1>8. SelectingInv'
  BY <1>1, <1>3, <1>7 DEF SelectingInv, dims
<1>9. RefusedInv'
  BY <1>1 DEF CheckedInv, RefusedInv
<1> QED BY <1>8, <1>9 DEF CheckedInv

\* An arm that is finished is accepted.
LEMMA FinishIsChecked == ShareInv /\ MadeInv /\ CheckedInv /\ FinishArm => CheckedInv'
<1> SUFFICES ASSUME ShareInv, MadeInv, CheckedInv, FinishArm PROVE CheckedInv'
  OBVIOUS
<1>1. turn = "select" /\ unserved = {} /\ reached = Cardinality(DOMAIN ranked)
  BY DEF FinishArm
<1>2. ArmHolds(query, work, ranked, status)
  BY <1>1, FinishedIsReplayed DEF CheckedInv
<1>3. /\ UNCHANGED <<query, share, work, pools, compared>>
      /\ turn' = IF arm = "hybrid" THEN "compare" ELSE turn
      /\ arm # "hybrid" => Begin(pools, "hybrid")
  BY <1>2 DEF FinishArm, recall
<1>4. RefusedInv'
  BY <1>1, <1>3 DEF CheckedInv, RefusedInv
<1>5. CASE arm = "hybrid"
  BY <1>3, <1>4, <1>5 DEF CheckedInv, SelectingInv
<1>6. CASE arm # "hybrid"
  <2>1. /\ ranked' = Fusion(query, pools, "hybrid") /\ status' = <<>> /\ reached' = 0
        /\ unserved' = IF Open(query, work) = {} THEN {} ELSE query.units[work].dims
    BY <1>3, <1>6 DEF Begin
  <2>2. WellAsked(query) /\ IsUnit(query.units[work], DOMAIN query.clauses)
    BY <1>1, InHand
  <2>3. Recalled(query, work, pools)
    BY <1>1 DEF MadeInv
  <2>4. ASSUME Open(query, work) = {} PROVE SelectingInv'
    <3>1. ranked' = <<>> /\ unserved' = {}
      BY <2>1, <2>3, <2>4, NothingToSelect
    <3> QED BY <1>3, <2>1, <2>4, <3>1 DEF SelectingInv
  <2>5. ASSUME Open(query, work) # {} PROVE SelectingInv'
    <3>1. Serving(query, query.units[work].dims, share[work], ranked', <<>>, query.units[work].dims)
      BY <2>1, <2>2, <2>3, <2>5, SelectionBegins
    <3> QED BY <1>3, <2>1, <2>5, <3>1 DEF SelectingInv
  <2>6. SelectingInv'
    BY <2>4, <2>5
  <2> QED BY <1>4, <2>6 DEF CheckedInv
<1> QED BY <1>5, <1>6

\* A comparison is refused if there is a tie, and only then.
LEMMA CompareIsChecked == EvidenceInv /\ ShareInv /\ MadeInv /\ CheckedInv /\ CompareUnit => CheckedInv'
<1> SUFFICES ASSUME EvidenceInv, ShareInv, MadeInv, CheckedInv, CompareUnit PROVE CheckedInv'
  OBVIOUS
<1> DEFINE made == Made
<1>1. /\ turn = "compare" /\ UNCHANGED <<query, share, pools>>
      /\ \/ ~UnitHolds(query, work, pools, made) /\ turn' = "raised" /\ UNCHANGED <<work, compared>>
         \/ /\ UnitHolds(query, work, pools, made)
            /\ compared' = Append(compared, [pools |-> pools, arms |-> made])
            /\ turn' = IF work = Len(share) THEN "bind" ELSE "recall"
  BY DEF CompareUnit, recall
<1>2. WellAsked(query) /\ IsUnit(query.units[work], DOMAIN query.clauses)
  BY <1>1, SharedUnits DEF ShareInv
<1>3. Recalled(query, work, pools) /\ \A n \in DOMAIN arms : arms[n] = Armed(query, work, share[work], pools, notes, Arms[n])
  BY <1>1 DEF MadeInv
<1>4. 1 \in DOMAIN arms /\ 2 \in DOMAIN arms
  <2>1. PICK S : arms \in Seq(S)
    BY DEF EvidenceInv, ArmsInv
  <2> QED BY <1>1, <2>1 DEF EvidenceInv, ArmsInv
<1>5. ASSUME NEW a \in Arm
      PROVE  made[a].rank = IF Open(query, work) = {} THEN <<>> ELSE Fusion(query, pools, a)
  <2>1. made["static_vector"] = arms[1] /\ made["hybrid"] = arms[2] /\ Arms[1] = "static_vector" /\ Arms[2] = "hybrid"
    BY DEF Made, Arms
  <2>2. made[a] = Armed(query, work, share[work], pools, notes, a)
    BY <1>3, <1>4, <2>1 DEF Arm
  <2> HIDE DEF made
  <2> QED BY <2>2 DEF Armed, Evidence
<1> HIDE DEF made
<1>6. UnitHolds(query, work, pools, made) <=> ~TieForTheAI(query, pools)
  BY <1>2, <1>3, <1>5, HeldUnlessTie
<1>7. CASE turn' = "raised"
  <2>1. ~UnitHolds(query, work, pools, made) /\ UNCHANGED <<work, compared>>
    BY <1>1, <1>7
  <2> QED BY <1>1, <1>6, <1>7, <2>1 DEF CheckedInv, SelectingInv, RefusedInv
<1>8. CASE turn' # "raised"
  <2>1. /\ ~TieForTheAI(query, pools) /\ compared' = Append(compared, [pools |-> pools, arms |-> made])
        /\ turn' # "select"
    BY <1>1, <1>6, <1>8
  <2>2. PICK S : compared \in Seq(S)
    BY DEF EvidenceInv
  <2> DEFINE e == [pools |-> pools, arms |-> made]
  <2>3. e.pools = pools /\ compared' = Append(compared, e)
    BY <2>1
  <2> HIDE DEF e
  <2>4. /\ DOMAIN compared' = 1 .. Len(compared) + 1 /\ DOMAIN compared = 1 .. Len(compared)
        /\ compared'[Len(compared) + 1] = e /\ Len(compared) \in Nat
        /\ \A k \in 1 .. Len(compared) : compared'[k] = compared[k]
    BY <2>2, <2>3, OneMore
  <2>5. ASSUME NEW k \in DOMAIN compared' PROVE ~TieForTheAI(query, compared'[k].pools)
    <3>1. k \in 1 .. Len(compared) \/ k = Len(compared) + 1
      BY <2>4
    <3>2. CASE k = Len(compared) + 1
      BY <2>1, <2>3, <2>4, <3>2
    <3>3. CASE k \in 1 .. Len(compared)
      <4>1. k \in DOMAIN compared /\ compared'[k] = compared[k]
        BY <2>4, <3>3
      <4> QED BY <4>1 DEF CheckedInv, RefusedInv
    <3> QED BY <3>1, <3>2, <3>3
  <2> QED BY <1>1, <1>8, <2>1, <2>5 DEF CheckedInv, SelectingInv, RefusedInv
<1> QED BY <1>7, <1>8

\* The end refuses nothing.
LEMMA ConcludeIsChecked == ShareInv /\ MadeInv /\ CheckedInv /\ Conclude => CheckedInv'
<1> SUFFICES ASSUME ShareInv, MadeInv, CheckedInv, Conclude PROVE CheckedInv'
  OBVIOUS
<1>1. /\ turn = "bind" /\ turn' = IF BindingHolds(query, compared) THEN "returned" ELSE "raised"
      /\ UNCHANGED <<query, pools, compared>>
  BY DEF Conclude, recall
<1>2. WellAsked(query) /\ SharedOut
  BY <1>1 DEF ShareInv
<1>3. ASSUME NEW k \in DOMAIN compared
      PROVE  IsUnit(query.units[k], DOMAIN query.clauses) /\ Recalled(query, k, compared[k].pools)
  <2>1. k \in DOMAIN share
    <3>1. "static_vector" \in Arm
      BY DEF Arm
    <3> QED BY <3>1 DEF ShareInv
  <2> QED BY <1>2, <2>1, SharedUnits DEF MadeInv
<1>4. BindingHolds(query, compared)
  BY <1>2, <1>3, RecalledIsBound
<1> QED BY <1>1, <1>4 DEF CheckedInv, SelectingInv, RefusedInv

\* No step refuses anything but a tie.
LEMMA NextChecked ==
  EvidenceInv /\ ShareInv /\ MadeInv /\ CheckedInv /\ [PipelineNext]_pipelineVars => CheckedInv'
<1> SUFFICES ASSUME EvidenceInv, ShareInv, MadeInv, CheckedInv, [PipelineNext]_pipelineVars PROVE CheckedInv'
  OBVIOUS
<1>1. CASE AnalysisStep \/ FileStep \/ UNCHANGED pipelineVars \/ Answered
  <2>1. UNCHANGED <<query, turn, share, work, pools, notes, ranked, status, unserved, reached, compared>>
    BY <1>1 DEF AnalysisStep, FileStep, Answered, pipelineVars, retrievalVars, recall, selecting
  <2> QED BY <2>1 DEF CheckedInv, SelectingInv, RefusedInv
<1>2. CASE AskForEvidence \/ BuildRequest \/ RetrieveUnit
  <2>1. /\ turn \in {"idle", "asked", "control"} /\ turn' \notin {"select", "raised"} /\ compared' = compared
    BY <1>2 DEF AskForEvidence, BuildRequest, RetrieveUnit
  <2>2. DOMAIN compared' = {}
    BY <2>1 DEF EvidenceInv
  <2> QED BY <2>1, <2>2 DEF CheckedInv, SelectingInv, RefusedInv
<1> QED BY <1>1, <1>2, RecallIsChecked, ServeIsChecked, ConsiderIsChecked, FinishIsChecked, CompareIsChecked,
           ConcludeIsChecked
        DEF PipelineNext, RetrievalStep, RetrievalNext, CheckedInv

\* Only ties are refused, for every request, answer of the vector search and
\* choice of candidates.  A unit's comparison is held against the order in which
\* the clauses found stand when the AI's hits are counted; the static arm ranked
\* them without it.  The comparison raises if two clauses tie in all but the
\* AI's score and their numbers speak against it, and for no other reason: what
\* the arms select, step by step, is what a replay of the selection finds.
THEOREM TiesAreRefused == PipelineSpec => []RefusedOnlyForATie
<1>1. PipelineInit => EvidenceInv /\ ShareInv /\ MadeInv /\ CheckedInv
  BY InitEvidence, InitShares, InitMade, InitChecked
<1>2. EvidenceInv /\ ShareInv /\ MadeInv /\ CheckedInv /\ [PipelineNext]_pipelineVars
        => (EvidenceInv /\ ShareInv /\ MadeInv /\ CheckedInv)'
  BY NextEvidence, NextShares, NextMade, NextChecked
<1>3. CheckedInv => RefusedOnlyForATie
  BY DEF CheckedInv, RefusedInv, RefusedOnlyForATie
<1> QED BY <1>1, <1>2, <1>3, PTL DEF PipelineSpec

-----------------------------------------------------------------------------
(* The facts of a unit.                                                    *)

\* what a source holds: numbers for offsets and lines, and regions apart
\* from declarations
LEMMA ParsedTyped ==
  ASSUME NEW source, IsParsed(source)
  PROVE  /\ \A x \in source.declarations \cup source.regions :
              /\ x.first \in Nat /\ x.last \in Nat /\ x.from \in Nat /\ x.to \in Nat
              /\ x.host = <<>> \/ x.host \in DeclarationKind \X Nat \X Nat
         /\ \A f \in source.facts :
              f.from \in Nat /\ f.to \in Nat /\ f.first \in Nat /\ f.last \in Nat /\ f.from < f.to
<1>1. source.declarations \subseteq Declaration /\ source.regions \subseteq ReviewRegion
  BY DEF IsParsed
<1>2. \A x \in Declaration :
        /\ x.first \in Nat /\ x.last \in Nat /\ x.from \in Nat /\ x.to \in Nat
        /\ x.host = <<>> \/ x.host \in DeclarationKind \X Nat \X Nat
  BY DEF Declaration
<1>3. \A x \in ReviewRegion :
        /\ x.first \in Nat /\ x.last \in Nat /\ x.from \in Nat /\ x.to \in Nat
        /\ x.host = <<>> \/ x.host \in DeclarationKind \X Nat \X Nat
  BY DEF ReviewRegion
<1>4. \A f \in source.facts :
        f.from \in Nat /\ f.to \in Nat /\ f.first \in Nat /\ f.last \in Nat /\ f.from < f.to
  BY DEF IsParsed
<1> QED BY <1>1, <1>2, <1>3, <1>4

\* A declaration has a kind, which a region has not.
LEMMA RegionsApart ==
  ASSUME NEW d \in Declaration, NEW r \in ReviewRegion
  PROVE  d # r
<1>1. "kind" \in DOMAIN d
  BY DEF Declaration
<1>2. "kind" \notin DOMAIN r
  BY DEF ReviewRegion
<1> QED BY <1>1, <1>2

\* How the declarations below one are found.
LEMMA DescendantStages ==
  ASSUME NEW source, NEW x, IsFiniteSet(source.declarations)
  PROVE  \E below :
           /\ below[0] = {x}
           /\ \A n \in 1 .. Cardinality(source.declarations) :
                below[n] = below[n - 1] \cup HeldBy(source.declarations, below[n - 1])
           /\ Descendants(source, x) = below[Cardinality(source.declarations)]
<1> DEFINE N == Cardinality(source.declarations)
           Stages(m, f) ==
             f = [n \in 0 .. m |-> IF n = 0 THEN {x} ELSE f[n - 1] \cup HeldBy(source.declarations, f[n - 1])]
           P == {m \in 0 .. N : \E f : Stages(m, f)}
<1>1. N \in Nat
  BY FS_CardinalityType
<1> HIDE DEF N
<1>2. 0 \in P
  <2> DEFINE f == [n \in 0 .. 0 |-> {x}]
  <2>1. \A n \in 0 .. 0 : n = 0
    OBVIOUS
  <2>2. Stages(0, f)
    BY <2>1
  <2> HIDE DEF f
  <2> QED BY <1>1, <2>2
<1>3. ASSUME NEW k \in 1 .. N, k - 1 \in P PROVE k \in P
  <2>1. k \in 0 .. N /\ k \in Nat /\ k - 1 \in 0 .. k
    BY <1>1, <1>3
  <2>2. PICK f : Stages(k - 1, f)
    BY <1>3
  <2> DEFINE h == [n \in 0 .. k |-> IF n = k THEN f[k - 1] \cup HeldBy(source.declarations, f[k - 1]) ELSE f[n]]
  <2>3. \A n \in 0 .. k :
          h[n] = IF n = 0 THEN {x} ELSE h[n - 1] \cup HeldBy(source.declarations, h[n - 1])
    <3>1. SUFFICES ASSUME NEW n \in 0 .. k
                   PROVE  h[n] = IF n = 0 THEN {x} ELSE h[n - 1] \cup HeldBy(source.declarations, h[n - 1])
      OBVIOUS
    <3>2. CASE n = k
      <4>1. n # 0 /\ n - 1 \in 0 .. k /\ n - 1 # k
        BY <1>3, <3>2
      <4>2. h[n - 1] = f[k - 1] /\ h[n] = f[k - 1] \cup HeldBy(source.declarations, f[k - 1])
        BY <3>2, <4>1
      <4> QED BY <4>1, <4>2
    <3>3. CASE n # k
      <4>1. n \in 0 .. k - 1 /\ n \in 0 .. k
        BY <2>1, <3>3
      <4>2. h[n] = f[n] /\ f[n] = IF n = 0 THEN {x} ELSE f[n - 1] \cup HeldBy(source.declarations, f[n - 1])
        BY <2>2, <3>3, <4>1
      <4>3. n # 0 => n - 1 \in 0 .. k /\ n - 1 # k
        BY <2>1, <4>1
      <4>4. n # 0 => h[n - 1] = f[n - 1]
        BY <4>3
      <4> QED BY <4>2, <4>4
    <3> QED BY <3>2, <3>3
  <2>4. h = [n \in 0 .. k |-> h[n]]
    OBVIOUS
  <2>5. Stages(k, h)
    <3> HIDE DEF h
    <3> QED BY <2>3, <2>4
  <2> HIDE DEF h
  <2> QED BY <2>1, <2>5
<1> HIDE DEF P
<1>4. N \in P
  <2>1. \A k \in 0 .. N : k \in P
    BY <1>1, <1>2, <1>3, StepByStep
  <2> QED BY <1>1, <2>1
<1> DEFINE below == CHOOSE f : Stages(N, f)
<1>5. Stages(N, below)
  BY <1>4 DEF P
<1>6. Descendants(source, x) = below[N]
  BY DEF Descendants, N
<1> HIDE DEF below
<1>7. 0 \in 0 .. N /\ \A n \in 1 .. N : n \in 0 .. N /\ n # 0
  BY <1>1
<1>8. below[0] = {x} /\ \A n \in 1 .. N : below[n] = below[n - 1] \cup HeldBy(source.declarations, below[n - 1])
  BY <1>5, <1>7
<1> QED BY <1>6, <1>8 DEF N

\* Around is an order of the structures.
LEMMA AroundInside ==
  ASSUME NEW x, NEW y, NEW z, Around(x, y), Around(y, z),
         x.from \in Nat, y.from \in Nat, z.from \in Nat, x.to \in Nat, y.to \in Nat, z.to \in Nat
  PROVE  Around(x, z)
BY DEF Around

\* What a declaration holds is inside it.
LEMMA HeldInside ==
  ASSUME NEW source, IsParsed(source), NEW h, NEW x \in source.declarations \cup source.regions,
         x.host = Place(h)
  PROVE  /\ Around(h, x) /\ h.from \in Nat /\ h.to \in Nat
         /\ x \in source.declarations => Width(x) < Width(h)
<1>1. x.host # <<>>
  BY DEF Place
<1>2. PICK d \in source.declarations :
        Place(d) = x.host /\ Around(d, x) /\ (x \in source.declarations => Width(x) < Width(d))
  BY <1>1 DEF IsParsed
<1>3. h.from = d.from /\ h.to = d.to
  BY <1>2 DEF Place
<1>4. d.from \in Nat /\ d.to \in Nat
  BY ParsedTyped
<1> QED BY <1>2, <1>3, <1>4 DEF Around, Width

\* The declarations below one are inside it.
LEMMA DescendantsInside ==
  ASSUME NEW source, IsParsed(source), NEW x \in source.declarations
  PROVE  /\ x \in Descendants(source, x)
         /\ \A y \in Descendants(source, x) : y \in source.declarations /\ Around(x, y)
<1>1. PICK below :
        /\ below[0] = {x}
        /\ \A n \in 1 .. Cardinality(source.declarations) :
             below[n] = below[n - 1] \cup HeldBy(source.declarations, below[n - 1])
        /\ Descendants(source, x) = below[Cardinality(source.declarations)]
  BY DescendantStages DEF IsParsed
<1> DEFINE N == Cardinality(source.declarations)
           P == {n \in 0 .. N : x \in below[n] /\ \A y \in below[n] : y \in source.declarations /\ Around(x, y)}
<1>2. N \in Nat
  BY FS_CardinalityType DEF IsParsed
<1> HIDE DEF N
<1>3. 0 \in P
  BY <1>1, <1>2, ParsedTyped DEF Around
<1>4. ASSUME NEW k \in 1 .. N, k - 1 \in P PROVE k \in P
  <2>1. below[k] = below[k - 1] \cup HeldBy(source.declarations, below[k - 1]) /\ k \in 0 .. N
    BY <1>1, <1>2, <1>4 DEF N
  <2>2. ASSUME NEW y \in HeldBy(source.declarations, below[k - 1])
        PROVE  y \in source.declarations /\ Around(x, y)
    <3>1. y \in source.declarations
      BY DEF HeldBy
    <3>2. PICK h \in below[k - 1] : y.host = Place(h)
      BY DEF HeldBy
    <3>3. Around(h, y) /\ Around(x, h) /\ h \in source.declarations
      BY <1>4, <3>1, <3>2, HeldInside
    <3> QED BY <3>1, <3>3, AroundInside, ParsedTyped
  <2> QED BY <1>4, <2>1, <2>2
<1> HIDE DEF P
<1>5. N \in P
  <2>1. \A k \in 0 .. N : k \in P
    BY <1>2, <1>3, <1>4, StepByStep
  <2> QED BY <1>2, <2>1
<1> QED BY <1>1, <1>5 DEF P, N

\* And what they hold is below it as well: in as many rounds as there are
\* declarations, one of the rounds finds nothing new.
LEMMA DescendantsClosed ==
  ASSUME NEW source, IsParsed(source), NEW x \in source.declarations
  PROVE  HeldBy(source.declarations, Descendants(source, x)) \subseteq Descendants(source, x)
<1> DEFINE D == source.declarations
           N == Cardinality(D)
<1>1. PICK below :
        /\ below[0] = {x}
        /\ \A n \in 1 .. N : below[n] = below[n - 1] \cup HeldBy(D, below[n - 1])
        /\ Descendants(source, x) = below[N]
  BY DescendantStages DEF IsParsed
<1>2. N \in Nat /\ IsFiniteSet(D) /\ x \in D
  BY FS_CardinalityType DEF IsParsed
<1> HIDE DEF N
<1> DEFINE Closed(S) == HeldBy(D, S) \subseteq S
           P == {n \in 0 .. N : below[n] \subseteq D /\ (Closed(below[n]) \/ Cardinality(below[n]) >= n + 1)}
<1>3. \A S : HeldBy(D, S) \subseteq D
  BY DEF HeldBy
<1> HIDE DEF D
<1>4. 0 \in P
  <2>1. Cardinality({x}) = 1
    BY FS_Singleton
  <2>2. below[0] \subseteq D /\ Cardinality(below[0]) >= 0 + 1 /\ 0 \in 0 .. N
    BY <1>1, <1>2, <2>1
  <2> HIDE DEF Closed
  <2> QED BY <2>2
<1>5. ASSUME NEW k \in 1 .. N, k - 1 \in P PROVE k \in P
  <2>1. below[k] = below[k - 1] \cup HeldBy(D, below[k - 1]) /\ k \in 0 .. N /\ k \in Nat
    BY <1>1, <1>2, <1>5
  <2>2. below[k - 1] \subseteq D /\ (Closed(below[k - 1]) \/ Cardinality(below[k - 1]) >= k)
    BY <1>5, <2>1
  <2>3. below[k] \subseteq D
    BY <1>3, <2>1, <2>2
  <2>4. CASE Closed(below[k - 1])
    <3>1. below[k] = below[k - 1]
      BY <2>1, <2>4
    <3> QED BY <2>1, <2>3, <2>4, <3>1
  <2>5. CASE ~Closed(below[k - 1])
    <3>1. below[k - 1] \subseteq below[k] /\ below[k - 1] # below[k]
      BY <2>1, <2>5
    <3>2. IsFiniteSet(below[k])
      BY <1>2, <2>3, FS_Subset
    <3>3. /\ Cardinality(below[k - 1]) <= Cardinality(below[k])
          /\ Cardinality(below[k - 1]) = Cardinality(below[k]) => below[k - 1] = below[k]
      BY <3>1, <3>2, FS_Subset
    <3>4. Cardinality(below[k]) \in Nat /\ Cardinality(below[k - 1]) \in Nat
      BY <3>1, <3>2, FS_Subset, FS_CardinalityType
    <3>5. Cardinality(below[k]) >= k + 1
      BY <2>1, <2>2, <2>5, <3>1, <3>3, <3>4
    <3> HIDE DEF Closed
    <3> QED BY <2>1, <2>3, <3>5
  <2> QED BY <2>4, <2>5
<1> HIDE DEF P
<1>6. N \in P
  <2>1. \A k \in 0 .. N : k \in P
    BY <1>2, <1>4, <1>5, StepByStep
  <2> QED BY <1>2, <2>1
<1>7. below[N] \subseteq D /\ (Closed(below[N]) \/ Cardinality(below[N]) >= N + 1)
  BY <1>6 DEF P
<1>8. Cardinality(below[N]) <= N /\ Cardinality(below[N]) \in Nat
  BY <1>2, <1>7, FS_Subset, FS_CardinalityType DEF N
<1>9. Closed(below[N])
  BY <1>2, <1>7, <1>8
<1> QED BY <1>1, <1>9 DEF D

-----------------------------------------------------------------------------
\* A fact that counts for a unit stands in its owner's text.
LEMMA ExactIsInside ==
  ASSUME NEW source, IsParsed(source), NEW u, OwnerMatches(source, u)
  PROVE  ExactFacts(source, u) \subseteq FactsInside(source, u)
<1>1. CASE ~Owned(source, u)
  BY <1>1 DEF ExactFacts
<1>2. CASE Owned(source, u)
  <2> DEFINE x == u.owner
  <2>1. x \in source.declarations \cup source.regions
    BY <1>2 DEF OwnerMatches
  <2>2. ASSUME NEW y \in EligibleOwners(source, x)
        PROVE  y \in source.declarations \cup source.regions /\ Around(x, y)
    <3>1. CASE x \in source.regions
      <4>1. y = x
        BY <2>2, <3>1 DEF EligibleOwners
      <4> QED BY <2>1, <4>1, ParsedTyped DEF Around
    <3>2. CASE x \notin source.regions
      <4>1. x \in source.declarations
        BY <2>1, <3>2
      <4>2. y \in Descendants(source, x) \/ y \in HeldBy(source.regions, Descendants(source, x))
        BY <2>2, <3>2 DEF EligibleOwners
      <4>3. CASE y \in Descendants(source, x)
        BY <4>1, <4>3, DescendantsInside
      <4>4. CASE y \in HeldBy(source.regions, Descendants(source, x))
        <5>1. y \in source.regions
          BY <4>4 DEF HeldBy
        <5>2. PICK h \in Descendants(source, x) : y.host = Place(h)
          BY <4>4 DEF HeldBy
        <5>3. Around(h, y) /\ Around(x, h) /\ h \in source.declarations
          BY <4>1, <5>1, <5>2, HeldInside, DescendantsInside
        <5> QED BY <2>1, <5>1, <5>3, AroundInside, ParsedTyped
      <4> QED BY <4>2, <4>3, <4>4
    <3> QED BY <3>1, <3>2
  <2>3. ASSUME NEW g \in source.facts, NEW y \in EligibleOwners(source, x), IsOwner(source, y, g)
        PROVE  Around(x, g)
    <3>1. Around(x, y) /\ Around(y, g) /\ y \in source.declarations \cup source.regions
      BY <2>2, <2>3 DEF IsOwner
    <3> QED BY <2>1, <3>1, AroundInside, ParsedTyped
  <2> HIDE DEF x
  <2> QED BY <1>2, <2>3 DEF ExactFacts, FactsInside, x
<1> QED BY <1>1, <1>2

\* The structures around a fact that are no wider than a struct or class around
\* it are among those whose facts count for it.
LEMMA NarrowerAreEligible ==
  ASSUME NEW source, IsParsed(source), IsTree(source), NEW f \in source.facts,
         NEW e \in source.declarations, e.kind \in Host, Around(e, f),
         NEW y \in source.declarations \cup source.regions, Around(y, f), Width(y) <= Width(e)
  PROVE  y \in EligibleOwners(source, e)
<1> DEFINE around == {d \in source.declarations : Around(d, f)}
           fields == {r \in source.regions : Around(r, f)}
           W == Width(e)
           P == {k \in 0 .. W : \A d \in around : W - Width(d) \in 0 .. k => d \in Descendants(source, e)}
<1>1. /\ \A d, h \in around : Width(d) = Width(h) => d = h
      /\ \A x \in (around \cup fields) \ {e} :
           Width(x) <= W => \E h \in around : x.host = Place(h) /\ Width(h) <= W
  BY DEF IsTree
<1>2. \A x \in around \cup fields : Width(x) \in Nat
  <2>1. SUFFICES ASSUME NEW x \in around \cup fields PROVE Width(x) \in Nat
    OBVIOUS
  <2>2. x.from \in Nat /\ x.to \in Nat /\ f.from \in Nat /\ f.to \in Nat /\ f.from < f.to
    BY ParsedTyped
  <2>3. x.from <= f.from /\ f.to <= x.to
    BY DEF Around
  <2> QED BY <2>2, <2>3 DEF Width
<1>3. e \in around /\ W \in Nat
  BY <1>2
<1>4. e \in Descendants(source, e)
  BY DescendantsInside
<1>5. \A x \in source.declarations \cup source.regions : \A h \in around :
        x.host = Place(h) /\ x \in source.declarations => Width(x) < Width(h)
  BY HeldInside
<1> DEFINE D == Descendants(source, e)
<1>6. \A x \in source.declarations : \A h \in D : x.host = Place(h) => x \in D
  BY DescendantsClosed DEF HeldBy
<1>7. around \subseteq source.declarations /\ fields \subseteq source.regions
  OBVIOUS
<1>8. y \in around \cup fields /\ Width(y) <= W
  OBVIOUS
<1> HIDE DEF around, fields, W, D
<1>9. 0 \in P
  <2>1. SUFFICES ASSUME NEW d \in around, W - Width(d) \in 0 .. 0 PROVE d \in D
    BY <1>3 DEF D
  <2>2. Width(d) = W
    BY <1>2, <1>3, <2>1
  <2>3. d = e
    BY <1>1, <1>3, <2>2 DEF W
  <2> QED BY <1>4, <2>3 DEF D
<1>10. ASSUME NEW k \in 1 .. W, k - 1 \in P PROVE k \in P
  <2>1. k \in 0 .. W
    BY <1>3
  <2>2. SUFFICES ASSUME NEW d \in around, W - Width(d) \in 0 .. k PROVE d \in D
    BY <2>1 DEF D
  <2>3. CASE d = e
    BY <1>4, <2>3 DEF D
  <2>4. CASE d # e
    <3>1. Width(d) \in Nat /\ Width(d) <= W
      BY <1>2, <1>3, <2>2
    <3>2. PICK h \in around : d.host = Place(h) /\ Width(h) <= W
      BY <1>1, <2>4, <3>1
    <3>3. Width(d) < Width(h) /\ Width(h) \in Nat
      BY <1>2, <1>5, <1>7, <3>2
    <3>4. W - Width(h) \in 0 .. k - 1
      BY <1>3, <2>2, <3>1, <3>2, <3>3
    <3>5. h \in D
      BY <1>10, <3>4 DEF D
    <3> QED BY <1>6, <1>7, <3>2, <3>5
  <2> QED BY <2>3, <2>4
<1> HIDE DEF P
<1>11. W \in P
  <2>1. \A k \in 0 .. W : k \in P
    BY <1>3, <1>9, <1>10, StepByStep
  <2> QED BY <1>3, <2>1
<1>12. \A d \in around : Width(d) <= W => d \in D
  <2>1. SUFFICES ASSUME NEW d \in around, Width(d) <= W PROVE d \in D
    OBVIOUS
  <2>2. W - Width(d) \in 0 .. W
    BY <1>2, <1>3, <2>1
  <2> QED BY <1>11, <2>2 DEF P, D
<1>13. e \notin source.regions
  BY RegionsApart DEF IsParsed
<1>14. CASE y \in around
  BY <1>8, <1>12, <1>13, <1>14 DEF EligibleOwners, D
<1>15. CASE y \in fields
  <2>1. y # e
    BY <1>7, <1>13, <1>15
  <2>2. PICK h \in around : y.host = Place(h) /\ Width(h) <= W
    BY <1>1, <1>8, <2>1
  <2>3. h \in D /\ y \in source.regions
    BY <1>7, <1>12, <1>15, <2>2
  <2> QED BY <1>13, <2>2, <2>3 DEF EligibleOwners, HeldBy, D
<1> QED BY <1>8, <1>14, <1>15

\* A fact in a struct or class has an owner, and it is one of those.
LEMMA FactHasOwner ==
  ASSUME NEW source, IsParsed(source), IsTree(source), NEW f \in source.facts,
         NEW e \in source.declarations, e.kind \in Host, Around(e, f)
  PROVE  \E x \in EligibleOwners(source, e) : IsOwner(source, x, f)
<1> DEFINE around == {d \in source.declarations : Around(d, f)}
           fields == {r \in source.regions : Around(r, f)}
           widths == {Width(x) : x \in around \cup fields}
<1>1. /\ \A d, h \in around : Width(d) = Width(h) => d = h
      /\ \A r, x \in fields : Width(r) = Width(x) => r = x
  BY DEF IsTree
<1>2. \A x \in around \cup fields : Width(x) \in Nat
  <2>1. SUFFICES ASSUME NEW x \in around \cup fields PROVE Width(x) \in Nat
    OBVIOUS
  <2>2. x.from \in Nat /\ x.to \in Nat /\ f.from \in Nat /\ f.to \in Nat /\ f.from < f.to
    BY ParsedTyped
  <2>3. x.from <= f.from /\ f.to <= x.to
    BY DEF Around
  <2> QED BY <2>2, <2>3 DEF Width
<1>3. e \in around
  OBVIOUS
<1>4. \A x \in around \cup fields : Width(x) <= Width(e) => x \in EligibleOwners(source, e)
  BY NarrowerAreEligible
<1>5. \A y \in source.declarations \cup source.regions : Around(y, f) => y \in around \cup fields
  OBVIOUS
<1>6. around \subseteq source.declarations /\ fields \subseteq source.regions
  OBVIOUS
<1>7. \A d \in around : d \notin source.regions
  BY RegionsApart DEF IsParsed
<1>8. \A x \in around \cup fields : Around(x, f)
  OBVIOUS
<1> HIDE DEF around, fields
<1>9. PICK w \in widths : \A v \in widths : w <= v
  <2>1. widths \subseteq Nat /\ widths # {}
    BY <1>2, <1>3
  <2> HIDE DEF widths
  <2> QED BY <2>1, LeastNumber
<1>10. w <= Width(e)
  BY <1>3, <1>9
<1>11. \A x \in around \cup fields : w <= Width(x)
  BY <1>9
<1>12. CASE \E r \in fields : Width(r) = w
  <2>1. PICK r \in fields : Width(r) = w
    BY <1>12
  <2>2. r \in source.regions /\ Around(r, f) /\ r \in EligibleOwners(source, e)
    BY <1>4, <1>6, <1>8, <1>10, <2>1
  <2>3. ASSUME NEW y \in (source.declarations \cup source.regions) \ {r}, Around(y, f)
        PROVE  \/ Width(r) < Width(y)
               \/ Width(r) = Width(y) /\ r \in source.regions /\ y \notin source.regions
    <3>1. y \in around \cup fields /\ y # r
      BY <1>5, <2>3
    <3>2. CASE Width(y) # w
      BY <1>2, <1>11, <2>1, <3>1, <3>2
    <3>3. CASE Width(y) = w
      <4>1. y \notin fields
        BY <1>1, <2>1, <3>1, <3>3
      <4> QED BY <1>7, <2>1, <2>2, <3>1, <3>3, <4>1
    <3> QED BY <3>2, <3>3
  <2> QED BY <2>2, <2>3 DEF IsOwner
<1>13. CASE ~ \E r \in fields : Width(r) = w
  <2>1. PICK x \in around : Width(x) = w
    BY <1>9, <1>13
  <2>2. Around(x, f) /\ x \in EligibleOwners(source, e)
    BY <1>4, <1>8, <1>10, <2>1
  <2>3. ASSUME NEW y \in (source.declarations \cup source.regions) \ {x}, Around(y, f)
        PROVE  Width(x) < Width(y)
    <3>1. y \in around \cup fields /\ y # x
      BY <1>5, <2>3
    <3>2. Width(y) # w
      BY <1>1, <1>13, <2>1, <3>1
    <3> QED BY <1>2, <1>11, <2>1, <3>1, <3>2
  <2> QED BY <2>2, <2>3 DEF IsOwner
<1> QED BY <1>12, <1>13

\* Every fact in a struct or class counts for it.
LEMMA WholeIsExact ==
  ASSUME NEW source, IsParsed(source), IsTree(source), NEW u, Owned(source, u),
         u.owner \in source.declarations, u.owner.kind \in Host
  PROVE  FactsInside(source, u) \subseteq ExactFacts(source, u)
<1>1. ASSUME NEW g \in source.facts, Around(u.owner, g)
      PROVE  /\ \E x \in EligibleOwners(source, u.owner) : IsOwner(source, x, g)
             /\ u.owner.first <= g.first /\ g.last <= u.owner.last
  <2>1. \E x \in EligibleOwners(source, u.owner) : IsOwner(source, x, g)
    BY <1>1, FactHasOwner
  <2>2. u.owner.first <= g.first /\ g.last <= u.owner.last
    BY <1>1 DEF IsTree
  <2> QED BY <2>1, <2>2
<1> QED BY <1>1 DEF FactsInside, ExactFacts

\* What facts earn of some definitions, and how the profile of a unit has it.
LEMMA RoutedAsSignalled ==
  ASSUME NEW file, NEW role, NEW source, NEW u
  PROVE  LET p == Routing(file, role, source, u)
             exact == Tagged(ExactFacts(source, u), "unit_exact", "Active")
         IN /\ p.file = file /\ p.role = role /\ p.unit = u
            /\ p.questions = {x \in OfStatus(Config.questions, "Active") :
                                 Config.questions[x].always \/ Config.questions[x].tags \cap exact # {}}
            /\ p.review = {x \in OfStatus(Config.dimensions, "Active") :
                              Config.dimensions[x].always \/ Config.dimensions[x].tags \cap exact # {}}
<1> DEFINE facts == ExactFacts(source, u)
<1> HIDE DEF facts
<1> QED BY DEF Routing, Profile, facts

\* Facts of a tag that is active call for what depends on the tag.
LEMMA CalledFor ==
  ASSUME NEW defs, defs = Config.questions \/ defs = Config.dimensions,
         NEW facts, NEW x \in DOMAIN defs, defs[x].status = "Active"
  PROVE  defs[x].tags \cap Tagged(facts, "unit_exact", "Active") # {}
           <=> \E t \in defs[x].tags : facts \cap (Config.tags[t].any \cup Config.tags[t].unit) # {}
<1>1. /\ defs[x].tags \subseteq DOMAIN Config.tags
      /\ \A t \in defs[x].tags : Config.tags[t].status = "Active"
  <2>1. ConfigFits(Config)
    BY RoutingAssumption
  <2>2. defs[x] \in Range(Config.dimensions) \cup Range(Config.questions)
    BY DEF Range
  <2> QED BY <2>1, <2>2 DEF ConfigFits
<1>2. \A t \in defs[x].tags :
        t \in Tagged(facts, "unit_exact", "Active")
          <=> facts \cap (Config.tags[t].any \cup Config.tags[t].unit) # {}
  BY <1>1 DEF Tagged, Signalled
<1> QED BY <1>2

\* what a unit that was admitted to routing is
Routable(source, u) ==
  /\ OwnerMatches(source, u)
  /\ u.what = "declaration" /\ Owned(source, u) => u.owner \in source.declarations

\* A profile of a unit is earned by the unit's own text.
LEMMA RoutedIsEarned ==
  ASSUME NEW file, NEW role, NEW source, IsParsed(source), IsTree(source), NEW u, Routable(source, u)
  PROVE  EarnedIn(source, Routing(file, role, source, u))
<1> DEFINE p == Routing(file, role, source, u)
           exact == ExactFacts(source, u)
           inside == FactsInside(source, u)
           whole == Owned(source, u) /\ u.what = "declaration" /\ u.owner.kind \in Host
           CalledIn(defs) == {x \in OfStatus(defs, "Active") :
                             defs[x].always \/ defs[x].tags \cap Tagged(exact, "unit_exact", "Active") # {}}
<1>1. p.unit = u /\ p.questions = CalledIn(Config.questions) /\ p.review = CalledIn(Config.dimensions)
  BY RoutedAsSignalled
<1>2. exact \subseteq inside
  BY ExactIsInside DEF Routable
<1>3. whole => inside \subseteq exact
  BY WholeIsExact DEF Routable
<1> HIDE DEF exact, inside, whole, p
<1>4. ASSUME NEW defs, defs = Config.questions \/ defs = Config.dimensions
      PROVE  /\ CalledIn(defs) \subseteq Earned(source, u, defs)
             /\ whole => Earned(source, u, defs) = CalledIn(defs)
  <2>1. ASSUME NEW x \in DOMAIN defs, defs[x].status = "Active"
        PROVE  defs[x].tags \cap Tagged(exact, "unit_exact", "Active") # {}
                 <=> \E t \in defs[x].tags : exact \cap (Config.tags[t].any \cup Config.tags[t].unit) # {}
    BY <1>4, <2>1, CalledFor
  <2>2. Earned(source, u, defs) =
          {x \in DOMAIN defs :
             /\ defs[x].status = "Active"
             /\ \/ defs[x].always
                \/ \E t \in defs[x].tags : inside \cap (Config.tags[t].any \cup Config.tags[t].unit) # {}}
    BY DEF Earned, inside
  <2>3. CalledIn(defs) \subseteq Earned(source, u, defs)
    BY <1>2, <2>1, <2>2 DEF OfStatus
  <2>4. ASSUME whole PROVE Earned(source, u, defs) \subseteq CalledIn(defs)
    BY <1>3, <2>1, <2>2, <2>4 DEF OfStatus
  <2> QED BY <2>3, <2>4
<1> HIDE DEF CalledIn
<1>5. /\ p.questions \subseteq Earned(source, u, Config.questions)
      /\ p.review \subseteq Earned(source, u, Config.dimensions)
      /\ whole => /\ p.questions = Earned(source, u, Config.questions)
                  /\ p.review = Earned(source, u, Config.dimensions)
  BY <1>1, <1>4
<1> QED BY <1>1, <1>5 DEF EarnedIn, whole, p

-----------------------------------------------------------------------------
\* The units of a file that belongs to no change set can be routed if their
\* owners were found.
LEMMA FileUnitsRoutable ==
  ASSUME NEW mode \in {"full", "diff"}, NEW file, ProperFile(file),
         NEW u \in FileUnits(mode, file), OwnerMatches(file.source, u)
  PROVE  Routable(file.source, u)
<1> SUFFICES ASSUME u.what = "declaration", Owned(file.source, u)
             PROVE  u.owner \in file.source.declarations
  BY DEF Routable
<1>1. IsParsed(file.source)
  BY DEF ProperFile
<1>2. u.owner \in Listed(file.source)
  <2>1. CASE mode = "full"
    BY <2>1 DEF FileUnits, FullUnits, Unit
  <2>2. CASE mode = "diff"
    <3>1. InRange(file) /\ u \in Merged(HunkUnits(file))
      BY <2>2 DEF FileUnits
    <3>2. UnitOf(AsListed(file.source), HunkLines(file), u)
      BY <3>1, HunkUnitsMerge
    <3> QED BY <3>2 DEF UnitOf, AsListed
  <2> QED BY <2>1, <2>2
<1>3. u.owner \notin file.source.loose
  BY DEF Owned
<1>4. u.owner \in Declaration
  <2>1. PICK d \in file.source.declarations : u.owner = [d EXCEPT !.first = d.begin]
    BY <1>2, <1>3 DEF Listed
  <2>2. d \in Declaration
    BY <1>1 DEF IsParsed
  <2> QED BY <2>1, <2>2 DEF Declaration
<1>5. u.owner \notin file.source.regions
  BY <1>1, <1>4, RegionsApart DEF IsParsed
<1> QED BY <1>5 DEF OwnerMatches

\* the files read have units that can be routed
ReadInv ==
  stage = "files" =>
    \A k \in DOMAIN read :
      k \in DOMAIN call.files /\ \A u \in read[k].units : Routable(call.files[k].source, u)

\* No file has been read at the start.
LEMMA InitRead == PipelineInit => ReadInv
<1>1. ASSUME PipelineInit, stage = "files" PROVE read = <<>>
  BY <1>1 DEF PipelineInit, AnalysisInit, ReviewInit, FileInit
<1>2. ASSUME read = <<>> PROVE DOMAIN read = {}
  BY <1>2
<1> QED BY <1>1, <1>2 DEF ReadInv

\* A file is read into units that can be routed.
LEMMA NextRead == FileInv /\ ReadInv /\ [PipelineNext]_pipelineVars => ReadInv'
<1> SUFFICES ASSUME FileInv, ReadInv, [PipelineNext]_pipelineVars PROVE ReadInv'
  OBVIOUS
<1>1. CASE UNCHANGED <<call, reading, read>> /\ (stage = "files" <=> stage' = "files")
  BY <1>1 DEF ReadInv
<1>2. CASE stage = "files" /\ stage' = "files" /\ ReadFile
  <2> DEFINE n == Len(read)
             file == call.files[n + 1]
             units == FileUnits(call.mode, file)
             made == MadeOfFile(call.mode, file)
  <2>1. call \in Calls /\ read \in Seq(ReadSet) /\ n < Len(call.files) /\ call' = call
    BY <1>2 DEF FileInv, ReadFile
  <2>2. n \in Nat /\ DOMAIN read = 1 .. n
    BY <2>1
  <2>3. call.mode \in {"full", "diff"} /\ n + 1 \in DOMAIN call.files /\ ProperFile(file)
    <3>1. /\ call.mode \in {"full", "diff"} /\ Len(call.files) \in Nat
          /\ DOMAIN call.files = 1 .. Len(call.files)
          /\ \A k \in DOMAIN call.files : ProperFile(call.files[k])
      BY <2>1, CallShape
    <3>2. n + 1 \in 1 .. Len(call.files)
      BY <2>1, <2>2, <3>1
    <3> QED BY <3>1, <3>2
  <2>4. \/ (\A u \in units : OwnerMatches(file.source, u)) /\ read' = Append(read, made)
        \/ read' = read
    BY <1>2 DEF ReadFile, MadeOfFile
  <2>5. made.units = units /\ made \in ReadSet
    BY <2>3 DEF MadeOfFile, ReadSet
  <2> HIDE DEF n, file, units, made
  <2>6. CASE (\A u \in units : OwnerMatches(file.source, u)) /\ read' = Append(read, made)
    <3>1. \A u \in made.units : Routable(file.source, u)
      BY <2>3, <2>5, <2>6, FileUnitsRoutable DEF units
    <3>2. /\ DOMAIN read' = 1 .. n + 1
          /\ read'[n + 1] = made /\ \A k \in 1 .. n : read'[k] = read[k]
      <4> HIDE DEF ReadSet
      <4> QED BY <2>1, <2>2, <2>5, <2>6, AppendProperties DEF n
    <3>3. SUFFICES ASSUME NEW k \in 1 .. n + 1
                   PROVE  k \in DOMAIN call.files /\ \A u \in read'[k].units : Routable(call.files[k].source, u)
      BY <2>1, <3>2 DEF ReadInv
    <3>4. k \in 1 .. n \/ k = n + 1
      BY <2>2
    <3> QED BY <1>2, <2>2, <2>3, <3>1, <3>2, <3>4 DEF ReadInv, file
  <2>7. CASE read' = read
    BY <1>2, <2>1, <2>7 DEF ReadInv
  <2> QED BY <2>4, <2>6, <2>7
<1>3. CASE stage = "files" /\ stage' = "files" /\ RouteFiles
  <2>1. call' = call /\ read' = read
    BY <1>3 DEF RouteFiles
  <2> QED BY <1>3, <2>1 DEF ReadInv
<1> QED BY <1>1, <1>2, <1>3, FilesApart

-----------------------------------------------------------------------------
\* a profile that was made of a unit of its source
IsRouted(source, p) ==
  /\ IsParsed(source) /\ IsTree(source) /\ Routable(source, p.unit)
  /\ p = Routing(p.file, p.role, source, p.unit)

\* The invariant of the profiles: the units of a diff, or of files, are routed
\* all at once, and the plan numbers those of a diff.
RoutedInv ==
  /\ stage = "routed" => DOMAIN profiles = UnitsOf(results)
  /\ \A x \in DOMAIN profiles : IsRouted(SourceOf(profiles[x]), profiles[x])

\* Routing a unit of a source makes such a profile of it.
LEMMA RoutingIsRouted ==
  ASSUME NEW file, NEW role, NEW source, IsParsed(source), IsTree(source), NEW u, Routable(source, u)
  PROVE  LET p == Routing(file, role, source, u) IN
         IsRouted(source, p) /\ p.file = file /\ p.role = role /\ p.unit = u
<1> DEFINE p == Routing(file, role, source, u)
<1>1. p.file = file /\ p.role = role /\ p.unit = u
  BY RoutedAsSignalled
<1>2. p = Routing(p.file, p.role, source, p.unit)
  BY <1>1
<1> HIDE DEF p
<1> QED BY <1>1, <1>2 DEF IsRouted, p

\* No unit has a profile at the start.
LEMMA InitRouted == PipelineInit => RoutedInv
<1>1. ASSUME PipelineInit PROVE profiles = <<>> /\ stage # "routed"
  BY <1>1 DEF PipelineInit, AnalysisInit, ReviewInit, FileInit
<1>2. ASSUME profiles = <<>> PROVE DOMAIN profiles = {}
  BY <1>2
<1> QED BY <1>1, <1>2 DEF RoutedInv

\* the units of a diff that is routed
LEMMA UnitsRoutable ==
  ASSUME AllAdmitted, results \in Seq(ResultSet), NEW x \in UnitsOf(results)
  PROVE  LET source == diff[x.file].source[x.role]
         IN IsParsed(source) /\ IsTree(source) /\ Routable(source, x.unit)
<1>1. PICK k \in DOMAIN results :
        \E u \in results[k].units : x = [file |-> results[k].file, role |-> results[k].role, unit |-> u]
  BY DEF UnitsOf
<1>2. PICK u \in results[k].units : x = [file |-> results[k].file, role |-> results[k].role, unit |-> u]
  BY <1>1
<1>3. ResultTrue(diff, x.file, x.role, results[k]) /\ <<x.file, x.role>> \in SourcesOf(diff)
  BY <1>2, ResultsAreTrue
<1>4. UnitOf(diff[x.file].source[x.role], SideLines(diff[x.file], x.role), x.unit)
  BY <1>2, <1>3 DEF ResultTrue
<1>5. x.file \in DOMAIN diff /\ x.role \in Role
  BY <1>3 DEF SourcesOf
<1>6. IsParsed(diff[x.file].source[x.role]) /\ IsTree(diff[x.file].source[x.role])
  BY <1>5, RoutingAssumption DEF AllAdmitted
<1>7. OwnerMatches(diff[x.file].source[x.role], x.unit)
  BY OwnersMatch
<1> QED BY <1>4, <1>6, <1>7 DEF UnitOf, Routable

\* A step that neither routes nor numbers the units keeps their profiles.
LEMMA ProfilesApart ==
  ASSUME [PipelineNext]_pipelineVars
  PROVE  /\ diff' = diff
         /\ \/ profiles' = profiles /\ (stage' = "routed" => stage = "routed" /\ results' = results)
            \/ stage = "files" /\ stage' = "files" /\ RouteFiles
            \/ stage = "reviewed" /\ RouteUnits
            \/ stage = "routed" /\ stage' = "planning" /\ PlanContext
<1>1. CASE AnalysisStep
  <2>1. CASE ReviewStep
    BY <2>1 DEF ReviewStep, ReviewNext, Normalize, BeginBuild, BuildSource, Assemble
  <2>2. CASE RouteUnits
    BY <2>2 DEF RouteUnits
  <2>3. CASE PlanContext
    BY <2>3 DEF PlanContext
  <2>4. CASE PlanStep \/ Ended
    BY <2>4 DEF PlanStep, Ended, allVars, reviewVars
  <2> QED BY <1>1, <2>1, <2>2, <2>3, <2>4 DEF AnalysisStep, AnalysisNext
<1>2. CASE FileStep
  <2>1. stage = "files" /\ UNCHANGED reviewVars /\ (ReadFile \/ RouteFiles \/ FilesEnded)
    BY <1>2 DEF FileStep, FileNext
  <2> QED BY <2>1 DEF reviewVars, ReadFile, FilesEnded, fileVars
<1>3. CASE AskForEvidence \/ RetrievalStep \/ UNCHANGED pipelineVars
  BY <1>3 DEF AskForEvidence, RetrievalStep, pipelineVars, allVars, reviewVars
<1> QED BY <1>1, <1>2, <1>3 DEF PipelineNext

\* The units are routed from the source of their file, and keep their profiles.
LEMMA NextRouted ==
  ReviewInv /\ FileInv /\ ReadInv /\ RoutedInv /\ [PipelineNext]_pipelineVars => RoutedInv'
<1> SUFFICES ASSUME ReviewInv, FileInv, ReadInv, RoutedInv, [PipelineNext]_pipelineVars PROVE RoutedInv'
  OBVIOUS
<1>1. diff' = diff
  BY ProfilesApart
<1>2. (stage = "files" <=> stage' = "files") /\ (stage = "files" => call' = call)
  BY FilesApart DEF RouteFiles, ReadFile
<1>3. \A x \in DOMAIN profiles : IsRouted(SourceOf(profiles[x]), profiles[x])
  BY DEF RoutedInv
<1>4. CASE profiles' = profiles /\ (stage' = "routed" => stage = "routed" /\ results' = results)
  <2>1. \A x \in DOMAIN profiles' : IsRouted(SourceOf(profiles[x])', profiles'[x])
    BY <1>1, <1>2, <1>3, <1>4 DEF SourceOf
  <2>2. stage' = "routed" => DOMAIN profiles' = UnitsOf(results')
    BY <1>4 DEF RoutedInv
  <2> QED BY <2>1, <2>2 DEF RoutedInv
<1>5. CASE stage = "reviewed" /\ RouteUnits
  <2>1. AllAdmitted /\ results \in Seq(ResultSet) /\ results' = results
    BY <1>5 DEF ReviewInv, RouteUnits
  <2>2. stage' = "routed" /\ profiles' = [x \in UnitsOf(results) |->
                                           Routing(x.file, x.role, diff[x.file].source[x.role], x.unit)]
    BY <1>5, <2>1, OwnersMatch DEF RouteUnits
  <2>3. ASSUME NEW x \in UnitsOf(results) PROVE IsRouted(SourceOf(profiles[x])', profiles'[x])
    <3> DEFINE source == diff[x.file].source[x.role]
               p == Routing(x.file, x.role, source, x.unit)
    <3>1. profiles'[x] = p
      BY <2>2
    <3>2. IsParsed(source) /\ IsTree(source) /\ Routable(source, x.unit)
      BY <2>1, UnitsRoutable
    <3> HIDE DEF source
    <3>3. IsRouted(source, p) /\ p.file = x.file /\ p.role = x.role
      BY <3>2, RoutingIsRouted
    <3> HIDE DEF p
    <3>4. SourceOf(profiles[x])' = source
      BY <1>1, <2>2, <3>1, <3>3 DEF SourceOf, source
    <3> QED BY <3>1, <3>3, <3>4
  <2>4. DOMAIN profiles' = UnitsOf(results')
    BY <2>1, <2>2
  <2> QED BY <2>1, <2>3, <2>4 DEF RoutedInv
<1>6. CASE stage = "routed" /\ stage' = "planning" /\ PlanContext
  <2>1. PICK number \in Bijection(Primary, UnitsOf(results)) :
          profiles' = [p \in Primary |-> profiles[number[p]]]
    BY <1>6 DEF PlanContext
  <2>2. number \in [Primary -> UnitsOf(results)]
    BY <2>1 DEF Bijection, Injection
  <2>3. DOMAIN profiles = UnitsOf(results)
    BY <1>6 DEF RoutedInv
  <2>4. ASSUME NEW p \in Primary PROVE IsRouted(SourceOf(profiles[p])', profiles'[p])
    <3>1. number[p] \in DOMAIN profiles /\ profiles'[p] = profiles[number[p]]
      BY <2>1, <2>2, <2>3
    <3>2. SourceOf(profiles[p])' = SourceOf(profiles[number[p]])
      BY <1>1, <1>6, <3>1 DEF SourceOf
    <3> QED BY <1>3, <3>1, <3>2
  <2>5. DOMAIN profiles' = Primary
    BY <2>1
  <2> QED BY <1>6, <2>4, <2>5 DEF RoutedInv
<1>7. CASE stage = "files" /\ stage' = "files" /\ RouteFiles
  <2>1. /\ call \in Calls /\ call' = call
        /\ \A k \in DOMAIN read :
             k \in DOMAIN call.files /\ \A u \in read[k].units : Routable(call.files[k].source, u)
    BY <1>7 DEF FileInv, ReadInv, RouteFiles
  <2> DEFINE all == UNION {{[file |-> k, role |-> "head", unit |-> u] : u \in read[k].units} : k \in DOMAIN read}
  <2>2. profiles' = [x \in all |-> Routing(x.file, x.role, call.files[x.file].source, x.unit)]
    BY <1>7 DEF RouteFiles
  <2>3. ASSUME NEW x \in all PROVE IsRouted(SourceOf(profiles[x])', profiles'[x])
    <3> DEFINE source == call.files[x.file].source
               p == Routing(x.file, x.role, source, x.unit)
    <3>1. profiles'[x] = p
      BY <2>2
    <3>2. PICK k \in DOMAIN read : \E u \in read[k].units : x = [file |-> k, role |-> "head", unit |-> u]
      OBVIOUS
    <3>3. x.file = k /\ x.unit \in read[k].units
      BY <3>2
    <3>4. IsParsed(source) /\ IsTree(source) /\ Routable(source, x.unit)
      BY <2>1, <3>3, CallAssumption
    <3> HIDE DEF source
    <3>5. IsRouted(source, p) /\ p.file = x.file
      BY <3>4, RoutingIsRouted
    <3> HIDE DEF p
    <3>6. SourceOf(profiles[x])' = source
      BY <1>7, <2>1, <3>1, <3>5 DEF SourceOf, source
    <3> QED BY <3>1, <3>5, <3>6
  <2>4. DOMAIN profiles' = all
    BY <2>2
  <2> HIDE DEF all
  <2> QED BY <1>7, <2>3, <2>4 DEF RoutedInv
<1> QED BY <1>4, <1>5, <1>6, <1>7, ProfilesApart

\* So whatever has a profile has what its own text earns it.
LEMMA RoutedAreEarned == RoutedInv => QuestionsAreEarned
<1> SUFFICES ASSUME RoutedInv, NEW x \in DOMAIN profiles PROVE EarnedIn(SourceOf(profiles[x]), profiles[x])
  BY DEF QuestionsAreEarned
<1> DEFINE p == profiles[x]
           source == SourceOf(p)
<1>1. IsRouted(source, p)
  BY DEF RoutedInv
<1> HIDE DEF p, source
<1>2. EarnedIn(source, Routing(p.file, p.role, source, p.unit))
  BY <1>1, RoutedIsEarned DEF IsRouted
<1> QED BY <1>1, <1>2 DEF IsRouted, p, source

\* Questions are bound, and dimensions reviewed, only for facts in a unit's own
\* text, and a struct or class gets all that its facts call for.
THEOREM OnlyEarnedQuestions == PipelineSpec => []QuestionsAreEarned
<1> DEFINE Inv == ReviewInv /\ FileInv /\ ReadInv /\ RoutedInv
<1>1. PipelineInit => Inv
  BY InitReviews, InitFiles, InitRead, InitRouted
<1>2. Inv /\ [PipelineNext]_pipelineVars => Inv'
  BY NextReviews, NextFiles, NextRead, NextRouted
<1>3. Inv => QuestionsAreEarned
  BY RoutedAreEarned
<1> QED BY <1>1, <1>2, <1>3, PTL DEF PipelineSpec

=============================================================================
