---------------------------- MODULE MCShadowGate ----------------------------
(* Four gates in one domain, two of which trust the same plan; answers on    *)
(* both sides of every line that SingleAttempt draws between them.           *)
EXTENDS SingleAttempt

CONSTANTS t1, t2, g1, g2, g3, g4, q1, q2, d, n1, n2, n3

TwoPlansOf == [g \in Gate |-> IF g \in {g3, g4} THEN q2 ELSE q1]
OneDomainOf == [g \in Gate |-> d]

GenuineAndForeign ==
  {Genuine(g1), Genuine(g3), [Genuine(g1) EXCEPT !.egress = FALSE],
   [Genuine(g1) EXCEPT !.budget = FALSE]}

\* two threads of a program, one beside a run of the command, two runs for
\* one plan, on a disk that works and on one that fails
MCHomes ==
  {[t \in Thread |-> IF t = t1 THEN h[1] ELSE h[2]] :
     h \in {<<"program", "program">>, <<g1, "program">>, <<"program", g3>>, <<g1, g2>>, <<g3, g4>>}}

Answer(content, finish) == Response(200, 1, [content |-> content, finish |-> finish])
MCAnswers ==
  {Failed("provider_timeout"), Failed("provider_transport_error"),
   Response(500, 1, OuterInvalid), Response(200, 1, OuterInvalid),
   Answer("sound", "stop"), Answer("sound", "length"), Answer("invalid_json", "stop"),
   Answer("too_deep", "stop"),
   Response(200, 2, [content |-> "sound", finish |-> "stop"])}
=============================================================================
