---------------------------- MODULE MCIndexStore ----------------------------
EXTENDS IndexStore, TLC

CONSTANTS p1, p2, e1, g1, l1, current, staging, test, free

MCOriginOf ==
  (p1 :> "publication") @@ (p2 :> "publication") @@ (e1 :> "evaluation_fixture")
    @@ (g1 :> "golden_fixture") @@ (l1 :> "golden_fixture")
MCNamespaceOf ==
  (current :> "current") @@ (staging :> "staging") @@ (test :> "test") @@ (free :> "free")

Ask(kind, i, a, evaluation, golden) ==
  [kind |-> kind, index |-> i, alias |-> a, evaluation |-> evaluation, golden |-> golden]

\* two releases fight for one alias; one run publishes without a switch
Releases ==
  {Ask("publish", i, current, FALSE, FALSE) : i \in {p1, p2}}
    \cup {Ask("publish", p1, NoAlias, FALSE, FALSE),
          Ask("alias-switch", p1, current, FALSE, FALSE),
          Ask("alias-resolve", p1, current, FALSE, FALSE)}

\* every origin against every namespace, with and without the opt-in
Policies ==
  {Ask("alias-switch", i, a, evaluation, golden) :
     i \in Index, a \in Alias, evaluation \in BOOLEAN, golden \in BOOLEAN}
    \cup {Ask("publish", p1, a, FALSE, FALSE) : a \in Alias \cup {NoAlias}}
    \cup {Ask("publish-evaluation", e1, a, evaluation, FALSE) :
            a \in Alias \cup {NoAlias}, evaluation \in BOOLEAN}
    \cup {Ask("store.publish", i, NoAlias, FALSE, FALSE) : i \in {g1, l1}}
    \cup {Ask("alias-resolve", p1, a, FALSE, FALSE) : a \in Alias}

Everything == Releases \cup Policies
=============================================================================
