------------------------------- MODULE Sorting -------------------------------
(***************************************************************************)
(* What sorted() makes of a set with a tuple of numbers as the key of each *)
(* element: no two keys are equal, so the order is one.                    *)
(***************************************************************************)
EXTENDS Integers, FiniteSets

Precedes(s, t) == \E n \in DOMAIN s : s[n] < t[n] /\ \A m \in 1 .. n - 1 : s[m] = t[m]

\* the position of each element
Positions(key) == [x \in DOMAIN key |-> 1 + Cardinality({y \in DOMAIN key : Precedes(key[y], key[x])})]

\* the elements by their positions
InOrder(rank) == [n \in 1 .. Cardinality(DOMAIN rank) |-> CHOOSE x \in DOMAIN rank : rank[x] = n]
=============================================================================
