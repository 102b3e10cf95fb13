----------------------------- MODULE AliasStore -----------------------------
(***************************************************************************)
(* What the PostgreSQL store of knowledge indexes promises: an index is    *)
(* published whole and stays, and an alias only ever moves to a published  *)
(* index that somebody was entitled to put there.                          *)
(***************************************************************************)
CONSTANTS
  Alias,
  Index,
  NoIndex,
  Preloaded,       \* indexes published before
  Entitled         \* pairs of an alias and an index it may be moved to

VARIABLES
  published,       \* the indexes a reader can load
  alias            \* the index of each alias

vars == <<published, alias>>

Init ==
  /\ published = Preloaded
  /\ alias = [a \in Alias |-> NoIndex]

Publish(i) ==
  /\ published' = published \cup {i}
  /\ UNCHANGED alias

Switch(a, i) ==
  /\ i \in published
  /\ <<a, i>> \in Entitled
  /\ alias' = [alias EXCEPT ![a] = i]
  /\ UNCHANGED published

Next ==
  \/ \E i \in Index : Publish(i)
  \/ \E a \in Alias, i \in Index : Switch(a, i)

Spec == Init /\ [][Next]_vars
=============================================================================
