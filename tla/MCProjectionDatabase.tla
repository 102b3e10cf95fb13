----------------------- MODULE MCProjectionDatabase -----------------------
(* Two projections that share an advisory lock.  One client puts, one puts *)
(* or loads, an SQL client tampers with the first projection, and two      *)
(* deployments have migration files that part after the first.             *)
EXTENDS ProjectionDatabase, TLC

CONSTANTS c1, c2, x1, p1, p2, a1, a2, b1, m1, m2, first, second, other

MCJobs == (c1 :> {[op |-> "put", id |-> p1], [op |-> "put", id |-> p2]})
       @@ (c2 :> {[op |-> "put", id |-> p1], [op |-> "load", id |-> p1]})

MCLocal == (m1 :> <<first, second>>) @@ (m2 :> <<first, other>>)

MCLockOf == [p \in {p1, p2} |-> 0]

\* p1 binds a1 and sets a2 aside; p2 binds nothing.
MCRecordOf ==
  (p1 :> [atoms |-> {[id |-> a1, unclassified |-> FALSE], [id |-> a2, unclassified |-> TRUE]},
          bindings |-> {b1}, links |-> {<<b1, a1>>}])
  @@ (p2 :> [atoms |-> {[id |-> a1, unclassified |-> TRUE]}, bindings |-> {}, links |-> {}])

MCAtomRow == {[id |-> a1, unclassified |-> FALSE], [id |-> a1, unclassified |-> TRUE],
              [id |-> a2, unclassified |-> TRUE]}

\* what the true row says, and another projection's row
MCMetadata == {[payload |-> p1, atoms |-> 2, bindings |-> 1],
               [payload |-> p2, atoms |-> 1, bindings |-> 0]}
=============================================================================
