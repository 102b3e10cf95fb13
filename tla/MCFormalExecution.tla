-------------------------- MODULE MCFormalExecution --------------------------
(***************************************************************************)
(* Two gates of one domain and one of another.  Registry old knows both    *)
(* keys; in registry new one of them has been revoked; registry far is     *)
(* another domain's.  Signer s3 is configured for the registry that has    *)
(* revoked its key, so no runner can be made with it.                      *)
(***************************************************************************)
EXTENDS FormalExecution, TLC

CONSTANTS t1, t2, h1, h2, c1, c2, c3, old, new, far, s1, s2, s3, s4, near, away

MCDomainOf == [h \in Gate |-> IF h = h2 THEN away ELSE near]
MCGateOf == [c \in Cap |-> IF c = c3 THEN h2 ELSE h1]

Record(k, state) == [key |-> k, status |-> state, releases |-> {"v1"}]
MCPinned ==
  [g \in Registry |->
     CASE g = old -> [domain |-> near, records |-> {Record("k1", "active"), Record("k2", "active")}]
       [] g = new -> [domain |-> near, records |-> {Record("k1", "active"), Record("k2", "revoked")}]
       [] g = far -> [domain |-> away, records |-> {Record("k3", "active")}]]

MCConfig ==
  [s \in Signer |->
     CASE s = s1 -> [registry |-> old, domain |-> near, key |-> "k1", release |-> "v1"]
       [] s = s2 -> [registry |-> new, domain |-> near, key |-> "k1", release |-> "v1"]
       [] s = s3 -> [registry |-> new, domain |-> near, key |-> "k2", release |-> "v1"]
       [] s = s4 -> [registry |-> far, domain |-> away, key |-> "k3", release |-> "v1"]]

\* For one capability an answer of each kind that leaves other artifacts, for
\* the others a sound one.
Completed(what, why) == Wire!Response(200, 1, [content |-> what, finish |-> why])
EveryReply ==
  {Wire!Failed(why) : why \in Wire!TransportFailure} \cup
  {Wire!Response(s, 1, Wire!OuterInvalid) : s \in Status} \cup
  {Wire!Response(503, 0, Wire!OuterInvalid)} \cup
  {Completed(what, "stop") : what \in Wire!Content} \cup
  {Completed("sound", "length")}
MCAnswers ==
  [c \in Cap |-> IF c = c1 THEN EveryReply
                 ELSE {Completed("sound", "stop")}]

Symmetry == Permutations(Thread)
=============================================================================
