------------------------- MODULE MCDocumentCampaign -------------------------
(***************************************************************************)
(* Instances of DocumentCampaign: runs of one campaign and of one of its   *)
(* documents alone.                                                        *)
(***************************************************************************)
EXTENDS DocumentCampaign

CONSTANTS p1, p2, p3, a, b, cards, alone

MCJob ==
  [p \in Proc |->
     IF p = p3 THEN [kind |-> "single", place |-> alone, plans |-> <<b>>]
     ELSE [kind |-> "campaign", place |-> cards, plans |-> <<a, b>>]]

Answered(body, n) == [body |-> body, tokens |-> n]

\* one of each kind, and usage at the limit and above it
MCReply ==
  {Answered("none", 0), Answered("deep", 0), Answered("card", 2), Answered("card", 3)}

Old(place, q, name) ==
  [place |-> place, plan |-> q, name |-> name, owner |-> Earlier, durable |-> TRUE]

World(there, n, old, runs) == [dir |-> there, losses |-> n, files |-> old, runs |-> runs]

\* An old state directory on a machine that may lose power, a new one on a
\* machine that does not; and what an earlier run left behind
MCWorlds ==
  UNION {{World("absent", 0, {}, runs), World("durable", 1, {}, runs),
          World("durable", 0, {Old(cards, b, "raw"), Old(alone, b, "raw")}, runs)} :
           runs \in {{p1, p2}, {p1, p3}}}
=============================================================================
