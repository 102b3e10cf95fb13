-------------------------- MODULE MCKnowledgeReview --------------------------
(* Three rounds: two of a first campaign and one of a second, and a prefix *)
(* that matches them all.  Two runs may meet in the first round or retry   *)
(* each other in the second; a third runs for the other campaign.          *)
EXTENDS KnowledgeReview, TLC

CONSTANTS x1, x2, x3, r1, retry, r2, first, second, all

MCRoundsOf == (first :> {r1, retry}) @@ (second :> {r2}) @@ (all :> {r1, retry, r2})
MCJobs == (x1 :> {r1}) @@ (x2 :> {r1, retry}) @@ (x3 :> {r2})
MCAnswers == (x1 :> Answer) @@ (x2 :> {"accept"}) @@ (x3 :> {"accept"})
MCPairs == {<<first, second>>, <<first, all>>}
MCCopies == {<<r1, r2>>}
=============================================================================
