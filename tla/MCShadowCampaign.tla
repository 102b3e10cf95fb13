-------------------------- MODULE MCShadowCampaign --------------------------
(* Values for the constants of ShadowCampaign that a .cfg cannot write. *)
EXTENDS ShadowCampaign

CONSTANTS p1, p2, p3, valid, failed

NobodyDenied == {}
SecondDenied == {2}
OneTick == [q \in Plan |-> 1]
Rising == [q \in Plan |-> q]
=============================================================================
