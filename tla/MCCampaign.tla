----------------------------- MODULE MCCampaign -----------------------------
(* A campaign of one implementation and one verification step, a revision,   *)
(* and two processes that may run it.                                        *)
EXTENDS CampaignRunner

CONSTANTS c1, p1, p2, build, verify, extra

MCCampaigns == {c1}
MCProcs == {p1, p2}
MCPlan == <<build, verify>>
MCVerification == {verify}
=============================================================================
