----------------------------- MODULE MCCampaign -----------------------------
(* Instance of Campaign for TLC; the .cfg files give the constants.         *)
EXTENDS Campaign, TLC
=============================================================================
