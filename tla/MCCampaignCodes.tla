--------------------------- MODULE MCCampaignCodes ---------------------------
(***************************************************************************)
(* Instances of CampaignCodes for TLC.                                     *)
(***************************************************************************)
EXTENDS CampaignCodes, TLC

Symmetry == Permutations(Tokens) \cup Permutations(Calls)
=============================================================================
