----------------------------- MODULE MCCampaigns -----------------------------
(* A campaign of two recipients, one to a batch. *)
EXTENDS Campaigns
=============================================================================
