-------------------------- MODULE MCHubActivation --------------------------
(***************************************************************************)
(* HubActivation for TLC: windows and processes that are used again.       *)
(***************************************************************************)
EXTENDS HubActivation
=============================================================================
