-------------------------- MODULE MCHubConnection --------------------------
(***************************************************************************)
(* HubConnection for TLC. The endpoints are strings, not model values: they*)
(* are compared with the settings that are no endpoint.                    *)
(***************************************************************************)
EXTENDS HubConnection
=============================================================================
