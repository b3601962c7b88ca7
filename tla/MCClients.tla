------------------------------ MODULE MCClients -----------------------------
(***************************************************************************)
(* Two client programs: any of them, and one that edits the settings.      *)
(***************************************************************************)
EXTENDS Clients

CONSTANTS u1, u2

MCRuns == u1 :> DOMAIN Programs @@ u2 :> {"policy", "security"}
=============================================================================
