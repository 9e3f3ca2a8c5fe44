--------------------------- MODULE MCTenantLaunch ---------------------------
(* The launch factory on small instances. *)
EXTENDS TenantLaunch

(* One step that upserts stands for the five that do. *)
MCSteps == <<"register", "enable-apps", "provision-backup", "handover">>
=============================================================================
