-------------------------- MODULE MCBotApprovals --------------------------
(* Small instances of BotApprovals for TLC. *)
EXTENDS BotApprovals

CONSTANTS boss, guest

MCUsers == {boss, guest}
MCRoleOf == [u \in MCUsers |-> IF u = boss THEN "admin" ELSE "operator"]
MCCommands == {"cleanup", "pause", "status"}
=============================================================================
