-------------------------- MODULE MCToolSupervisor --------------------------
(* Instances of ToolSupervisor for TLC. *)
EXTENDS ToolSupervisor, TLC

CONSTANTS c1, c2

MCClients == {c1, c2}
MCStep == {c2}

AllMethods == {"initialize", "tools/list", "tools/call"}
Calls == {"initialize", "tools/call"}
=============================================================================
