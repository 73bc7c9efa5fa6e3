---------------------------- MODULE MCGenerations ----------------------------
(* Instances of Generations for TLC. *)
EXTENDS Generations, TLC

CONSTANTS codex, claude, p1, p2, skill, mcp

MCHosts1 == {codex}
MCHosts2 == {codex, claude}
MCProcs1 == {p1}
MCProcs2 == {p1, p2}
MCAssets == {skill, mcp}
MCMcp == {mcp}

AllCommands == {"activate", "rollback", "launch", "stage"}
NoEdits == {}
AllEdits == {"inventory", "content", "version", "activation", "damage"}

Symmetric == Permutations({p1, p2})
=============================================================================
