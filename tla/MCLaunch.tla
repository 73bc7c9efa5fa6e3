------------------------------ MODULE MCLaunch ------------------------------
(* SessionLaunch on two worktrees, two shells and four installations.       *)
EXTENDS SessionLaunch

MCHostOrder == <<"codex", "claude">>
Absent == [codex |-> "absent", claude |-> "absent", node |-> "absent"]
NodeOnly == [Absent EXCEPT !.node = "native"]
Unnamed == [codex |-> {}, claude |-> {}, node |-> {}]

MCMachines == {
  \* codex a script of one asdf install, two of which provide node
  [bin |-> [Absent EXCEPT !.claude = "native"],
   named |-> [codex |-> {"v1"}, claude |-> {}, node |-> {"v1", "v2"}],
   installs |-> [v1 |-> [NodeOnly EXCEPT !.codex = "script"], v2 |-> NodeOnly]],
  \* codex a script outside asdf, node in asdf: in two installs, or in one
  [bin |-> [Absent EXCEPT !.codex = "script", !.claude = "native"],
   named |-> [codex |-> {}, claude |-> {}, node |-> {"v1", "v2"}],
   installs |-> [v \in Versions |-> NodeOnly]],
  [bin |-> [Absent EXCEPT !.codex = "script"],
   named |-> [codex |-> {}, claude |-> {}, node |-> {"v1"}],
   installs |-> [v1 |-> NodeOnly, v2 |-> Absent]],
  \* both hosts in asdf, codex in two installs
  [bin |-> NodeOnly,
   named |-> [codex |-> {"v1", "v2"}, claude |-> {"v1"}, node |-> {}],
   installs |-> [v \in Versions |-> [Absent EXCEPT !.codex = "script", !.claude = "script"]]]}

\* The worktrees differ in nothing but their names: some shell starts in this one.
MCInit == Init /\ cwd[CHOOSE s \in Shells : TRUE] = CHOOSE w \in Worktrees : TRUE
MCSpec == MCInit /\ [][Next]_vars /\ LaunchFairness
=============================================================================
