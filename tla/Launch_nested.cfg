SPECIFICATION MCSpec
CONSTANTS
  Worktrees = {A, B}
  Shells = {s1, s2}
  Versions = {"v1", "v2"}
  HostOrder <- MCHostOrder
  Virtualized = {"codex"}
  Generations = {g}
  Bootstrap = bootstrap
  Machines <- MCMachines
  RealHome = realHome
  None = None
  Unresolvable = Unresolvable
  MaxPath = 4
  MaxCommands = 4
  MaxSwitches = 1
\* A run ends when the commands are used up and the sessions are over.
CHECK_DEADLOCK FALSE
PROPERTY LaunchAlwaysEnds
