SPECIFICATION Spec
CONSTANTS
  codex = codex
  claude = claude
  p1 = p1
  p2 = p2
  skill = skill
  mcp = mcp
  None = None
  Truncated = Truncated
  Garbled = Garbled
  Hosts <- MCHosts1
  Procs <- MCProcs2
  Assets <- MCAssets
  Sensitive <- MCMcp
  Commands <- AllCommands
  EnvEdits <- NoEdits
  MaxCommands = 4
  MaxCrashes = 0
  MaxEdits = 0
  MaxSelections = 2
CHECK_DEADLOCK FALSE
INVARIANT ActivatedOnlyIfConfirmed
