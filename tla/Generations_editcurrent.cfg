SPECIFICATION Spec
CONSTANTS
  codex = codex
  claude = claude
  p1 = p1
  p2 = p2
  skill = skill
  mcp = mcp
  None = None
  Truncated = Truncated
  Garbled = Garbled
  Hosts <- MCHosts1
  Procs <- MCProcs1
  Assets <- MCMcp
  Sensitive <- MCMcp
  Commands <- AllCommands
  EnvEdits <- AllEdits
  MaxCommands = 3
  MaxCrashes = 0
  MaxEdits = 1
  MaxSelections = 1
CHECK_DEADLOCK FALSE
PROPERTY CurrentNeverEdited
