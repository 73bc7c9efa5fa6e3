SPECIFICATION Spec
CONSTANTS
  codex = codex
  claude = claude
  p1 = p1
  p2 = p2
  skill = skill
  mcp = mcp
  None = None
  Truncated = Truncated
  Garbled = Garbled
  Hosts <- MCHosts1
  Procs <- MCProcs2
  Assets <- MCMcp
  Sensitive <- MCMcp
  Commands <- AllCommands
  EnvEdits <- AllEdits
  MaxCommands = 4
  MaxCrashes = 1
  MaxEdits = 1
  MaxSelections = 2
CHECK_DEADLOCK FALSE
SYMMETRY Symmetric
INVARIANT TypeOK LockHeld PointerOwned FreshWhenActivated LedgerTellsCurrent
PROPERTY LedgerTruthful LaunchRunsCurrent
