SPECIFICATION Spec
CONSTANTS
  Hosts = {"h1", "h2"}
  Assets <- MCAssets
  AssetOrder <- MCAssetOrder
  Configs <- MCConfigs
  ExceptionDocs <- MCExceptionDocs
  Selections <- MCSelections
  HandWritten <- MCHandWritten
  Here <- MCHere
  Main <- MCMain
  OtherCategories <- MCOtherCategories
  SandboxValues <- MCSandboxValues
  MaxTime = 2
  None = None
  Agents = {"agent"}
  Screens = {"tui"}
  Clis = {"cli"}
  Proposals <- MCProposals
  Qualified <- MCQualified
  Observations <- MCObservations
  MaxCommands = 2
  MaxEdits = 1
INVARIANT PolicyHolds
PROPERTIES ExpiryOnlyTightens ActivatedWithinPolicy AgentEnablesNoServer
CHECK_DEADLOCK FALSE
