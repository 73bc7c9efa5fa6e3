SPECIFICATION Spec
CONSTANTS
  Hosts = {"h1", "h2"}
  Assets <- MCAssets
  AssetOrder <- MCAssetOrder
  Configs <- WConfigs
  ExceptionDocs <- WExceptionDocs
  Selections <- WSelections
  HandWritten <- WHandWritten
  Here <- MCHere
  Main <- MCMain
  OtherCategories <- MCOtherCategories
  SandboxValues <- MCSandboxValues
  MaxTime = 2
  None = None
  Agents = {"agent"}
  Screens = {"tui"}
  Clis = {"cli"}
  Proposals <- WProposals
  Qualified <- MCQualified
  Observations <- MCObservations
  MaxCommands = 2
  MaxEdits = 1
PROPERTY WideningConfirmed
CHECK_DEADLOCK FALSE
