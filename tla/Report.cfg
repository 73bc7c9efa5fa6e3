SPECIFICATION Spec
CONSTANTS
  ReportHosts = {"h1", "h2"}
  ObservationSets <- MCObservations
  HostPacks <- MCPacks
  MergeOptions <- MCOptions
  DriftExceptions <- MCExceptions
  Foreign <- MCForeign
  Compiled <- MCCompiled
  SampleLimit = 2
  LastTime = 2
  Ceilings <- MCCeilings
INVARIANTS DriftAccounted PlanesCorrelate
PROPERTY QualifyingOnlyDecides
