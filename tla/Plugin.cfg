SPECIFICATION TransportSpec
CONSTANTS
  AdapterCallers = {"l", "c1", "c2"}
  Loader = "l"
  Manifests <- MCManifests
  ContractMajor = 1
  Results = {"ok", "denied"}
  NoOne = "nobody"
  MaxCalls = 3
  MaxFaults = 2
  PipeSize = 1
\* A process ends when its calls are used up.
CHECK_DEADLOCK FALSE
PROPERTIES
  ImplementsContract
  AdapterCallsEnd
