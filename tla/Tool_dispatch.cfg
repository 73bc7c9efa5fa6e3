SPECIFICATION Spec
CONSTANTS
  c1 = c1
  c2 = c2
  None = None
  Closed = Closed
  Stopper = Stopper
  Clients <- MCClients
  StepClients <- MCStep
  Methods <- AllMethods
  MaxStarts = 1
  MaxCalls = 2
  MaxFaults = 0
CHECK_DEADLOCK FALSE
INVARIANT DispatchFindsTool
