SPECIFICATION Spec
CONSTANTS
  c1 = c1
  c2 = c2
  None = None
  Closed = Closed
  Stopper = Stopper
  Clients <- MCClients
  StepClients <- MCStep
  Methods <- Calls
  MaxStarts = 2
  MaxCalls = 2
  MaxFaults = 1
CHECK_DEADLOCK FALSE
INVARIANT AnswersMatch TableIsWaiters OneProcessRead
PROPERTY EveryCallEnds
