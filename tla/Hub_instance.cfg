SPECIFICATION Spec
CONSTANTS
  Procs = {p1, p2, p3}
  Past = Past
  Bridges = {b1, b2}
  None = None
  MaxStops = 1
  MaxFaults = 1
CHECK_DEADLOCK FALSE
INVARIANT OneOwner ListenerReachable PidNamesOwner
PROPERTY AutoStartWorks
