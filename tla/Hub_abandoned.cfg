SPECIFICATION Spec
CONSTANTS
  Procs = {p1, p2}
  Past = Past
  Bridges = {b1}
  None = None
  MaxStops = 0
  MaxFaults = 0
CHECK_DEADLOCK FALSE
PROPERTY WinnerServes
