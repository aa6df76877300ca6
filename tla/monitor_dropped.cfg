SPECIFICATION Spec
CONSTANTS
  d1 = d1
  Device = {d1}
  MaxAttach = 1
  MaxStarts = 1
  MaxPlugs = 0
  MaxRequests = 1
CHECK_DEADLOCK FALSE
INVARIANT TestedMonitorFound
