SPECIFICATION Spec
CONSTANTS
  d1 = d1
  Device = {d1}
  MaxAttach = 2
  MaxStarts = 2
  MaxPlugs = 2
  MaxRequests = 1
CHECK_DEADLOCK FALSE
INVARIANT TypeOK
INVARIANT ClaimsServed
INVARIANT ForgottenWhenStopped
INVARIANT MonitorFound
INVARIANT NothingLost
PROPERTY Converges
