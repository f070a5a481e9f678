SPECIFICATION Spec
CONSTANTS
  MaxCalls = 1
  MaxDrops = 1
  MaxScans = 1
  Timeout = 3
  AttemptTimeout = 2
  IoTimeout = 1
INVARIANT ExpiryReconnects
CHECK_DEADLOCK FALSE
