SPECIFICATION Spec
CONSTANTS
  MaxCalls = 2
  MaxDrops = 1
  MaxScans = 1
  Timeout = 3
  AttemptTimeout = 2
  IoTimeout = 1
INVARIANTS ProvisioningTypeOK SavedSessionIsLinked FailureLeavesNoDevice
INVARIANTS EnvelopeNotDiscarded EnvelopeForLastUrl WaitEndsInTime
PROPERTY LinkingEnds
CHECK_DEADLOCK FALSE
