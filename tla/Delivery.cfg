SPECIFICATION Spec
CONSTANTS
  h1 = h1
  h2 = h2
  Handler <- MCHandler
  Registered <- MCRegistered
  Touched <- MCTouched
  Envelopes <- MCEnvelopes
  Patience = 1
  MaxMail = 2
  MaxResets = 1
  MaxCrashes = 1
INVARIANTS
  DeliveryTypeOK
  RepeatOnlyAfterRollback
  ForgottenOnlyHandled
  UnreadableOnlyForCause
PROPERTIES
  DispatchIsComplete
