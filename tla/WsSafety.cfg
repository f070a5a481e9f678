SPECIFICATION Spec
CONSTANTS
  run = run
  stop = stop
  Closers = {run, stop}
  MaxPush = 3
  MaxTick = 2
  MaxWire = 3
SYMMETRY Symmetric
INVARIANTS TypeOK PushOrder GracefulCloseDeliversAll SentinelEndsQueue NoOrphanWaiter CloseLeavesNothing
PROPERTY FuturesSettleOnce
CHECK_DEADLOCK FALSE
