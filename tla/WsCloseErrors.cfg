SPECIFICATION Spec
CONSTANTS
  run = run
  stop = stop
  Closers = {run, stop}
  MaxPush = 1
  MaxTick = 1
  MaxWire = 1
INVARIANT CloseRaisesSigsigErrors
CHECK_DEADLOCK FALSE
