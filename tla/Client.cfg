SPECIFICATION ClientSpec
CONSTANTS
  Closers = {"run", "stop"}
  MaxPush = 2
  MaxTick = 1
  MaxWire = 1
INVARIANTS ClientTypeOK HandledInOrder AckedUnhandledOnlyByStop NoAckSkipped StopIsFinal
PROPERTIES LossEndsRun StopEndsRun
CHECK_DEADLOCK FALSE
