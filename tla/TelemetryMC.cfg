SPECIFICATION Spec
CONSTANTS
  epever = epever
  voltgo = voltgo
  Controllers = {epever, voltgo}
  CycleSize <- SmallCycles
  WithInfo <- Voltgo
  Period = 1
  MaxTicks = 1
  MaxNow = 2
  BatchSize = 2
  BatchTimeout = 0
  LabelOrders = {1, 2}
INVARIANTS TypeOK SamplesInOrder BufferBounded SentOnce FullCyclePushesOlder FlagHasOwner
PROPERTIES StatusNeverGoesBack
