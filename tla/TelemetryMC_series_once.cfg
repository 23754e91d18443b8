SPECIFICATION Spec
CONSTANTS
  epever = epever
  voltgo = voltgo
  Controllers = {voltgo}
  CycleSize <- RealCycles
  WithInfo <- Voltgo
  Period = 2
  MaxTicks = 2
  MaxNow = 4
  BatchSize = 12
  BatchTimeout = 0
  LabelOrders = {1, 2}
INVARIANTS EachSeriesOnce
