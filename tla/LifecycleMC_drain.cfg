SPECIFICATION Spec
CONSTANTS
  epever = epever
  voltgo = voltgo
  Order <- BothControllers
  Collections <- VoltgoRuns
  Requests = {patch}
  Operations = 2
  MaxTicks = 1
  MaxConnects = 2
INVARIANTS RequestsDrained
CHECK_DEADLOCK FALSE
