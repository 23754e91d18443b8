\* Any two requests at once, one failing register operation.
SPECIFICATION Spec
CONSTANTS
  Requests = {r1, r2}
  Bodies <- RacingBodies
  MaxInFlight = 2
  MaxFaults = 1
  InitialRegs <- MCRegs
  InitialBlock <- DriftingBlock
  Volts <- MCVolts
  MinVolts <- MCMin
  MaxVolts <- MCMax
  Registers <- MCRegisters
  Encode <- MCEncode
  Decode <- MCDecode
SYMMETRY Symmetric
INVARIANTS TypeOK DeviceOrdered ConfigsOrdered RejectedWroteNothing OkMeansWritten NothingInvented
