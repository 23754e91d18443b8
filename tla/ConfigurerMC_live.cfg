\* Progress of the handlers.
SPECIFICATION FairSpec
CONSTANTS
  Requests = {r1, r2}
  Bodies <- LiveBodies
  MaxInFlight = 2
  MaxFaults = 1
  InitialRegs <- MCRegs
  InitialBlock <- BlockValues
  Volts <- MCVolts
  MinVolts <- MCMin
  MaxVolts <- MCMax
  Registers <- MCRegisters
  Encode <- MCEncode
  Decode <- MCDecode
PROPERTIES EveryRequestAnswered
