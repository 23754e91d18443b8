\* A GET fills the cache while a PATCH writes.
SPECIFICATION Spec
CONSTANTS
  Requests = {r1, r2}
  Bodies <- PatchAndGet
  MaxInFlight = 2
  MaxFaults = 0
  InitialRegs <- MCRegs
  InitialBlock <- BlockValues
  Volts <- MCVolts
  MinVolts <- MCMin
  MaxVolts <- MCMax
  Registers <- MCRegisters
  Encode <- MCEncode
  Decode <- MCDecode
SYMMETRY Symmetric
INVARIANTS PatchShowsItsWrite
