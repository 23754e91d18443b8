\* Requests one at a time, no faults, exact voltages.
SPECIFICATION Spec
CONSTANTS
  Requests = {r1, r2, r3}
  Bodies <- AllBodies
  MaxInFlight = 1
  MaxFaults = 0
  InitialRegs <- MCRegs
  InitialBlock <- BlockValues
  Volts <- MCVolts
  MinVolts <- MCMin
  MaxVolts <- MCMax
  Registers <- MCRegisters
  Encode <- MCEncode
  Decode <- MCDecode
SYMMETRY Symmetric
INVARIANTS PatchShowsItsWrite CacheFreshWhenQuiet
PROPERTIES ImplementsStore OnlyRequestedFields ChargingOnlyWhenUserDefined
