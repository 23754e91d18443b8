--------------------------- MODULE ModbusClientMC ---------------------------
(* Values for the constants of ModbusClient.                               *)
EXTENDS ModbusClient

CONSTANTS float, boost

Write(registers, v) ==
  [write |-> TRUE, at |-> registers, values |-> [r \in Registers |-> v]]

\* writeSingle, writeVoltageParametersBlock and a read of the block
SingleBlockRead ==
  { Write({float}, 1), Write(Registers, 0), [Write(Registers, 0) EXCEPT !.write = FALSE] }
=============================================================================
