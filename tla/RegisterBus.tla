---------------------------- MODULE RegisterBus ----------------------------
(***************************************************************************)
(* What the users of epever's ModbusClient interface rely on: a register   *)
(* operation takes effect once, at one moment between its call and its     *)
(* return.  One that succeeds has taken effect, and a read returns what    *)
(* the registers held at that moment; one that fails may have or not.      *)
(***************************************************************************)
CONSTANTS
  Callers,     \* goroutines that use the client
  Registers,
  Values,
  Operations   \* the operations they may ask for

VARIABLES
  regs,    \* the registers of the device
  op,      \* the operation each caller asked for last
  phase,   \* how far that operation is
  value    \* what each caller's last read returned

vars == <<regs, op, phase, value>>

Overwritten(registers, o) ==
  [r \in Registers |-> IF o.write /\ r \in o.at THEN o.values[r] ELSE registers[r]]

Answer(registers, o) == [r \in o.at |-> registers[r]]

Nothing == [r \in {} |-> r]

Init ==
  /\ regs \in [Registers -> Values]
  /\ op \in [Callers -> Operations]
  /\ phase = [c \in Callers |-> "idle"]
  /\ value = [c \in Callers |-> Nothing]

Goto(c, place) == phase' = [phase EXCEPT ![c] = place]

Call(c) ==
  /\ phase[c] \in {"idle", "ok", "failed"}
  /\ \E o \in Operations : op' = [op EXCEPT ![c] = o]
  /\ Goto(c, "pending")
  /\ UNCHANGED <<regs, value>>

Take(c) ==
  /\ phase[c] = "pending"
  /\ Goto(c, "taken")
  /\ regs' = Overwritten(regs, op[c])
  /\ value' = IF op[c].write THEN value
              ELSE [value EXCEPT ![c] = Answer(regs, op[c])]
  /\ UNCHANGED op

Succeed(c) ==
  /\ phase[c] = "taken"
  /\ Goto(c, "ok")
  /\ UNCHANGED <<regs, op, value>>

Fail(c) ==
  /\ phase[c] \in {"pending", "taken"}
  /\ Goto(c, "failed")
  /\ UNCHANGED <<regs, op, value>>

Next == \E c \in Callers : Call(c) \/ Take(c) \/ Succeed(c) \/ Fail(c)

Spec == Init /\ [][Next]_vars
=============================================================================
