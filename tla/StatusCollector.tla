-------------------------- MODULE StatusCollector --------------------------
(***************************************************************************)
(* GetStatus of the Epever collector (epever/collector.go) and the parser  *)
(* of its registers (epever/parser): four Modbus reads, one after the      *)
(* other, from a device whose values change meanwhile.                     *)
(*                                                                         *)
(* A read returns the registers of its range as they are at one moment.    *)
(* Quantities that go the same way as another (voltages and currents like  *)
(* the state of charge, charging power like array power) are left out, and *)
(* so are the division by 100 and the rounding to float32.                 *)
(***************************************************************************)
EXTENDS Integers, Sequences, FiniteSets

CONSTANTS
  Powers,        \* what the 32-bit quantities may be, in hundredths
  Temperatures,  \* what the temperatures may be, in hundredths of a degree
  Levels,        \* what the state of charge may be, in percent
  OtherBits,     \* of the controller status: what surrounds the charging status
  MaxMoments     \* bound: the states the device goes through during a cycle

\* What a register holds
Word == {n \in Nat : n < 65536}
SignedWord == {t \in Int : t + 32768 \in Word}

Low(n) == n % 65536
High(n) == n \div 65536

\* Unsigned numbers in two registers, signed ones and bits in one
ASSUME PowersAssumption == Powers \subseteq {p \in Nat : High(p) \in Word}

ASSUME TemperaturesAssumption == Temperatures \subseteq SignedWord

ASSUME LevelsAssumption == Levels \subseteq Word

ASSUME BitsAssumption == OtherBits \subseteq {b \in Word : (b \div 4) % 4 = 0}

\* What the device measures: three of the 18 registers read together, and
\* those read by themselves.
Devices ==
  [ arrayPower : Powers, batteryTemp : Temperatures, batterySOC : Levels,
    energyGeneratedDaily : Powers, chargingStatus : 0..3, otherBits : OtherBits ]

\* The input registers that are read
InputRegisters ==
  { "arrayPowerLow", "arrayPowerHigh", "batteryTemperature", "batterySOC",
    "energyLow", "energyHigh", "controllerStatus" }

\* What a status reports
Quantities ==
  {"arrayPower", "batteryTemp", "batterySOC", "energyGeneratedDaily", "chargingStatus"}

VARIABLES
  device,   \* what the device measures now
  moments,  \* history: what it measured since the cycle began
  raw,      \* the registers read so far in this cycle
  done,     \* how many of the requests were answered
  reading,  \* a cycle is under way
  status    \* what the last cycle returned: a status, or nothing

vars == <<device, moments, raw, done, reading, status>>

-----------------------------------------------------------------------------
StatusWord(other, charging) == other + 4 * charging

\* How the device lays its quantities out: the low word of 32 bits first.
Registers(d) ==
  [ arrayPowerLow |-> Low(d.arrayPower),
    arrayPowerHigh |-> High(d.arrayPower),
    batteryTemperature |-> Low(d.batteryTemp),
    batterySOC |-> d.batterySOC,
    energyLow |-> Low(d.energyGeneratedDaily),
    energyHigh |-> High(d.energyGeneratedDaily),
    controllerStatus |-> StatusWord(d.otherBits, d.chargingStatus) ]

\* Mutant: the two words of the energy are read like other single registers.
Requests_WordByWord ==
  << {"arrayPowerLow", "arrayPowerHigh", "batteryTemperature"},
     {"batterySOC"}, {"energyLow"}, {"energyHigh"}, {"controllerStatus"} >>

\* The register ranges GetStatus asks for, in order
Requests ==
  << {"arrayPowerLow", "arrayPowerHigh", "batteryTemperature"},
     {"batterySOC"},
     {"energyLow", "energyHigh"},
     {"controllerStatus"} >>

ParseFloat32(first, second) == second * 65536 + first

\* Mutant: off by one at the smallest temperature.
ParseSignedTemperature_Above(word) == IF word > 32768 THEN word - 65536 ELSE word

ParseSignedTemperature(word) == IF word >= 32768 THEN word - 65536 ELSE word

ChargingStatus(word) == (word \div 4) % 4    \* (word & 0x0C) >> 2

Parse(r) ==
  [ arrayPower |-> ParseFloat32(r.arrayPowerLow, r.arrayPowerHigh),
    batteryTemp |-> ParseSignedTemperature(r.batteryTemperature),
    batterySOC |-> r.batterySOC,
    energyGeneratedDaily |-> ParseFloat32(r.energyLow, r.energyHigh),
    chargingStatus |-> ChargingStatus(r.controllerStatus) ]

Blank == [register \in InputRegisters |-> 0]

-----------------------------------------------------------------------------
TypeOK ==
  /\ device \in Devices /\ moments \in Seq(Devices)
  /\ raw \in [InputRegisters -> Word]
  /\ done \in 0..Len(Requests)
  /\ reading \in BOOLEAN
  /\ status \subseteq
       [ arrayPower : Nat, batteryTemp : SignedWord, batterySOC : Word,
         energyGeneratedDaily : Nat, chargingStatus : 0..3 ]

Init ==
  /\ device \in Devices
  /\ moments = <<device>>
  /\ raw = Blank
  /\ done = 0
  /\ reading = FALSE
  /\ status = {}

Begin ==
  /\ ~reading /\ reading' = TRUE
  /\ device' \in Devices
  /\ moments' = <<device'>>
  /\ raw' = Blank
  /\ done' = 0
  /\ status' = {}

Answered ==
  [register \in InputRegisters |->
     IF register \in Requests[done + 1] THEN Registers(device)[register] ELSE raw[register]]

\* One request is answered; after the last one GetStatus returns.
Read ==
  /\ reading
  /\ raw' = Answered
  /\ done' = done + 1
  /\ IF done' = Len(Requests)
     THEN reading' = FALSE /\ status' = {Parse(raw')}
     ELSE UNCHANGED <<reading, status>>
  /\ UNCHANGED <<device, moments>>

\* A request fails, or is answered with too little data.
Fail ==
  /\ reading /\ reading' = FALSE
  /\ UNCHANGED <<device, moments, raw, done, status>>

\* The device measures something else.
Change ==
  /\ reading /\ Len(moments) < MaxMoments
  /\ device' \in Devices
  /\ moments' = Append(moments, device')
  /\ UNCHANGED <<raw, done, reading, status>>

Next == Begin \/ Read \/ Fail \/ Change

Spec == Init /\ [][Next]_vars

-----------------------------------------------------------------------------
(* Properties                                                              *)

\* The request that reads a quantity
ReadBy(quantity) ==
  CASE quantity \in {"arrayPower", "batteryTemp"} -> 1
    [] quantity = "batterySOC" -> 2
    [] quantity = "energyGeneratedDaily" -> 3
    [] quantity = "chargingStatus" -> 4

\* A status tells what the device measured after the cycle began, at moments
\* in the order of the requests: no word of a 32-bit value is of another
\* moment than the other one, what was read together was so together, and a
\* cycle that failed half-way returns nothing (collector.go: GetStatus).
StatusWasMeasured ==
  \A s \in status :
    \E at \in [1..4 -> 1..Len(moments)] :
      /\ \A i, j \in 1..4 : i <= j => at[i] <= at[j]
      /\ \A q \in Quantities : s[q] = moments[at[ReadBy(q)]][q]

=============================================================================
