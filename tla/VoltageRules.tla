---------------------------- MODULE VoltageRules ----------------------------
(***************************************************************************)
(* The twelve voltage settings of an Epever charge controller (holding     *)
(* registers 0x9003-0x900E), the rules a configuration has to obey before  *)
(* it may be written, and the conversion between the volts the API speaks  *)
(* and the centivolts the registers hold.                                  *)
(*                                                                         *)
(* A voltage of the API is a float32.  Volts is the set of voltages in     *)
(* play, as integers in whatever unit makes them whole; Encode and Decode  *)
(* are the conversions of configurer.go as functions.  Nothing here needs  *)
(* more of them than that they keep the order weakly, which is what a      *)
(* division, a multiplication and a truncation do.  Float32Volts computes  *)
(* both exactly.                                                           *)
(***************************************************************************)
EXTENDS Integers

CONSTANTS
  Volts,      \* the voltages requests carry and registers decode to
  MinVolts,   \* minVoltageSetting
  MaxVolts,   \* maxVoltageSetting
  Registers,  \* the centivolt values registers hold
  Encode,     \* volts to centivolts, as written to a register
  Decode      \* centivolts to volts, as read back from a register

InBounds(v) == MinVolts <= v /\ v <= MaxVolts

Settable == {v \in Volts : InBounds(v)}

ASSUME VoltsAssumption ==
  /\ Volts \subseteq Int /\ 0 \in Volts
  /\ MinVolts \in Int /\ MaxVolts \in Int /\ 0 < MinVolts
  /\ Registers \subseteq Int

ASSUME ConversionAssumption ==
  /\ Encode \in [Settable -> Registers]
  /\ Decode \in [Registers -> Volts]
  /\ \A v, w \in Settable : v <= w => Encode[v] <= Encode[w]
  /\ \A c, d \in Registers : c <= d => Decode[c] <= Decode[d]

-----------------------------------------------------------------------------
\* The fields a PATCH may change, and all the fields of the block.
Patchable == {"chargingLimit", "equalization", "boost", "float", "boostReconnect"}

VoltageParams == Patchable \cup
  {"overVoltDisconnect", "overVoltReconnect", "lowVoltReconnect",
   "underVoltReconnect", "underVoltWarning", "lowVoltDisconnect",
   "dischargingLimit"}

\* The pairs <<higher, lower>> of the four relationship rules.
Above ==
  { <<"overVoltDisconnect", "chargingLimit">>,       \* rule 1
    <<"chargingLimit", "equalization">>,
    <<"equalization", "boost">>,
    <<"boost", "float">>,
    <<"float", "boostReconnect">>,
    <<"underVoltReconnect", "underVoltWarning">>,    \* rule 2
    <<"underVoltWarning", "lowVoltDisconnect">>,
    <<"lowVoltDisconnect", "dischargingLimit">>,
    <<"overVoltDisconnect", "overVoltReconnect">>,   \* rule 3
    <<"lowVoltReconnect", "lowVoltDisconnect">> }    \* rule 4

\* The strict order the rules ask for, and the weak one that survives rounding.
Ordered(v) == \A pair \in Above : v[pair[1]] > v[pair[2]]

WeaklyOrdered(v) == \A pair \in Above : v[pair[1]] >= v[pair[2]]

ValidVoltages(v) ==
  /\ \A p \in VoltageParams : InBounds(v[p])
  /\ Ordered(v)

\* Mutant: registers 0x900B and 0x900C are sent in the wrong order.
EncodeBlock_Swapped(v) ==
  [p \in VoltageParams |->
     Encode[v[CASE p = "underVoltReconnect" -> "underVoltWarning"
                [] p = "underVoltWarning" -> "underVoltReconnect"
                [] OTHER -> p]]]

EncodeBlock(v) == [p \in VoltageParams |-> Encode[v[p]]]

DecodeBlock(b) == [p \in VoltageParams |-> Decode[b[p]]]
=============================================================================
