--------------------------- MODULE VoltageRewrite ---------------------------
(***************************************************************************)
(* What happens to a voltage register nobody asked to change.  Each PATCH  *)
(* of any voltage reads the whole block, and writes it back: every         *)
(* register of it goes through FromRegister and ToRegister once more.      *)
(***************************************************************************)
EXTENDS Float32Volts

CONSTANTS Lowest, Highest   \* the registers of minVoltageSetting, maxVoltageSetting

ASSUME RangeAssumption == Lowest \in 401..Highest /\ Highest \in 401..12797

VARIABLES original, register

vars == <<original, register>>

Init == original \in Lowest..Highest /\ register = original

Rewrite ==
  /\ register' = ToRegister(FromRegister(register))
  /\ UNCHANGED original

Spec == Init /\ [][Rewrite]_vars

-----------------------------------------------------------------------------
\* However often it is rewritten, a register loses two centivolts at most
\* (getFloatValue, configurer.go:146, and the conversion at configurer.go:377).
BoundedDrift == register \in original - 2 .. original

\* The API shows different registers as different voltages, in order, and never
\* writes a higher voltage to a lower register: what VoltageRules assumes of
\* the conversions.  Voltages two centivolts apart, as the rules see them, stay
\* apart on the device; a centivolt is not enough, 16.05 V and 16.04 V are both
\* written as 1604 (configurer.go:377).
ConversionKeepsOrder ==
  /\ FromRegister(register) < FromRegister(register + 1)
  /\ ToRegister(FromRegister(register)) <= ToRegister(FromRegister(register + 1))
  /\ ToRegister(FromRegister(register)) < ToRegister(FromRegister(register + 2))
=============================================================================
