---------------------------- MODULE Float32Volts ----------------------------
(***************************************************************************)
(* The conversion between register centivolts and API volts, bit for bit.  *)
(*                                                                         *)
(* getFloatValue divides the register by 100 in float32 arithmetic;        *)
(* writeVoltageParametersBlock multiplies by 100 in float32 arithmetic and *)
(* truncates to uint16.  A float32 in [4 V, 128 V) is a whole number of    *)
(* units of 2^-21 V, so a voltage is that integer, and IEEE rounding is    *)
(* rounding to 24 significant bits, half to even.  Powers of two are       *)
(* written out, because the provers do not compute them.                   *)
(***************************************************************************)
EXTENDS Integers

UnitsPerVolt == 2097152    \* 2^21

RoundHalfEven(n, d) ==
  LET q == n \div d
      twice == 2 * (n % d)
  IN  IF twice < d \/ (twice = d /\ q % 2 = 0) THEN q ELSE q + 1

\* The units in the last place of a float32 in each binade from 4 V on.
Ulps == {1, 2, 4, 8, 16}

\* c centivolts lie in [4 * ulp, 8 * ulp) volts.
CentivoltUlp(c) == CHOOSE ulp \in Ulps : 400 * ulp <= c /\ c < 800 * ulp

\* The mantissa u \div ulp is in [2^23, 2^24).
UnitUlp(u) == CHOOSE ulp \in Ulps : 8388608 * ulp <= u /\ u < 16777216 * ulp

\* Mutant: the integer is divided before it becomes a float.
FromRegister_IntegerDivision(c) == (c \div 100) * UnitsPerVolt

\* float32(register) / 100
FromRegister(c) ==
  LET ulp == CentivoltUlp(c)
  IN  RoundHalfEven(c * (UnitsPerVolt \div ulp), 100) * ulp

\* Mutant: the product is truncated before float32 has rounded it.
ToRegister_Exact(u) ==
  LET ulp == UnitUlp(u) IN ((u \div ulp) * 100) \div (UnitsPerVolt \div ulp)

\* uint16(volts * 100): the product of a 24-bit mantissa and 100 has 30 or 31
\* bits, of which float32 keeps 24.
ToRegister(u) ==
  LET ulp == UnitUlp(u)
      product == (u \div ulp) * 100
      dropped == IF product < 1073741824 THEN 64 ELSE 128    \* 2^30
  IN  (RoundHalfEven(product, dropped) * dropped) \div (UnitsPerVolt \div ulp)
=============================================================================
