------------------------ MODULE VoltageRewrite_proof ------------------------
(***************************************************************************)
(* Proofs about the conversion between registers and voltages, for every   *)
(* float32 and every register from 4 V up to 128 V.                        *)
(***************************************************************************)
EXTENDS VoltageRewrite, TLAPS

Centivolts == {c \in Nat : 400 <= c /\ c < 12800}

FloatVolts == {u \in Nat : 8388608 <= u /\ u < 268435456}

\* A register after its block was read and written back.
Rewritten(c) == ToRegister(FromRegister(c))

-----------------------------------------------------------------------------
(* Rounding                                                                *)

\* The divisors the conversions round by.
Divisors == {64, 100, 128}

LEMMA RoundNearest ==
  ASSUME NEW n \in Nat, NEW d \in Divisors
  PROVE  /\ RoundHalfEven(n, d) \in Nat
         /\ 2 * n - d <= 2 * (d * RoundHalfEven(n, d))
         /\ 2 * (d * RoundHalfEven(n, d)) <= 2 * n + d
  <1>1. CASE d = 64
    BY <1>1 DEF RoundHalfEven
  <1>2. CASE d = 100
    BY <1>2 DEF RoundHalfEven
  <1>3. CASE d = 128
    BY <1>3 DEF RoundHalfEven
  <1> QED
    BY <1>1, <1>2, <1>3 DEF Divisors

LEMMA RoundMonotone ==
  ASSUME NEW n \in Nat, NEW m \in Nat, n <= m, NEW d \in Divisors
  PROVE  RoundHalfEven(n, d) <= RoundHalfEven(m, d)
  <1>1. PICK r : r = RoundHalfEven(n, d)
    OBVIOUS
  <1>2. PICK s : s = RoundHalfEven(m, d)
    OBVIOUS
  <1>3. /\ r \in Nat /\ 2 * (d * r) <= 2 * n + d
        /\ s \in Nat /\ 2 * m - d <= 2 * (d * s)
    BY <1>1, <1>2, RoundNearest
  <1>4. n = m => r = s
    BY <1>1, <1>2
  <1>5. d = 64 => r <= s
    BY <1>3, <1>4
  <1>6. d = 100 => r <= s
    BY <1>3, <1>4
  <1>7. d = 128 => r <= s
    BY <1>3, <1>4
  <1> QED
    BY <1>1, <1>2, <1>5, <1>6, <1>7 DEF Divisors

\* A whole multiple is not rounded.
LEMMA RoundExact ==
  ASSUME NEW d \in Divisors, NEW k \in Nat
  PROVE  RoundHalfEven(d * k, d) = k
  <1>1. PICK r : r = RoundHalfEven(d * k, d)
    OBVIOUS
  <1>2. d * k \in Nat
    BY DEF Divisors
  <1>3. r \in Nat /\ 2 * (d * k) - d <= 2 * (d * r) /\ 2 * (d * r) <= 2 * (d * k) + d
    BY <1>1, <1>2, RoundNearest
  <1>4. d = 64 => r = k
    BY <1>3
  <1>5. d = 100 => r = k
    BY <1>3
  <1>6. d = 128 => r = k
    BY <1>3
  <1> QED
    BY <1>1, <1>4, <1>5, <1>6 DEF Divisors

-----------------------------------------------------------------------------
(* Binades                                                                 *)

LEMMA CentivoltBinade ==
  ASSUME NEW c \in Centivolts
  PROVE  /\ CentivoltUlp(c) \in Ulps
         /\ 400 * CentivoltUlp(c) <= c /\ c < 800 * CentivoltUlp(c)
  <1>1. \E ulp \in Ulps : 400 * ulp <= c /\ c < 800 * ulp
    BY SMT DEF Centivolts, Ulps
  <1> QED
    BY SMT, <1>1 DEF CentivoltUlp

LEMMA UnitBinade ==
  ASSUME NEW u \in FloatVolts
  PROVE  /\ UnitUlp(u) \in Ulps
         /\ 8388608 * UnitUlp(u) <= u /\ u < 16777216 * UnitUlp(u)
  <1>1. \E ulp \in Ulps : 8388608 * ulp <= u /\ u < 16777216 * ulp
    BY SMT DEF FloatVolts, Ulps
  <1> QED
    BY SMT, <1>1 DEF UnitUlp

LEMMA UnitBinadeUnique ==
  ASSUME NEW u \in FloatVolts, NEW ulp \in Ulps,
         8388608 * ulp <= u, u < 16777216 * ulp
  PROVE  UnitUlp(u) = ulp
  BY SMT, UnitBinade DEF FloatVolts, Ulps

-----------------------------------------------------------------------------
(* Reading a register                                                      *)

\* The units of a centivolt's binade are the quotient of a division by 100,
\* rounded to the nearest.
LEMMA Mantissa ==
  ASSUME NEW c \in Centivolts, NEW ulp \in Ulps, CentivoltUlp(c) = ulp
  PROVE  \E m \in Nat :
           /\ FromRegister(c) = m * ulp
           /\ m = RoundHalfEven(c * (UnitsPerVolt \div ulp), 100)
           /\ 8388608 <= m /\ m < 16777216
           /\ c * (UnitsPerVolt \div ulp) - 50 <= 100 * m
           /\ 100 * m <= c * (UnitsPerVolt \div ulp) + 50
  <1>1. PICK n : n = c * (UnitsPerVolt \div ulp)
    OBVIOUS
  <1>2. PICK m : m = RoundHalfEven(n, 100)
    OBVIOUS
  <1>3. /\ n \in Nat /\ 838860800 <= n /\ n + 131072 <= 1677721600
    <2>1. c \in Nat /\ 400 * ulp <= c /\ c < 800 * ulp
      BY SMT, CentivoltBinade DEF Centivolts
    <2>2. CASE ulp = 1
      BY SMT, <1>1, <2>1, <2>2 DEF UnitsPerVolt
    <2>3. CASE ulp = 2
      BY SMT, <1>1, <2>1, <2>3 DEF UnitsPerVolt
    <2>4. CASE ulp = 4
      BY SMT, <1>1, <2>1, <2>4 DEF UnitsPerVolt
    <2>5. CASE ulp = 8
      BY SMT, <1>1, <2>1, <2>5 DEF UnitsPerVolt
    <2>6. CASE ulp = 16
      BY SMT, <1>1, <2>1, <2>6 DEF UnitsPerVolt
    <2> QED
      BY <2>2, <2>3, <2>4, <2>5, <2>6, SMT DEF Ulps
  <1>4. m \in Nat /\ n - 50 <= 100 * m /\ 100 * m <= n + 50
    <2>1. m \in Nat /\ 2 * n - 100 <= 2 * (100 * m) /\ 2 * (100 * m) <= 2 * n + 100
      BY SMT, <1>2, <1>3, RoundNearest DEF Divisors
    <2> QED
      BY SMT, <1>3, <2>1
  <1>5. FromRegister(c) = m * ulp
    BY SMT, <1>1, <1>2 DEF FromRegister
  <1>6. 8388608 <= m /\ m < 16777216
    BY SMT, <1>3, <1>4
  <1> QED
    BY SMT, <1>1, <1>2, <1>4, <1>5, <1>6

LEMMA UlpsDouble ==
  ASSUME NEW s \in Ulps, NEW t \in Ulps
  PROVE  /\ s \in Nat /\ s # t => 2 * s <= t \/ 2 * t <= s
         /\ UnitsPerVolt \div s \in Nat /\ 131072 <= UnitsPerVolt \div s
         /\ UnitsPerVolt = s * (UnitsPerVolt \div s)
  BY SMT DEF Ulps, UnitsPerVolt

\* A register is read as a voltage of its binade.
LEMMA ReadInBinade ==
  ASSUME NEW c \in Centivolts
  PROVE  /\ FromRegister(c) \in FloatVolts
         /\ 8388608 * CentivoltUlp(c) <= FromRegister(c)
         /\ FromRegister(c) < 16777216 * CentivoltUlp(c)
         /\ UnitUlp(FromRegister(c)) = CentivoltUlp(c)
  <1>1. PICK ulp \in Ulps : CentivoltUlp(c) = ulp
    BY CentivoltBinade
  <1>2. PICK m \in Nat : FromRegister(c) = m * ulp /\ 8388608 <= m /\ m < 16777216
    BY <1>1, Mantissa
  <1>3. m * ulp \in FloatVolts /\ 8388608 * ulp <= m * ulp /\ m * ulp < 16777216 * ulp
    BY SMT, <1>2 DEF Ulps, FloatVolts
  <1>4. UnitUlp(m * ulp) = ulp
    BY SMT, <1>3, UnitBinadeUnique
  <1> QED
    BY SMT, <1>1, <1>2, <1>3, <1>4

\* A higher register is read as a higher voltage: those of one binade are
\* 100 / 131072 of a unit apart at least, and the next binade begins where
\* this one ends.
LEMMA ReadStrict ==
  ASSUME NEW c \in Centivolts, NEW d \in Centivolts, c < d
  PROVE  FromRegister(c) < FromRegister(d)
  <1>1. PICK s \in Ulps : CentivoltUlp(c) = s
    BY CentivoltBinade
  <1>2. PICK t \in Ulps : CentivoltUlp(d) = t
    BY CentivoltBinade
  <1>3. FromRegister(c) < 16777216 * s /\ 8388608 * t <= FromRegister(d)
        /\ FromRegister(c) \in Nat /\ FromRegister(d) \in Nat
    BY SMT, <1>1, <1>2, ReadInBinade DEF FloatVolts
  <1>4. CASE s = t
    <2>1. PICK k : k = UnitsPerVolt \div s
      OBVIOUS
    <2>2. PICK m \in Nat : FromRegister(c) = m * s /\ 100 * m <= c * k + 50
      BY SMT, <1>1, <2>1, Mantissa
    <2>3. PICK n \in Nat : FromRegister(d) = n * s /\ d * k - 50 <= 100 * n
      BY SMT, <1>2, <1>4, <2>1, Mantissa
    <2>4. c \in Nat /\ d \in Nat /\ k \in {131072, 262144, 524288, 1048576, 2097152}
      BY SMT, <2>1 DEF Centivolts, Ulps, UnitsPerVolt
    <2>5. c * k + 131072 <= d * k /\ c * k \in Nat /\ d * k \in Nat
      BY SMT, <2>4
    <2>6. m < n
      BY SMT, <2>2, <2>3, <2>5
    <2> QED
      BY SMT, <2>2, <2>3, <2>6 DEF Ulps
  <1>5. CASE s # t
    <2>1. 400 * s <= c /\ d < 800 * t /\ c \in Nat /\ d \in Nat
      BY SMT, <1>1, <1>2, CentivoltBinade DEF Centivolts
    <2>2. 2 * s <= t
      BY SMT, <1>5, <2>1 DEF Ulps
    <2> QED
      BY SMT, <1>3, <2>2 DEF Ulps
  <1> QED
    BY <1>4, <1>5

-----------------------------------------------------------------------------
(* Writing a register                                                      *)

\* What float32 keeps of the product.
Kept(product) ==
  LET dropped == IF product < 1073741824 THEN 64 ELSE 128
  IN  RoundHalfEven(product, dropped) * dropped

Products == {p \in Nat : 838860800 <= p /\ p < 1677721600}

LEMMA KeptMonotone ==
  ASSUME NEW p \in Nat, NEW q \in Nat, p <= q
  PROVE  Kept(p) \in Nat /\ Kept(p) <= Kept(q)
  <1>1. /\ RoundHalfEven(p, 64) \in Nat /\ RoundHalfEven(p, 64) <= RoundHalfEven(q, 64)
        /\ RoundHalfEven(p, 128) \in Nat /\ RoundHalfEven(p, 128) <= RoundHalfEven(q, 128)
        /\ RoundHalfEven(q, 64) \in Nat /\ RoundHalfEven(q, 128) \in Nat
    BY SMT, RoundNearest, RoundMonotone DEF Divisors
  <1>2. CASE p < 1073741824 /\ q < 1073741824
    BY SMT, <1>1, <1>2 DEF Kept
  <1>3. CASE ~(p < 1073741824) /\ ~(q < 1073741824)
    BY SMT, <1>1, <1>3 DEF Kept
  <1>4. CASE p < 1073741824 /\ ~(q < 1073741824)
    <2>1. RoundHalfEven(p, 64) <= 16777216
      <3>1. RoundHalfEven(64 * 16777216, 64) = 16777216
        BY SMT, RoundExact DEF Divisors
      <3> QED
        BY SMT, <1>4, <3>1, RoundMonotone DEF Divisors
    <2>2. 8388608 <= RoundHalfEven(q, 128)
      <3>1. RoundHalfEven(128 * 8388608, 128) = 8388608
        BY SMT, RoundExact DEF Divisors
      <3> QED
        BY SMT, <1>4, <3>1, RoundMonotone DEF Divisors
    <2> QED
      BY SMT, <1>1, <1>4, <2>1, <2>2 DEF Kept
  <1> QED
    BY SMT, <1>2, <1>3, <1>4

LEMMA KeptBounds ==
  ASSUME NEW p \in Products
  PROVE  Kept(p) \in Nat /\ 838860800 <= Kept(p) /\ Kept(p) <= 1677721600
  <1>1. p \in Nat /\ 838860800 <= p /\ p <= 1677721600
    BY SMT DEF Products
  <1>2. Kept(838860800) = 838860800
    <2>1. RoundHalfEven(64 * 13107200, 64) = 13107200
      BY SMT, RoundExact DEF Divisors
    <2> QED
      BY SMT, <2>1 DEF Kept
  <1>3. Kept(1677721600) = 1677721600
    <2>1. RoundHalfEven(128 * 13107200, 128) = 13107200
      BY SMT, RoundExact DEF Divisors
    <2> QED
      BY SMT, <2>1 DEF Kept
  <1> QED
    BY SMT, <1>1, <1>2, <1>3, KeptMonotone

\* The product of a voltage's mantissa and 100.
LEMMA Product ==
  ASSUME NEW u \in FloatVolts, NEW ulp \in Ulps, UnitUlp(u) = ulp
  PROVE  /\ (u \div ulp) * 100 \in Products
         /\ ToRegister(u) = Kept((u \div ulp) * 100) \div (UnitsPerVolt \div ulp)
  <1>1. u \in Nat /\ 8388608 * ulp <= u /\ u < 16777216 * ulp
    BY SMT, UnitBinade DEF FloatVolts
  <1>2. (u \div ulp) * 100 \in Products
    BY SMT, <1>1 DEF Ulps, Products
  <1>3. ToRegister(u) = Kept((u \div ulp) * 100) \div (UnitsPerVolt \div ulp)
    BY SMT DEF ToRegister, Kept
  <1> QED
    BY <1>2, <1>3

\* A higher voltage is never written as a lower register.
LEMMA WriteMonotone ==
  ASSUME NEW u \in FloatVolts, NEW w \in FloatVolts, u <= w
  PROVE  ToRegister(u) <= ToRegister(w)
  <1>1. PICK s \in Ulps : UnitUlp(u) = s
    BY UnitBinade
  <1>2. PICK t \in Ulps : UnitUlp(w) = t
    BY UnitBinade
  <1>3. u \in Nat /\ w \in Nat /\ 8388608 * s <= u /\ w < 16777216 * t
    BY SMT, <1>1, <1>2, UnitBinade DEF FloatVolts
  <1>4. PICK p \in Products : p = (u \div s) * 100
    BY SMT, <1>1, Product
  <1>5. PICK q \in Products : q = (w \div t) * 100
    BY SMT, <1>2, Product
  <1>6. /\ ToRegister(u) = Kept(p) \div (UnitsPerVolt \div s)
        /\ ToRegister(w) = Kept(q) \div (UnitsPerVolt \div t)
    BY SMT, <1>1, <1>2, <1>4, <1>5, Product
  <1>7. /\ Kept(p) \in Nat /\ Kept(p) <= 1677721600
        /\ Kept(q) \in Nat /\ 838860800 <= Kept(q)
    BY SMT, KeptBounds
  <1>8. CASE s = t
    <2>1. p <= q /\ p \in Nat /\ q \in Nat
      BY SMT, <1>3, <1>4, <1>5, <1>8 DEF Ulps, Products
    <2>2. Kept(p) <= Kept(q)
      BY SMT, <2>1, KeptMonotone
    <2> QED
      BY SMT, <1>6, <1>7, <1>8, <2>2 DEF Ulps, UnitsPerVolt
  <1>9. CASE s # t
    <2>1. 2 * s <= t
      BY SMT, <1>3, <1>9 DEF Ulps
    <2>2. ToRegister(u) <= 800 * s
      BY SMT, <1>6, <1>7 DEF Ulps, UnitsPerVolt
    <2>3. 400 * t <= ToRegister(w)
      BY SMT, <1>6, <1>7 DEF Ulps, UnitsPerVolt
    <2>4. ToRegister(u) \in Int /\ ToRegister(w) \in Int
      BY SMT, <1>6, <1>7 DEF Ulps, UnitsPerVolt
    <2> QED
      BY SMT, <2>1, <2>2, <2>3, <2>4 DEF Ulps
  <1> QED
    BY <1>8, <1>9

-----------------------------------------------------------------------------
(* Reading and writing back                                                *)

\* The exact product is whole and far from the next register, so that what is
\* kept of the rounded one falls short of it by one step or not at all.
LEMMA KeptNear ==
  ASSUME NEW p \in Products, NEW n \in Nat, NEW k \in Nat, n = 128 * k,
         n - 50 <= p, p <= n + 50
  PROVE  /\ n - 64 <= Kept(p) /\ Kept(p) <= n + 64
         /\ Kept(p) < n => p <= n - 32
  <1>1. p \in Nat
    BY SMT DEF Products
  <1>2. /\ RoundHalfEven(p, 64) \in Nat
        /\ 2 * p - 64 <= 2 * (64 * RoundHalfEven(p, 64))
        /\ 2 * (64 * RoundHalfEven(p, 64)) <= 2 * p + 64
    BY SMT, <1>1, RoundNearest DEF Divisors
  <1>3. /\ RoundHalfEven(p, 128) \in Nat
        /\ 2 * p - 128 <= 2 * (128 * RoundHalfEven(p, 128))
        /\ 2 * (128 * RoundHalfEven(p, 128)) <= 2 * p + 128
    BY SMT, <1>1, RoundNearest DEF Divisors
  <1>4. Kept(p) = 64 * RoundHalfEven(p, 64) \/ Kept(p) = 128 * RoundHalfEven(p, 128)
    BY SMT, <1>2, <1>3 DEF Kept
  <1>5. CASE Kept(p) = 64 * RoundHalfEven(p, 64)
    BY SMT, <1>1, <1>2, <1>5
  <1>6. CASE Kept(p) = 128 * RoundHalfEven(p, 128)
    BY SMT, <1>1, <1>3, <1>6
  <1> QED
    BY <1>4, <1>5, <1>6

\* A register is written back as it was or one lower, and lower only if the
\* voltage it was read as is a third of a unit too low.
LEMMA OneLost ==
  ASSUME NEW c \in Centivolts
  PROVE  /\ Rewritten(c) \in {c - 1, c}
         /\ Rewritten(c) # c =>
              \E m \in Nat : LET exact == c * (UnitsPerVolt \div CentivoltUlp(c))
                             IN  exact - 50 <= 100 * m /\ 100 * m <= exact - 32
  <1>1. PICK ulp \in Ulps : CentivoltUlp(c) = ulp
    BY CentivoltBinade
  <1>2. PICK k \in Nat : k = UnitsPerVolt \div ulp
    BY UlpsDouble
  <1>3. PICK n \in Nat : n = c * k
    BY SMT, <1>2 DEF Centivolts
  <1>4. PICK m \in Nat : /\ FromRegister(c) = m * ulp
                         /\ 8388608 <= m /\ m < 16777216
                         /\ n - 50 <= 100 * m /\ 100 * m <= n + 50
    BY SMT, <1>1, <1>2, <1>3, Mantissa
  <1>5. FromRegister(c) \in FloatVolts /\ UnitUlp(FromRegister(c)) = ulp
    BY SMT, <1>1, ReadInBinade
  <1>6. (FromRegister(c) \div ulp) * 100 = 100 * m
    BY SMT, <1>4 DEF Ulps
  <1>7. 100 * m \in Products /\ Rewritten(c) = Kept(100 * m) \div k
    BY SMT, <1>2, <1>5, <1>6, Product DEF Rewritten
  <1>8. /\ n - 64 <= Kept(100 * m) /\ Kept(100 * m) <= n + 64
        /\ Kept(100 * m) < n => 100 * m <= n - 32
        /\ Kept(100 * m) \in Nat
    <2>1. c \in Nat
      BY SMT DEF Centivolts
    <2>2. \E j \in Nat : n = 128 * j
      <3>1. k = 128 * (k \div 128) /\ k \div 128 \in Nat
        BY SMT, <1>2 DEF Ulps, UnitsPerVolt
      <3>2. PICK i \in Nat : k = 128 * i
        BY SMT, <3>1
      <3>3. c * i \in Nat /\ n = 128 * (c * i)
        BY SMT, <1>3, <2>1, <3>2
      <3> QED
        BY SMT, <3>3
    <2>3. PICK j \in Nat : n = 128 * j
      BY <2>2
    <2> QED
      BY SMT, <1>3, <1>4, <1>7, <2>3, KeptNear, KeptBounds
  <1>9. /\ Kept(100 * m) \div k \in {c - 1, c}
        /\ Kept(100 * m) \div k # c => Kept(100 * m) < n
    <2>1. c \in Nat /\ k \in {131072, 262144, 524288, 1048576, 2097152}
      BY SMT, <1>2 DEF Centivolts, Ulps, UnitsPerVolt
    <2> QED
      BY SMT, <1>3, <1>8, <2>1
  <1> QED
    BY SMT, <1>1, <1>2, <1>3, <1>4, <1>7, <1>8, <1>9

\* The lowest register of a binade is read without rounding.
LEMMA BinadeExact ==
  ASSUME NEW ulp \in Ulps, NEW c \in Centivolts, c = 400 * ulp
  PROVE  Rewritten(c) = c
  <1>1. CentivoltUlp(c) = ulp
    BY SMT, CentivoltBinade DEF Ulps
  <1>2. SUFFICES ASSUME Rewritten(c) # c PROVE FALSE
    OBVIOUS
  <1>3. PICK m \in Nat : /\ c * (UnitsPerVolt \div ulp) - 50 <= 100 * m
                         /\ 100 * m <= c * (UnitsPerVolt \div ulp) - 32
    BY SMT, <1>1, <1>2, OneLost
  <1> QED
    BY SMT, <1>3 DEF Ulps, UnitsPerVolt

\* No three registers in a row are written back one lower: the steps between
\* centivolts are no whole hundredths of a unit in any binade.
LEMMA TwoLostAtMost ==
  ASSUME NEW c \in Centivolts, NEW d \in Centivolts, NEW e \in Centivolts,
         d = c - 1, e = c - 2, Rewritten(c) # c, Rewritten(d) # d
  PROVE  Rewritten(e) = e
  <1>1. SUFFICES ASSUME Rewritten(e) # e PROVE FALSE
    OBVIOUS
  <1>2. PICK ulp \in Ulps : CentivoltUlp(c) = ulp
    BY CentivoltBinade
  <1>3. c \in Nat /\ 400 * ulp <= c /\ c < 800 * ulp
    BY SMT, <1>2, CentivoltBinade DEF Centivolts
  <1>4. c # 400 * ulp /\ d # 400 * ulp /\ e # 400 * ulp
    BY SMT, <1>1, BinadeExact
  <1>5. 400 * ulp <= e
    BY SMT, <1>3, <1>4 DEF Ulps
  <1>6. CentivoltUlp(d) = ulp /\ CentivoltUlp(e) = ulp
    <2>1. 400 * ulp <= d /\ d < 800 * ulp /\ 400 * ulp <= e /\ e < 800 * ulp
      BY SMT, <1>3, <1>5 DEF Ulps
    <2> QED
      BY SMT, <1>3, <2>1, CentivoltBinade DEF Ulps
  <1>7. PICK k : k = UnitsPerVolt \div ulp
    OBVIOUS
  <1>8. PICK m0 \in Nat : c * k - 50 <= 100 * m0 /\ 100 * m0 <= c * k - 32
    BY SMT, <1>2, <1>7, OneLost
  <1>9. PICK m1 \in Nat : (c - 1) * k - 50 <= 100 * m1 /\ 100 * m1 <= (c - 1) * k - 32
    BY SMT, <1>6, <1>7, OneLost
  <1>10. PICK m2 \in Nat : (c - 2) * k - 50 <= 100 * m2 /\ 100 * m2 <= (c - 2) * k - 32
    BY SMT, <1>1, <1>6, <1>7, OneLost
  <1>11. CASE ulp = 1
    BY SMT, <1>3, <1>7, <1>8, <1>9, <1>11 DEF UnitsPerVolt
  <1>12. CASE ulp = 2
    BY SMT, <1>3, <1>7, <1>8, <1>9, <1>12 DEF UnitsPerVolt
  <1>13. CASE ulp = 4
    BY SMT, <1>3, <1>7, <1>8, <1>9, <1>10, <1>13 DEF UnitsPerVolt
  <1>14. CASE ulp = 8
    BY SMT, <1>3, <1>7, <1>8, <1>9, <1>14 DEF UnitsPerVolt
  <1>15. CASE ulp = 16
    BY SMT, <1>3, <1>7, <1>8, <1>9, <1>15 DEF UnitsPerVolt
  <1> QED
    BY <1>11, <1>12, <1>13, <1>14, <1>15 DEF Ulps

-----------------------------------------------------------------------------
\* A register has stayed, or it has lost one or two steps that the conversions
\* really take.
Lost(o, r) ==
  /\ o \in Centivolts /\ r \in Centivolts
  /\ \/ r = o
     \/ r = o - 1 /\ Rewritten(o) # o
     \/ /\ r = o - 2 /\ o - 1 \in Centivolts
        /\ Rewritten(o) # o /\ Rewritten(o - 1) # o - 1

LEMMA StillLost ==
  ASSUME NEW o, NEW r, Lost(o, r)
  PROVE  Lost(o, Rewritten(r))
  <1>1. o \in Centivolts /\ r \in Centivolts /\ o \in Nat /\ r \in Nat
    BY DEF Lost, Centivolts
  <1>2. Rewritten(r) \in {r - 1, r}
    BY <1>1, OneLost
  <1>3. CASE Rewritten(r) = r
    BY <1>3
  <1>4. CASE Rewritten(r) # r
    <2>1. Rewritten(r) = r - 1
      BY <1>2, <1>4
    <2>2. r - 1 \in Centivolts
      <3>1. r # 400
        BY SMT, <1>1, <1>4, BinadeExact DEF Ulps
      <3> QED
        BY SMT, <1>1, <3>1 DEF Centivolts
    <2>3. CASE r = o
      BY <1>1, <1>4, <2>1, <2>2, <2>3, SMT DEF Lost
    <2>4. CASE r = o - 1 /\ Rewritten(o) # o
      BY <1>1, <1>4, <2>1, <2>2, <2>4, SMT DEF Lost
    <2>5. ASSUME r = o - 2, o - 1 \in Centivolts,
                 Rewritten(o) # o, Rewritten(o - 1) # o - 1
          PROVE  FALSE
      <3>1. PICK d \in Centivolts : d = o - 1
        BY <2>5
      <3> QED
        BY <1>1, <1>4, <2>5, <3>1, TwoLostAtMost
    <2> QED
      BY <2>3, <2>4, <2>5 DEF Lost
  <1> QED
    BY <1>3, <1>4

\* What is written back twice has lost all it will.
LEMMA TwiceSettles ==
  ASSUME NEW c \in Centivolts
  PROVE  Rewritten(Rewritten(Rewritten(c))) = Rewritten(Rewritten(c))
  <1>1. PICK d : d = Rewritten(c)
    OBVIOUS
  <1>2. PICK e : e = Rewritten(d)
    OBVIOUS
  <1>3. Lost(c, c)
    BY DEF Lost
  <1>4. Lost(c, d)
    BY <1>1, <1>3, StillLost
  <1>5. Lost(c, e)
    BY <1>2, <1>4, StillLost
  <1>6. c \in Centivolts /\ d \in Centivolts /\ e \in Centivolts
    BY <1>4, <1>5 DEF Lost
  <1>7. d \in {c - 1, c} /\ e \in {d - 1, d}
    BY <1>1, <1>2, <1>6, OneLost
  <1>8. CASE e = d
    BY <1>1, <1>2, <1>8
  <1>9. CASE e # d /\ d = c
    BY <1>1, <1>2, <1>9
  <1>10. CASE e # d /\ d # c
    <2>1. d = c - 1 /\ e = c - 2
      BY SMT, <1>6, <1>7, <1>10 DEF Centivolts
    <2> QED
      BY <1>1, <1>2, <1>6, <1>10, <2>1, TwoLostAtMost
  <1> QED
    BY <1>8, <1>9, <1>10

\* The inductive invariant.
RewriteInv == Lost(original, register)

LEMMA InitRewrite == Init => RewriteInv
  BY SMT, RangeAssumption DEF Init, RewriteInv, Lost, Centivolts

LEMMA NextRewrite == RewriteInv /\ [Rewrite]_vars => RewriteInv'
  BY StillLost DEF RewriteInv, Rewrite, Rewritten, vars

\* Nothing raises a register above the highest the API may write.
LEMMA RewriteBelow == Spec => [](register <= Highest)
  <1>1. Init => register <= Highest
    BY RangeAssumption DEF Init
  <1>2. RewriteInv /\ register <= Highest /\ [Rewrite]_vars => (register <= Highest)'
    <2> SUFFICES ASSUME RewriteInv, register <= Highest, Rewrite
                 PROVE  register' <= Highest
      BY DEF vars
    <2>1. register \in Centivolts /\ register' \in {register - 1, register}
      BY OneLost DEF RewriteInv, Lost, Rewrite, Rewritten
    <2> QED
      BY SMT, <2>1, RangeAssumption DEF Centivolts
  <1> QED
    BY <1>1, <1>2, InitRewrite, NextRewrite, PTL DEF Spec

\* However often PATCHes of other voltages read a register and write it back,
\* it loses two centivolts at most, for every register from 4.01 V to 127.97 V
\* (getFloatValue, configurer.go:146; writeVoltageParametersBlock,
\* configurer.go:377).
THEOREM DriftHolds == Spec => []BoundedDrift
  <1>1. RewriteInv => BoundedDrift
    BY SMT DEF RewriteInv, Lost, BoundedDrift, Centivolts
  <1> QED
    BY <1>1, InitRewrite, NextRewrite, PTL DEF Spec

\* Different registers are shown as different voltages, in order, a higher
\* voltage is never written as a lower register, and voltages two centivolts
\* apart are written as different registers (configurer.go:146, 377).
THEOREM KeepsOrderHolds == Spec => []ConversionKeepsOrder
  <1>1. RewriteInv /\ register <= Highest => ConversionKeepsOrder
    <2> SUFFICES ASSUME RewriteInv, register <= Highest PROVE ConversionKeepsOrder
      OBVIOUS
    <2>1. register \in Centivolts /\ register + 1 \in Centivolts /\ register < register + 1
      BY SMT, RangeAssumption DEF RewriteInv, Lost, Centivolts
    <2>2. FromRegister(register) < FromRegister(register + 1)
      BY <2>1, ReadStrict
    <2>3. FromRegister(register) \in FloatVolts /\ FromRegister(register + 1) \in FloatVolts
      BY <2>1, ReadInBinade
    <2>4. FromRegister(register) <= FromRegister(register + 1)
      BY SMT, <2>2, <2>3 DEF FloatVolts
    <2>5. Rewritten(register) < Rewritten(register + 2)
      <3>1. register \in Nat /\ register + 2 \in Centivolts
        BY SMT, RangeAssumption DEF RewriteInv, Lost, Centivolts
      <3>2. PICK c \in Centivolts : c = register + 2
        BY <3>1
      <3>3. Rewritten(register) \in {register - 1, register}
        BY <2>1, OneLost
      <3>4. Rewritten(c) \in {c - 1, c}
        BY OneLost
      <3>5. Rewritten(register) \in Int /\ Rewritten(register) < Rewritten(c)
        BY SMT, <3>1, <3>2, <3>3, <3>4
      <3> QED
        BY <3>2, <3>5
    <2> QED
      BY <2>2, <2>3, <2>4, <2>5, WriteMonotone DEF ConversionKeepsOrder, Rewritten
  <1> QED
    BY <1>1, RewriteBelow, InitRewrite, NextRewrite, PTL DEF Spec

\* What ConversionAssumption of VoltageRules asks of Encode and Decode, for
\* the conversions of the code and every float32 from 4 V up to 128 V, whether
\* or not a register is read as that voltage.
THEOREM ConversionsQualify ==
  /\ \A u, w \in FloatVolts : u <= w => ToRegister(u) <= ToRegister(w)
  /\ \A c, d \in Centivolts : c <= d => FromRegister(c) <= FromRegister(d)
  /\ \A c \in Centivolts : FromRegister(c) \in FloatVolts
  <1>1. \A u, w \in FloatVolts : u <= w => ToRegister(u) <= ToRegister(w)
    BY WriteMonotone
  <1>2. ASSUME NEW c \in Centivolts, NEW d \in Centivolts, c <= d
        PROVE  FromRegister(c) <= FromRegister(d)
    <2>1. /\ FromRegister(c) \in Nat /\ FromRegister(d) \in Nat
          /\ c < d => FromRegister(c) < FromRegister(d)
      BY SMT, ReadInBinade, ReadStrict DEF FloatVolts
    <2> QED
      BY SMT, <1>2, <2>1 DEF Centivolts
  <1>3. \A c \in Centivolts : FromRegister(c) \in FloatVolts
    BY ReadInBinade
  <1> QED
    BY <1>1, <1>2, <1>3

\* What NothingInventedHolds of Configurer_proof asks of the conversions, whatever
\* voltages a register may be set to: a PATCH that finds a register outside of
\* them writes nothing back.
THEOREM RewritingSettlesHolds ==
  ASSUME NEW settable
  PROVE  LET Back(c) == IF FromRegister(c) \in settable THEN Rewritten(c) ELSE c
         IN  \A c \in Centivolts : Back(Back(Back(c))) = Back(Back(c))
  BY TwiceSettles
=============================================================================
