----------------------- MODULE StatusCollector_proof -----------------------
(***************************************************************************)
(* Theorems about StatusCollector, for every 32-bit value, temperature,    *)
(* state of charge and status word, and any number of changes of the       *)
(* device while it is read.                                                *)
(***************************************************************************)
EXTENDS StatusCollector, TLAPS

Explains(at) ==
  /\ \A i, j \in 1..4 : i <= j => at[i] <= at[j]
  /\ \A i \in 1..4 : i <= done =>
       \A r \in Requests[i] : raw[r] = Registers(moments[at[i]])[r]

\* What was read so far is explained by moments in order.
Explained == \E at \in [1..4 -> 1..Len(moments)] : Explains(at)

Measuring ==
  /\ device \in Devices /\ moments \in Seq(Devices)
  /\ Len(moments) > 0 /\ moments[Len(moments)] = device
  /\ raw \in [InputRegisters -> Word]
  /\ done \in 0..4
  /\ reading \in BOOLEAN
  /\ reading => done < 4

\* A status is what the registers read in a whole cycle parse to.
Returned == status # {} => status = {Parse(raw)} /\ done = 4 /\ ~reading

Inv == Measuring /\ Explained /\ Returned

-----------------------------------------------------------------------------
\* The words of a 32-bit number, and two's complement, put together again.
LEMMA Words ==
  ASSUME NEW n \in Nat, High(n) \in Word
  PROVE  Low(n) \in Word /\ ParseFloat32(Low(n), High(n)) = n
<1>1. n % 65536 \in Nat /\ n % 65536 < 65536
  BY SMT
<1>2. n = (n \div 65536) * 65536 + (n % 65536)
  BY SMT
<1> QED BY <1>1, <1>2, SMT DEF Word, Low, High, ParseFloat32

LEMMA Signs ==
  ASSUME NEW t \in Int, t + 32768 \in Word
  PROVE  Low(t) \in Word /\ ParseSignedTemperature(Low(t)) = t
<1>1. t % 65536 = IF t < 0 THEN t + 65536 ELSE t
  BY SMT DEF Word
<1> QED BY <1>1, SMT DEF Word, Low, ParseSignedTemperature

LEMMA Bits ==
  ASSUME NEW b \in OtherBits, NEW s \in 0..3
  PROVE  StatusWord(b, s) \in Word /\ ChargingStatus(StatusWord(b, s)) = s
<1>1. b \in Word /\ (b \div 4) % 4 = 0
  BY BitsAssumption, SMT
<1>2. (b + 4 * s) \div 4 = (b \div 4) + s
  BY <1>1, SMT DEF Word
<1>3. ((b \div 4) + s) % 4 = s
  BY <1>1, SMT DEF Word
<1>4. b + 4 * s < 65536
  BY <1>1, SMT DEF Word
<1> QED BY <1>1, <1>2, <1>3, <1>4, SMT DEF Word, StatusWord, ChargingStatus

LEMMA FieldTypes ==
  ASSUME NEW d \in Devices
  PROVE  /\ d.arrayPower \in Nat /\ High(d.arrayPower) \in Word
         /\ d.energyGeneratedDaily \in Nat /\ High(d.energyGeneratedDaily) \in Word
         /\ d.batteryTemp \in Int /\ d.batteryTemp + 32768 \in Word
         /\ d.batterySOC \in Word
         /\ d.otherBits \in OtherBits /\ d.chargingStatus \in 0..3
<1>1. /\ d.arrayPower \in Powers /\ d.energyGeneratedDaily \in Powers
      /\ d.batteryTemp \in Temperatures /\ d.batterySOC \in Levels
      /\ d.otherBits \in OtherBits /\ d.chargingStatus \in 0..3
  BY DEF Devices
<1>2. \A p \in Powers : p \in Nat /\ High(p) \in Word
  BY PowersAssumption
<1>3. \A t \in Temperatures : t \in Int /\ t + 32768 \in Word
  BY TemperaturesAssumption, SMT DEF SignedWord
<1>4. d.batterySOC \in Word
  BY <1>1, LevelsAssumption
<1> QED BY <1>1, <1>2, <1>3, <1>4, SMT

\* Laid out in registers and parsed, a quantity is what it was.
LEMMA RoundTrip ==
  ASSUME NEW d \in Devices
  PROVE  /\ Registers(d) \in [InputRegisters -> Word]
         /\ \A q \in Quantities : Parse(Registers(d))[q] = d[q]
<1>1. /\ Low(d.arrayPower) \in Word /\ High(d.arrayPower) \in Word
      /\ ParseFloat32(Low(d.arrayPower), High(d.arrayPower)) = d.arrayPower
  BY FieldTypes, Words, SMT
<1>2. /\ Low(d.energyGeneratedDaily) \in Word /\ High(d.energyGeneratedDaily) \in Word
      /\ ParseFloat32(Low(d.energyGeneratedDaily), High(d.energyGeneratedDaily))
           = d.energyGeneratedDaily
  BY FieldTypes, Words, SMT
<1>3. /\ Low(d.batteryTemp) \in Word
      /\ ParseSignedTemperature(Low(d.batteryTemp)) = d.batteryTemp
  BY FieldTypes, Signs, SMT
<1>4. d.batterySOC \in Word
  BY FieldTypes, SMT
<1>5. /\ StatusWord(d.otherBits, d.chargingStatus) \in Word
      /\ ChargingStatus(StatusWord(d.otherBits, d.chargingStatus)) = d.chargingStatus
  BY FieldTypes, Bits, SMT
<1>6. Registers(d) \in [InputRegisters -> Word]
  BY <1>1, <1>2, <1>3, <1>4, <1>5, SMT DEF Registers, InputRegisters
<1>7. \A q \in Quantities : Parse(Registers(d))[q] = d[q]
  BY <1>1, <1>2, <1>3, <1>5, SMT DEF Registers, Parse, Quantities
<1> QED BY <1>6, <1>7, SMT

LEMMA ParseType ==
  ASSUME NEW r \in [InputRegisters -> Word]
  PROVE  Parse(r) \in [ arrayPower : Nat, batteryTemp : SignedWord, batterySOC : Word,
                        energyGeneratedDaily : Nat, chargingStatus : 0..3 ]
<1>1. \A a, b \in Word : ParseFloat32(a, b) \in Nat
  BY SMT DEF Word, ParseFloat32
<1>2. \A a \in Word : ParseSignedTemperature(a) \in SignedWord
  BY SMT DEF Word, SignedWord, ParseSignedTemperature
<1>3. \A a \in Word : ChargingStatus(a) \in 0..3
  BY SMT DEF Word, ChargingStatus
<1> QED BY <1>1, <1>2, <1>3, SMT DEF Parse, InputRegisters

\* Every register is read by one request.
LEMMA RequestsApart ==
  /\ Len(Requests) = 4
  /\ \A i \in 1..4 : Requests[i] \subseteq InputRegisters
  /\ \A i, j \in 1..4 : i # j => \A r \in Requests[i] : r \notin Requests[j]
BY SMT DEF Requests, InputRegisters

\* A quantity depends on the registers of one request.
LEMMA ParseLocal ==
  ASSUME NEW a \in [InputRegisters -> Word], NEW b \in [InputRegisters -> Word],
         NEW q \in Quantities, \A r \in Requests[ReadBy(q)] : a[r] = b[r]
  PROVE  ReadBy(q) \in 1..4 /\ Parse(a)[q] = Parse(b)[q]
<1>1. CASE q \in {"arrayPower", "batteryTemp"}
  BY <1>1, SMT DEF ReadBy, Requests, Parse
<1>2. CASE q = "batterySOC"
  BY <1>2, SMT DEF ReadBy, Requests, Parse
<1>3. CASE q = "energyGeneratedDaily"
  BY <1>3, SMT DEF ReadBy, Requests, Parse
<1>4. CASE q = "chargingStatus"
  BY <1>4, SMT DEF ReadBy, Requests, Parse
<1> QED BY <1>1, <1>2, <1>3, <1>4 DEF Quantities

LEMMA BlankType == Blank \in [InputRegisters -> Word]
BY SMT DEF Blank, Word

\* A cycle that has read nothing is explained.
LEMMA FreshExplained ==
  ASSUME NEW d \in Devices, moments = <<d>>, done = 0
  PROVE  Explained
<1>1. [i \in 1..4 |-> 1] \in [1..4 -> 1..Len(moments)]
  BY SMT
<1>2. Explains([i \in 1..4 |-> 1])
  BY SMT DEF Explains
<1> QED BY <1>1, <1>2 DEF Explained

LEMMA InitInv == Init => Inv
<1> SUFFICES ASSUME Init PROVE Inv  OBVIOUS
<1>1. Measuring
  <2>1. moments = <<device>> /\ device \in Devices /\ done = 0 /\ reading = FALSE
    BY DEF Init
  <2>2. raw \in [InputRegisters -> Word]
    BY BlankType DEF Init
  <2>3. /\ moments \in Seq(Devices)
        /\ Len(moments) > 0 /\ moments[Len(moments)] = device
    BY <2>1
  <2>4. done \in 0..4
    BY <2>1
  <2>5. reading \in BOOLEAN /\ ~reading
    BY <2>1, Zenon
  <2> QED BY <2>1, <2>2, <2>3, <2>4, <2>5, Zenon DEF Measuring
<1>2. Explained
  BY FreshExplained DEF Init
<1>3. Returned
  BY DEF Init, Returned
<1> QED BY <1>1, <1>2, <1>3 DEF Inv

LEMMA BeginInv ==
  ASSUME Inv, Begin
  PROVE  Inv'
<1>1. Measuring'
  BY BlankType DEF Begin, Measuring
<1>2. Explained'
  <2>1. [i \in 1..4 |-> 1] \in [1..4 -> 1..Len(moments')]
    BY SMT DEF Begin
  <2>2. Explains([i \in 1..4 |-> 1])'
    BY SMT DEF Explains, Begin
  <2> QED BY <2>1, <2>2 DEF Explained
<1>3. Returned'
  BY DEF Begin, Returned
<1> QED BY <1>1, <1>2, <1>3 DEF Inv

LEMMA ReadInv ==
  ASSUME Inv, Read
  PROVE  Inv'
<1> USE DEF Inv
<1>1. /\ done \in 0..3 /\ done' = done + 1 /\ raw' = Answered
      /\ UNCHANGED <<device, moments>>
  BY DEF Measuring, Read
<1>2. Registers(device) \in [InputRegisters -> Word]
  BY RoundTrip DEF Measuring
<1>3. raw' \in [InputRegisters -> Word]
  BY <1>1, <1>2 DEF Answered, Measuring
<1>4. Measuring'
  <2>0. done' \in 0..4 /\ Len(Requests) = 4
    BY <1>1, RequestsApart
  <2>1. reading' \in BOOLEAN /\ (reading' => done' < 4)
    <3>1. CASE done' = 4
      BY <2>0, <3>1 DEF Read
    <3>2. CASE done' # 4
      BY <2>0, <3>2 DEF Measuring, Read
    <3> QED BY <3>1, <3>2
  <2> QED BY <1>1, <1>3, <2>0, <2>1 DEF Measuring
<1>5. Explained'
  <2>1. PICK at \in [1..4 -> 1..Len(moments)] : Explains(at)
    BY DEF Explained
  <2>2. Len(moments) \in Nat \ {0} /\ moments[Len(moments)] = device
    BY DEF Measuring
  <2>3. PICK next \in [1..4 -> 1..Len(moments)] :
          \A i \in 1..4 : next[i] = IF i > done THEN Len(moments) ELSE at[i]
    <3>1. [i \in 1..4 |-> IF i > done THEN Len(moments) ELSE at[i]]
            \in [1..4 -> 1..Len(moments)]
      BY <1>1, <2>2
    <3> QED BY <3>1
  <2>4. \A i, j \in 1..4 : i <= j => next[i] <= next[j]
    BY <1>1, <2>1, <2>2, <2>3 DEF Explains
  <2>5. ASSUME NEW i \in 1..4, i <= done', NEW r \in Requests[i]
        PROVE  raw'[r] = Registers(moments'[next[i]])[r]
    <3>1. CASE i = done + 1
      BY <1>1, <2>2, <2>3, <2>5, <3>1, RequestsApart DEF Answered
    <3>2. CASE i <= done
      <4>1. r \in InputRegisters /\ r \notin Requests[done + 1]
        BY <1>1, <2>5, <3>2, RequestsApart
      <4>2. raw'[r] = raw[r] /\ next[i] = at[i]
        BY <1>1, <2>3, <3>2, <4>1 DEF Answered
      <4> QED BY <1>1, <2>1, <2>5, <3>2, <4>2 DEF Explains
    <3> QED BY <1>1, <2>5, <3>1, <3>2
  <2>6. Explains(next)'
    BY <2>4, <2>5 DEF Explains
  <2> QED BY <1>1, <2>6 DEF Explained
<1>6. Returned'
  BY <1>1, RequestsApart DEF Returned, Read
<1> QED BY <1>4, <1>5, <1>6

LEMMA FailInv ==
  ASSUME Inv, Fail
  PROVE  Inv'
BY DEF Inv, Fail, Measuring, Explained, Explains, Returned

LEMMA ChangeInv ==
  ASSUME Inv, Change
  PROVE  Inv'
<1> USE DEF Inv
<1>1. Len(moments') = Len(moments) + 1 /\ \A i \in 1..Len(moments) : moments'[i] = moments[i]
  BY DEF Change, Measuring
<1>2. Measuring'
  BY <1>1 DEF Change, Measuring
<1>3. Explained'
  <2>1. PICK at \in [1..4 -> 1..Len(moments)] : Explains(at)
    BY DEF Explained
  <2>2. at \in [1..4 -> 1..Len(moments')]
    BY <1>1 DEF Measuring
  <2>3. Explains(at)'
    BY <1>1, <2>1 DEF Explains, Change, Measuring
  <2> QED BY <2>2, <2>3 DEF Explained
<1>4. Returned'
  BY DEF Change, Returned
<1> QED BY <1>2, <1>3, <1>4

LEMMA StepInv == Inv /\ [Next]_vars => Inv'
<1>1. Inv /\ UNCHANGED vars => Inv'
  BY DEF Inv, vars, Measuring, Explained, Explains, Returned
<1> QED BY <1>1, BeginInv, ReadInv, FailInv, ChangeInv DEF Next

LEMMA InvMeasured == Inv => StatusWasMeasured
<1> SUFFICES ASSUME Inv, NEW s \in status
    PROVE  \E at \in [1..4 -> 1..Len(moments)] :
             /\ \A i, j \in 1..4 : i <= j => at[i] <= at[j]
             /\ \A q \in Quantities : s[q] = moments[at[ReadBy(q)]][q]
  BY DEF StatusWasMeasured
<1>1. s = Parse(raw) /\ done = 4
  BY DEF Inv, Returned
<1>2. PICK at \in [1..4 -> 1..Len(moments)] : Explains(at)
  BY DEF Inv, Explained
<1>3. ASSUME NEW q \in Quantities
      PROVE  s[q] = moments[at[ReadBy(q)]][q]
  <2>1. ReadBy(q) \in 1..4
    BY DEF ReadBy, Quantities
  <2> DEFINE d == moments[at[ReadBy(q)]]
  <2>2. d \in Devices
    BY <1>2, <2>1 DEF Inv, Measuring
  <2>3. \A r \in Requests[ReadBy(q)] : raw[r] = Registers(d)[r]
    BY <1>1, <1>2, <2>1 DEF Explains
  <2>4. Registers(d) \in [InputRegisters -> Word] /\ Parse(Registers(d))[q] = d[q]
    BY <2>2, RoundTrip
  <2>5. Parse(raw)[q] = Parse(Registers(d))[q]
    BY <2>3, <2>4, ParseLocal DEF Inv, Measuring
  <2> QED BY <1>1, <2>4, <2>5
<1>4. \A i, j \in 1..4 : i <= j => at[i] <= at[j]
  BY <1>2 DEF Explains
<1> QED BY <1>3, <1>4

LEMMA InvTypes == Inv => TypeOK
BY ParseType, RequestsApart DEF Inv, Measuring, Returned, TypeOK

\* What GetStatus returns was measured during the cycle, whole and in the
\* order of the requests, for every value the registers can hold
\* (collector.go: GetStatus, parser.go).
THEOREM StatusTrue == Spec => []StatusWasMeasured
BY InitInv, StepInv, InvMeasured, PTL DEF Spec

\* Every register, and what is parsed from it, keeps its type.
THEOREM TypesHold == Spec => []TypeOK
BY InitInv, StepInv, InvTypes, PTL DEF Spec

=============================================================================
