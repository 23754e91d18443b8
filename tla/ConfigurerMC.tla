---------------------------- MODULE ConfigurerMC ----------------------------
(***************************************************************************)
(* Values for the constants of Configurer: a 12 V system with the          *)
(* conversions of Float32Volts, and small sets of requests for each run.   *)
(***************************************************************************)
EXTENDS Configurer, TLC

F == INSTANCE Float32Volts

BlockValues ==
  [ overVoltDisconnect |-> 1600, chargingLimit |-> 1500, overVoltReconnect |-> 1500,
    equalization |-> 1460, boost |-> 1440, float |-> 1380, boostReconnect |-> 1320,
    lowVoltReconnect |-> 1260, underVoltReconnect |-> 1220, underVoltWarning |-> 1200,
    lowVoltDisconnect |-> 1110, dischargingLimit |-> 1060 ]

\* 14.405 V, which the registers cannot tell from 14.40 V
FinerThanRegister == F!FromRegister(1440) + 10486

\* 16.05 V is read as less than that, and written back as 16.04 V.
DriftingBlock == [BlockValues EXCEPT !["overVoltDisconnect"] = 1605]

MCRegisters == {BlockValues[p] : p \in VoltageParams}
               \cup {1370, 1375, 1390, 1445, 1550, 1604, 1605}

MCDecode == [c \in MCRegisters |-> F!FromRegister(c)]

MCVolts == {0, FinerThanRegister} \cup {MCDecode[c] : c \in MCRegisters}

MCMin == 5 * F!UnitsPerVolt
MCMax == 70 * F!UnitsPerVolt

MCEncode == [v \in {v \in MCVolts : MCMin <= v /\ v <= MCMax} |-> F!ToRegister(v)]

MCRegs == [ type |-> 0, capacity |-> 100, tempComp |-> 300, clock |-> 2024,
            eqCycle |-> 28, eqDuration |-> 120, boostDuration |-> 120,
            tempLimits |-> 1 ]

Symmetric == Permutations(Requests)

-----------------------------------------------------------------------------
None == [x \in {} |-> 0]

Patch(op, registers, volts) ==
  [op |-> op, json |-> TRUE, regs |-> registers, volts |-> volts]

Get(op) == Patch(op, None, None)

RaiseBoost == Patch("ChargingPatch", "eqCycle" :> 30, "boost" :> MCDecode[1445])
BoostOnly  == Patch("ChargingPatch", None, "boost" :> MCDecode[1445])
\* boost above equalization
OutOfOrder == Patch("ChargingPatch", "eqCycle" :> 30, "boost" :> MCDecode[1550])
ZeroBoost  == Patch("ChargingPatch", None, "boost" :> 0)
TooLong    == Patch("ChargingPatch", "boostDuration" :> 601, None)
Sealed     == Patch("ProfilePatch", "type" :> 1, None)
Bank       == Patch("ProfilePatch", "type" :> 0 @@ "capacity" :> 200 @@ "tempComp" :> 400, None)
NoSuchType == Patch("ProfilePatch", "type" :> 4, None)
UserConfig == Patch("ConfigPatch", "type" :> 0 @@ "eqDuration" :> 90,
                    "float" :> MCDecode[1370] @@ "boost" :> 0)
GelConfig  == Patch("ConfigPatch", "type" :> 2 @@ "boostDuration" :> 90, None)
AnyConfig  == Patch("ConfigPatch", "boostDuration" :> 90, None)
SetClock   == Patch("TimePatch", "clock" :> 2025, None)
BadClock   == Patch("TimePatch", None, None)
NotJSON    == [RaiseBoost EXCEPT !.json = FALSE]

BadConfig  == Patch("ConfigPatch", "type" :> 0, "boost" :> MCDecode[1550])
\* The temperature limits of a ChargingParameters body are ignored.
WithLimits == Patch("ChargingPatch", "eqCycle" :> 30 @@ "tempLimits" :> 2, None)

\* boost half a centivolt above float
CloseBoost == Patch("ChargingPatch", None,
                    "boost" :> FinerThanRegister @@ "float" :> MCDecode[1440])

\* One handler of each kind, and a failing one, for the liveness run.
LiveBodies == {RaiseBoost, UserConfig, SetClock, Get("CachedGet"), OutOfOrder}

\* Each is in order with the initial block, not with what the other leaves.
LowerBoth   == Patch("ChargingPatch", None, "boost" :> MCDecode[1375] @@ "float" :> MCDecode[1370])
RaiseFloat  == Patch("ChargingPatch", None, "float" :> MCDecode[1390])
Conflicting == {LowerBoth, RaiseFloat}

AllBodies == {RaiseBoost, OutOfOrder, ZeroBoost, TooLong, WithLimits, NotJSON,
              Sealed, Bank, NoSuchType, UserConfig, BadConfig, GelConfig, AnyConfig,
              SetClock, BadClock, Get("CachedGet"), Get("ConfigGet"), Get("TimeGet")}

RacingBodies == AllBodies \cup Conflicting \cup {CloseBoost}

PatchAndGet == {BoostOnly, Get("CachedGet")}
=============================================================================
