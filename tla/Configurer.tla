----------------------------- MODULE Configurer -----------------------------
(***************************************************************************)
(* The configuration API of the Epever controller: the HTTP handlers of    *)
(* configurer*.go, the holding registers of the device they read and       *)
(* write, and the configuration cache they share.                          *)
(*                                                                         *)
(* Every request is served by a goroutine of its own.  The only lock a     *)
(* handler holds is the Modbus client's, for the length of one register    *)
(* operation, and the cache's, for the length of one pointer access; a     *)
(* step of this module is one such operation, and handlers interleave      *)
(* between steps.  A register operation can fail, and a failed write may   *)
(* nevertheless have reached the device, its acknowledgement lost.         *)
(*                                                                         *)
(* HTTP status codes are folded into three outcomes: "ok" (200),           *)
(* "rejected" (400 from a check made before any write) and "failed"        *)
(* (400 or 500 from a register operation).                                 *)
(***************************************************************************)
EXTENDS VoltageRules, FiniteSets

CONSTANTS
  Requests,      \* identities of the HTTP requests
  Bodies,        \* the requests clients may make
  MaxInFlight,   \* bound: requests served at the same time
  MaxFaults,     \* bound: register operations that fail
  InitialRegs,   \* the device's registers outside the voltage block
  InitialBlock   \* the device's voltage block

Ops == {"CachedGet", "ConfigGet", "TimeGet",
        "ChargingPatch", "ProfilePatch", "ConfigPatch", "TimePatch"}

\* Holding registers outside the voltage block, and the values a PATCH may set.
SingleRegs == {"type", "capacity", "tempComp", "clock", "eqCycle",
               "eqDuration", "boostDuration", "tempLimits"}

Durations == {"eqCycle", "eqDuration", "boostDuration"}

UserDefined == 0    \* batteryTypeUserDefined

InRange(reg, value) ==
  CASE reg = "type"     -> value \in 0..3
    [] reg = "capacity" -> value \in 1..10000
    [] reg = "tempComp" -> value \in 0..1000
    [] reg = "clock"    -> value \in 2000..2255   \* the year of the new time
    [] reg = "eqCycle"  -> value \in 0..365
    [] OTHER            -> value \in 0..600

\* The order in which getConfig reads the device, one register operation each.
ReadOrder == << {"type", "capacity", "tempComp"}, {"clock"}, VoltageParams,
                {"eqCycle"}, {"eqDuration", "boostDuration"}, {"tempLimits"} >>

\* What a handler still has to do once every check has passed.
Jobs == (SingleRegs \ {"tempLimits"}) \cup {"dropType", "volts", "drop"}

Rank == [ type |-> 1, dropType |-> 2, capacity |-> 3, tempComp |-> 4,
          clock |-> 5, volts |-> 6, eqCycle |-> 7, eqDuration |-> 8,
          boostDuration |-> 9, drop |-> 10 ]

IsPartial(f, D, R) ==
  DOMAIN f \subseteq D /\ \A x \in DOMAIN f : f[x] \in R

Config == [regs : [SingleRegs -> Nat], volts : [VoltageParams -> Volts]]

\* A request: its handler, whether its body is well-formed JSON of the right
\* types, and the fields the body has.
IsBody(b) ==
  /\ b.op \in Ops /\ b.json \in BOOLEAN
  /\ IsPartial(b.regs, SingleRegs, Nat)
  /\ IsPartial(b.volts, Patchable, Volts)

ASSUME BodiesAssumption == \A b \in Bodies : IsBody(b)

ASSUME BoundsAssumption == MaxInFlight \in Nat /\ MaxFaults \in Nat

\* The device starts with a voltage block its maker's rules allow.
ASSUME DeviceAssumption ==
  /\ InitialRegs \in [SingleRegs -> Nat]
  /\ InitialBlock \in [VoltageParams -> Registers]
  /\ WeaklyOrdered(InitialBlock)

Blank == [regs |-> [s \in SingleRegs |-> 0],
          volts |-> [p \in VoltageParams |-> 0]]

NoBody == [op |-> "CachedGet", json |-> TRUE,
           regs |-> [s \in {} |-> 0], volts |-> [p \in {} |-> 0]]

-----------------------------------------------------------------------------
VARIABLES
  regs,       \* device: the registers outside the voltage block
  block,      \* device: the voltage block, in centivolts
  cacheHit,   \* the cache is set and younger than its TTL
  cache,      \* the configuration it holds
  faults,     \* register operations that have failed
  pc,         \* where each handler is
  after,      \* where it resumes once it has a configuration
  body,       \* its request
  config,     \* the configuration it is reading or has read
  reads,      \* register blocks of it read so far
  proposal,   \* the voltage block it has validated
  todo,       \* the writes and invalidations it has still to make
  wrote,      \* the writes of it that reached the device
  answer      \* its outcome and the configuration it returned

device == <<regs, block>>
cacheVars == <<cacheHit, cache>>
plans == <<proposal, todo, wrote>>
vars == <<regs, block, cacheHit, cache, faults, pc, after, body, config,
          reads, proposal, todo, wrote, answer>>

Places == {"idle", "readType", "lookup", "fill", "store", "validate", "work",
           "block", "clock", "reply", "done"}

TypeOK ==
  /\ regs \in [SingleRegs -> Nat]
  /\ block \in [VoltageParams -> Registers]
  /\ cacheHit \in BOOLEAN
  /\ cache \in Config
  /\ faults \in 0..MaxFaults
  /\ pc \in [Requests -> Places]
  /\ after \in [Requests -> {"validate", "block", "reply"}]
  /\ body \in [Requests -> Bodies \cup {NoBody}]
  /\ config \in [Requests -> Config]
  /\ reads \in [Requests -> 0..5]
  /\ proposal \in [Requests -> [VoltageParams -> Volts]]
  /\ todo \in [Requests -> SUBSET Jobs]
  /\ wrote \in [Requests -> SUBSET Jobs]
  /\ answer \in [Requests -> [status : {"none", "ok", "rejected", "failed"},
                              config : Config]]

Init ==
  /\ regs = InitialRegs
  /\ block = InitialBlock
  /\ cacheHit = FALSE
  /\ cache = Blank
  /\ faults = 0
  /\ pc = [r \in Requests |-> "idle"]
  /\ after = [r \in Requests |-> "reply"]
  /\ body = [r \in Requests |-> NoBody]
  /\ config = [r \in Requests |-> Blank]
  /\ reads = [r \in Requests |-> 0]
  /\ proposal = [r \in Requests |-> Blank.volts]
  /\ todo = [r \in Requests |-> {}]
  /\ wrote = [r \in Requests |-> {}]
  /\ answer = [r \in Requests |-> [status |-> "none", config |-> Blank]]

-----------------------------------------------------------------------------
\* The fields of a request its handler looks at.
FieldsOf(op) ==
  CASE op = "ChargingPatch" -> Durations
    [] op = "ConfigPatch"   -> Durations \cup {"type"}
    [] op = "ProfilePatch"  -> {"type", "capacity", "tempComp"}
    [] op = "TimePatch"     -> {"clock"}
    [] OTHER                -> {}

\* Mutant: the temperature limits of a ChargingParameters body are written, too.
Asked_AllFields(b) == DOMAIN b.regs

Asked(b) == DOMAIN b.regs \cap FieldsOf(b.op)

\* A body that does not bind, or has a field out of range.  The time of a
\* TimePatch without one is the zero time, whose year is out of range.
Malformed(b) ==
  \/ ~b.json
  \/ \E s \in Asked(b) : ~InRange(s, b.regs[s])
  \/ b.op = "TimePatch" /\ "clock" \notin Asked(b)

\* The voltages a request changes: ConfigPatch takes a value that is not
\* positive for an absent field, ChargingParametersPatch does not.
Overrides(b) ==
  IF b.op = "ConfigPatch" THEN {p \in DOMAIN b.volts : b.volts[p] > 0}
                          ELSE DOMAIN b.volts

\* The configuration a PATCH validates: the base it read, with its changes.
Proposal(b, base) ==
  [p \in VoltageParams |-> IF p \in Overrides(b) THEN b.volts[p] ELSE base[p]]

WithDrop(writes) == IF writes = {} THEN {} ELSE writes \cup {"drop"}

VoltsJob(b) == IF Overrides(b) = {} THEN {} ELSE {"volts"}

\* Mutant: the cache is not invalidated.
ChargingJobs_NoDrop(b) == Asked(b) \cup VoltsJob(b)

ChargingJobs(b) == WithDrop(Asked(b) \cup VoltsJob(b))

\* Mutant: the final invalidation is missing.
ConfigJobs_NoDrop(b, userDefined) ==
  (IF "type" \in Asked(b) THEN {"type", "dropType"} ELSE {})
  \cup (IF userDefined
        THEN {s \in Asked(b) \cap Durations : b.regs[s] > 0} \cup VoltsJob(b)
        ELSE {})

\* Mutant: charging durations are written whatever the battery type.
ConfigJobs_AnyType(b, userDefined) == Asked(b) \cup {"drop"}

ConfigJobs(b, userDefined) ==
  (IF "type" \in Asked(b) THEN {"type", "dropType"} ELSE {})
  \cup (IF userDefined
        THEN {s \in Asked(b) \cap Durations : b.regs[s] > 0}
             \cup VoltsJob(b) \cup {"drop"}
        ELSE {})

\* What writeVoltageParametersBlock sends: the validated proposal, a zero
\* field of it filled in from the cached configuration.
MergedBlock(proposed, base) ==
  [p \in VoltageParams |-> IF proposed[p] = 0 THEN base[p] ELSE proposed[p]]

DeviceConfig == [regs |-> regs, volts |-> DecodeBlock(block)]

-----------------------------------------------------------------------------
Goto(r, place) == pc' = [pc EXCEPT ![r] = place]

\* The handler answers and its locals are gone.
Answer(r, status, reply) ==
  /\ Goto(r, "done")
  /\ answer' = [answer EXCEPT ![r] = [status |-> status, config |-> reply]]
  /\ config' = [config EXCEPT ![r] = Blank]
  /\ proposal' = [proposal EXCEPT ![r] = Blank.volts]
  /\ todo' = [todo EXCEPT ![r] = {}]
  /\ after' = [after EXCEPT ![r] = "reply"]
  /\ reads' = [reads EXCEPT ![r] = 0]
  /\ UNCHANGED body

Fault == faults < MaxFaults /\ faults' = faults + 1

\* Enter getCachedConfig, to resume at place with a configuration.
CallCached(r, place) ==
  /\ Goto(r, "lookup")
  /\ after' = [after EXCEPT ![r] = place]

InFlight == {r \in Requests : pc[r] \notin {"idle", "done"}}

Receive(r, b, op) ==
  /\ pc[r] = "idle"
  /\ Cardinality(InFlight) < MaxInFlight
  /\ b.op = op

Accept(r, b) ==
  /\ body' = [body EXCEPT ![r] = b]
  /\ UNCHANGED <<device, cacheVars, faults, config, reads, wrote, answer>>

Reject(r, b) ==
  /\ body' = [body EXCEPT ![r] = b]
  /\ Goto(r, "done")
  /\ answer' = [answer EXCEPT ![r] = [status |-> "rejected", config |-> Blank]]
  /\ UNCHANGED <<device, cacheVars, faults, after, config, reads, plans>>

\* BatteryProfileGet and ChargingParametersGet
CachedGet(r, b) ==
  /\ Receive(r, b, "CachedGet")
  /\ CallCached(r, "reply")
  /\ Accept(r, b) /\ UNCHANGED <<proposal, todo>>

\* ConfigGet bypasses the cache.
ConfigGet(r, b) ==
  /\ Receive(r, b, "ConfigGet")
  /\ Goto(r, "fill")
  /\ Accept(r, b) /\ UNCHANGED <<after, proposal, todo>>

TimeGet(r, b) ==
  /\ Receive(r, b, "TimeGet")
  /\ Goto(r, "clock")
  /\ Accept(r, b) /\ UNCHANGED <<after, proposal, todo>>

\* ChargingParametersPatch asks the device for its battery type before it
\* even parses the request.
ChargingPatch(r, b) ==
  /\ Receive(r, b, "ChargingPatch")
  /\ Goto(r, "readType")
  /\ Accept(r, b) /\ UNCHANGED <<after, proposal, todo>>

ProfilePatch(r, b) ==
  /\ Receive(r, b, "ProfilePatch")
  /\ \/ Malformed(b) /\ Reject(r, b)
     \/ /\ ~Malformed(b)
        /\ Goto(r, "work")
        /\ todo' = [todo EXCEPT ![r] = WithDrop(Asked(b))]
        /\ Accept(r, b) /\ UNCHANGED <<after, proposal>>

TimePatch(r, b) ==
  /\ Receive(r, b, "TimePatch")
  /\ \/ Malformed(b) /\ Reject(r, b)
     \/ /\ ~Malformed(b)
        /\ Goto(r, "work")
        /\ todo' = [todo EXCEPT ![r] = WithDrop({"clock"})]
        /\ Accept(r, b) /\ UNCHANGED <<after, proposal>>

\* Mutant: the battery type is written before the voltages are validated.
ConfigPatch_TypeFirst(r, b) ==
  /\ Receive(r, b, "ConfigPatch")
  /\ ~Malformed(b) /\ "type" \in Asked(b)
  /\ CallCached(r, "validate")
  /\ body' = [body EXCEPT ![r] = b]
  /\ regs' = [regs EXCEPT !["type"] = b.regs["type"]]
  /\ wrote' = [wrote EXCEPT ![r] = {"type"}]
  /\ UNCHANGED <<block, cacheVars, faults, config, reads, proposal, todo, answer>>

\* ConfigPatch takes the battery type it is about to set for the device's, and
\* reads the device's only when it sets none.
ConfigPatch(r, b) ==
  /\ Receive(r, b, "ConfigPatch")
  /\ \/ Malformed(b) /\ Reject(r, b)
     \/ /\ ~Malformed(b) /\ "type" \notin Asked(b)
        /\ Goto(r, "readType")
        /\ Accept(r, b) /\ UNCHANGED <<after, proposal, todo>>
     \/ /\ ~Malformed(b) /\ "type" \in Asked(b)
        /\ b.regs["type"] = UserDefined
        /\ CallCached(r, "validate")
        /\ Accept(r, b) /\ UNCHANGED <<proposal, todo>>
     \/ /\ ~Malformed(b) /\ "type" \in Asked(b)
        /\ b.regs["type"] # UserDefined
        /\ Goto(r, "work")
        /\ todo' = [todo EXCEPT ![r] = ConfigJobs(b, FALSE)]
        /\ Accept(r, b) /\ UNCHANGED <<after, proposal>>

-----------------------------------------------------------------------------
\* getCachedConfig, first part: a hit returns a copy of the cache.
Lookup(r) ==
  /\ pc[r] = "lookup"
  /\ \/ /\ cacheHit
        /\ config' = [config EXCEPT ![r] = cache]
        /\ Goto(r, after[r])
     \/ /\ ~cacheHit
        /\ Goto(r, "fill")
        /\ UNCHANGED config
  /\ UNCHANGED <<device, cacheVars, faults, after, body, reads, plans, answer>>

\* Mutant: the boost voltage is read in an operation of its own.
ReadInto_Torn(c, registers) ==
  LET now == DecodeBlock(block)
  IN  [regs |-> [s \in SingleRegs |->
                   IF s \in registers THEN regs[s] ELSE c.regs[s]],
       volts |-> CASE registers = VoltageParams ->
                        [now EXCEPT !["boost"] = c.volts["boost"]]
                   [] registers = {"eqCycle"} ->
                        [c.volts EXCEPT !["boost"] = now["boost"]]
                   [] OTHER -> c.volts]

\* The configuration with the next register block of the device in it.
ReadInto(c, registers) ==
  [regs |-> [s \in SingleRegs |->
               IF s \in registers THEN regs[s] ELSE c.regs[s]],
   volts |-> IF registers = VoltageParams THEN DecodeBlock(block) ELSE c.volts]

\* getConfig: one register operation per block; other requests run in between.
Fill(r) ==
  /\ pc[r] = "fill"
  /\ \/ /\ config' = [config EXCEPT ![r] =
                        ReadInto(config[r], ReadOrder[reads[r] + 1])]
        /\ \/ /\ reads[r] < 5
              /\ reads' = [reads EXCEPT ![r] = reads[r] + 1]
              /\ UNCHANGED pc
           \/ /\ reads[r] = 5
              /\ reads' = [reads EXCEPT ![r] = 0]
              /\ Goto(r, IF body[r].op = "ConfigGet" THEN "reply" ELSE "store")
        /\ UNCHANGED <<faults, after, body, proposal, todo, answer>>
     \/ Fault /\ Answer(r, "failed", Blank)
  /\ UNCHANGED <<device, cacheVars, wrote>>

\* Mutant: having stored its result, getCachedConfig starts over.
Store_Recurse(r) ==
  /\ pc[r] = "store"
  /\ cacheHit' = TRUE
  /\ cache' = config[r]
  /\ Goto(r, "lookup")
  /\ UNCHANGED <<device, faults, after, body, config, reads, plans, answer>>

\* getCachedConfig, last part: whatever happened since the fill began, its
\* result becomes the cache.
Store(r) ==
  /\ pc[r] = "store"
  /\ cacheHit' = TRUE
  /\ cache' = config[r]
  /\ Goto(r, after[r])
  /\ UNCHANGED <<device, faults, after, body, config, reads, plans, answer>>

ReadType(r) ==
  /\ pc[r] = "readType"
  /\ \/ Fault /\ Answer(r, "failed", Blank)
     \/ /\ body[r].op = "ChargingPatch"
        /\ regs["type"] # UserDefined \/ ~body[r].json
        /\ Answer(r, "rejected", Blank) /\ UNCHANGED faults
     \/ /\ body[r].op = "ChargingPatch" => body[r].json
        /\ regs["type"] = UserDefined
        /\ CallCached(r, "validate")
        /\ UNCHANGED <<faults, body, config, reads, proposal, todo, answer>>
     \/ /\ body[r].op = "ConfigPatch"
        /\ regs["type"] # UserDefined
        /\ Goto(r, "work")    \* with nothing to write
        /\ UNCHANGED <<faults, after, body, config, reads, proposal, todo, answer>>
  /\ UNCHANGED <<device, cacheVars, wrote>>

\* The last check; behind it the handler only writes.
Validate(r) ==
  LET b == body[r]
      proposed == Proposal(b, config[r].volts)
      accepted == ~Malformed(b) /\ ValidVoltages(proposed)
  IN  /\ pc[r] = "validate"
      /\ \/ /\ accepted
            /\ Goto(r, "work")
            /\ proposal' = [proposal EXCEPT ![r] = proposed]
            /\ todo' = [todo EXCEPT ![r] = IF b.op = "ChargingPatch"
                                           THEN ChargingJobs(b)
                                           ELSE ConfigJobs(b, TRUE)]
            /\ config' = [config EXCEPT ![r] = Blank]
            /\ UNCHANGED <<after, body, reads, answer>>
         \/ ~accepted /\ Answer(r, "rejected", Blank)
      /\ UNCHANGED <<device, cacheVars, faults, wrote>>

IsNext(r, job) ==
  /\ pc[r] = "work"
  /\ job \in todo[r]
  /\ \A other \in todo[r] : Rank[job] <= Rank[other]

Done(r, job) == todo' = [todo EXCEPT ![r] = todo[r] \ {job}]

Written(r, job) == wrote' = [wrote EXCEPT ![r] = wrote[r] \cup {job}]

\* Mutant: a failed write is logged and passed over.
WriteSingle_IgnoresError(r, reg) ==
  /\ IsNext(r, reg)
  /\ Done(r, reg)
  /\ \/ /\ regs' = [regs EXCEPT ![reg] = body[r].regs[reg]]
        /\ Written(r, reg) /\ UNCHANGED faults
     \/ Fault /\ UNCHANGED <<regs, wrote>>
  /\ UNCHANGED <<block, cacheVars, pc, after, body, config, reads, proposal, answer>>

\* writeSingle, and TimePatch's write of the clock
WriteSingle(r, reg) ==
  LET write == regs' = [regs EXCEPT ![reg] = body[r].regs[reg]]
               /\ Written(r, reg)
  IN  /\ IsNext(r, reg)
      /\ \/ /\ write
            /\ Done(r, reg)
            /\ UNCHANGED <<faults, pc, after, body, config, reads, proposal, answer>>
         \/ /\ Fault /\ Answer(r, "failed", Blank)
            /\ write \/ UNCHANGED <<regs, wrote>>
      /\ UNCHANGED <<block, cacheVars>>

\* writeVoltageParametersBlock reads a configuration before it writes.
StartBlock(r) ==
  /\ IsNext(r, "volts")
  /\ CallCached(r, "block")
  /\ UNCHANGED <<device, cacheVars, faults, body, config, reads, plans, answer>>

\* Mutant: only the registers the request names are sent.
Sent_FieldByField(r, merged) ==
  [p \in VoltageParams |-> IF p \in Overrides(body[r]) THEN Encode[merged[p]]
                                                      ELSE block[p]]

\* What goes to the device: all twelve registers, in one operation.
Sent(r, merged) == EncodeBlock(merged)

WriteBlock(r) ==
  LET merged == MergedBlock(proposal[r], config[r].volts)
      inBounds == \A p \in VoltageParams : InBounds(merged[p])
      write == block' = Sent(r, merged) /\ Written(r, "volts")
  IN  /\ pc[r] = "block"
      /\ \/ /\ inBounds /\ write
            /\ Done(r, "volts") /\ Goto(r, "work")
            /\ config' = [config EXCEPT ![r] = Blank]
            /\ UNCHANGED <<faults, after, body, reads, proposal, answer>>
         \/ /\ inBounds /\ Fault /\ Answer(r, "failed", Blank)
            /\ write \/ UNCHANGED <<block, wrote>>
         \/ /\ ~inBounds /\ Answer(r, "failed", Blank)
            /\ UNCHANGED <<block, wrote, faults>>
      /\ UNCHANGED <<regs, cacheVars>>

\* invalidateCache
Invalidate(r, job) ==
  /\ job \in {"drop", "dropType"}
  /\ IsNext(r, job)
  /\ Done(r, job)
  /\ cacheHit' = FALSE
  /\ cache' = Blank
  /\ UNCHANGED <<device, faults, pc, after, body, config, reads, proposal,
                 wrote, answer>>

\* All writes made: read the configuration back for the answer.
ReadBack(r) ==
  /\ pc[r] = "work" /\ todo[r] = {}
  /\ IF body[r].op = "TimePatch"
     THEN Goto(r, "clock") /\ UNCHANGED after
     ELSE CallCached(r, "reply")
  /\ UNCHANGED <<device, cacheVars, faults, body, config, reads, plans, answer>>

ReadClock(r) ==
  /\ pc[r] = "clock"
  /\ \/ /\ Answer(r, "ok", [Blank EXCEPT !.regs["clock"] = regs["clock"]])
        /\ UNCHANGED faults
     \/ Fault /\ Answer(r, "failed", Blank)
  /\ UNCHANGED <<device, cacheVars, wrote>>

Reply(r) ==
  /\ pc[r] = "reply"
  /\ Answer(r, "ok", config[r])
  /\ UNCHANGED <<device, cacheVars, faults, wrote>>

\* The TTL of the cache passes.
Expire ==
  /\ cacheHit
  /\ cacheHit' = FALSE
  /\ cache' = Blank
  /\ UNCHANGED <<device, faults, pc, after, body, config, reads, plans, answer>>

AllAnswered == (\A r \in Requests : pc[r] = "done") /\ UNCHANGED vars

Arrive(r, b) ==
  \/ CachedGet(r, b) \/ ConfigGet(r, b) \/ TimeGet(r, b)
  \/ ChargingPatch(r, b) \/ ProfilePatch(r, b)
  \/ ConfigPatch(r, b) \/ TimePatch(r, b)

Step(r) ==
  \/ Lookup(r) \/ Fill(r) \/ Store(r) \/ ReadType(r) \/ Validate(r)
  \/ \E reg \in SingleRegs : WriteSingle(r, reg)
  \/ StartBlock(r) \/ WriteBlock(r)
  \/ \E job \in {"drop", "dropType"} : Invalidate(r, job)
  \/ ReadBack(r) \/ ReadClock(r) \/ Reply(r)

Next ==
  \/ \E r \in Requests : Step(r) \/ \E b \in Bodies : Arrive(r, b)
  \/ Expire
  \/ AllAnswered

Spec == Init /\ [][Next]_vars

\* A goroutine is scheduled again and again and every register operation
\* returns, with an answer or a timeout.  No client is obliged to send anything.
Fairness == \A r \in Requests : WF_vars(Step(r))

FairSpec == Spec /\ Fairness

-----------------------------------------------------------------------------
(* Properties that hold of every interleaving, with faults.                *)

\* However PATCHes interleave, fail half-way or start from a stale base, the
\* thresholds on the device never get out of order: the block is written in
\* one operation, and only after its whole proposal was validated.
DeviceOrdered == WeaklyOrdered(block)

\* Neither the cache nor an answer ever shows thresholds out of order, so no
\* PATCH is judged against a base the device cannot have had: getConfig reads
\* the whole block in one operation.
ConfigsOrdered ==
  /\ WeaklyOrdered(cache.volts)
  /\ \A r \in Requests : WeaklyOrdered(answer[r].config.volts)

\* "Validate before any write so an invalid request changes nothing"
\* (configurer.go:411).
RejectedWroteNothing ==
  \A r \in Requests : answer[r].status = "rejected" => wrote[r] = {}

\* The writes a 200 promises.  A ConfigPatch that finds another battery type
\* than userDefined skips the charging parameters it was sent.
Promised(b) ==
  CASE b.op = "ChargingPatch" -> {Asked(b) \cup VoltsJob(b)}
    [] b.op = "ConfigPatch"   -> {ConfigJobs(b, u) \ {"drop", "dropType"} :
                                     u \in BOOLEAN}
    [] OTHER                  -> {Asked(b)}

\* A 200 means that every write of the request reached the device, and that no
\* other write did: a failed one is never passed over.
OkMeansWritten ==
  \A r \in Requests : answer[r].status = "ok" => wrote[r] \in Promised(body[r])

\* What a register becomes when a PATCH reads it and writes it back.
Rewritten(c) == IF Decode[c] \in Settable THEN Encode[Decode[c]] ELSE c

\* The conversion takes two centivolts at most, however often it is made.
Drifted(c) == {c, Rewritten(c), Rewritten(Rewritten(c))}

\* The registers a voltage may come from: the one the device began with, and
\* those of the requests that have written it.
Sources(p) ==
  LET setters == {r \in Requests : "volts" \in wrote[r] /\ p \in Overrides(body[r])}
  IN  UNION {Drifted(c) : c \in {InitialBlock[p]}
                                \cup {Encode[body[r].volts[p]] : r \in setters}}

Traced(volts) == \A p \in VoltageParams : volts[p] \in {Decode[c] : c \in Sources(p)}

\* PATCHes that overlap may undo each other's writes, since each sends a whole
\* block over a base that may be out of date (writeVoltageParametersBlock,
\* configurer.go), but they bring back only what somebody had set: but for the
\* conversion, no setting of the device, and no voltage of the cache or of an
\* answer, is one that nobody asked for.
NothingInvented ==
  /\ \A p \in VoltageParams : block[p] \in Sources(p)
  /\ \A s \in SingleRegs :
       regs[s] = InitialRegs[s] \/ \E r \in Requests : s \in wrote[r] /\ regs[s] = body[r].regs[s]
  /\ cacheHit => Traced(cache.volts)
  /\ \A r \in Requests :
       answer[r].config.volts = Blank.volts \/ Traced(answer[r].config.volts)

\* Every request is answered: the bus may fail, but no handler waits for
\* another.
EveryRequestAnswered ==
  \A r \in Requests : pc[r] # "idle" ~> pc[r] = "done"

-----------------------------------------------------------------------------
(* Properties of requests served one at a time.  CacheFreshWhenQuiet and   *)
(* OnlyRequestedFields need a bus that does not fail, too: a write whose   *)
(* acknowledgement is lost leaves the cache as it was.  The latter needs   *)
(* voltages whose conversion is exact besides.                             *)

\* A block write changes no voltage its request does not name (the PATCH
\* "updates charging parameters (only fields present in request ...)",
\* configurer_charging.go:71).
OnlyRequestedFields ==
  [][\A r \in Requests, p \in VoltageParams :
       "volts" \in wrote'[r] \ wrote[r] /\ block'[p] # block[p]
         => p \in Overrides(body[r])]_vars

\* The answer to a PATCH of charging parameters shows what it wrote.
PatchShowsItsWrite ==
  \A r \in Requests :
    LET b == body[r]
        shown == answer[r].config
    IN  answer[r].status = "ok" /\ b.op = "ChargingPatch" =>
          /\ \A s \in Asked(b) : shown.regs[s] = b.regs[s]
          /\ \A p \in Overrides(b) : shown.volts[p] = Decode[Encode[b.volts[p]]]

\* Between requests the cache holds what the device holds.
CacheFreshWhenQuiet == InFlight = {} /\ cacheHit => cache = DeviceConfig

\* Charging parameters change only while the battery type is userDefined
\* (README.md:504).
ChargingOnlyWhenUserDefined ==
  [][block' # block \/ (\E s \in Durations : regs'[s] # regs[s])
       => regs["type"] = UserDefined]_vars

-----------------------------------------------------------------------------
(* The store of settings that a lone client sees, if nothing fails.  It    *)
(* changes when a handler has made its last check: what the handler has    *)
(* still to write counts as written.                                       *)

\* Whether a request may change charging parameters.
Charges(b, s) ==
  UserDefined = IF "type" \in Asked(b) THEN b.regs["type"] ELSE s.regs["type"]

Admissible(b, s) ==
  LET valid == ValidVoltages(Proposal(b, DecodeBlock(s.block)))
  IN  CASE b.op = "ChargingPatch" -> Charges(b, s) /\ ~Malformed(b) /\ valid
        [] b.op = "ConfigPatch"   -> ~Malformed(b) /\ (Charges(b, s) => valid)
        [] b.op \in {"ProfilePatch", "TimePatch"} -> ~Malformed(b)
        [] OTHER                  -> TRUE

Changes(b, s) ==
  CASE b.op = "ChargingPatch" -> Asked(b) \cup VoltsJob(b)
    [] b.op = "ConfigPatch"   -> ConfigJobs(b, Charges(b, s)) \ {"drop", "dropType"}
    [] OTHER                  -> Asked(b)

Updated(b, s) ==
  [ regs  |-> [x \in SingleRegs |-> IF x \in Changes(b, s) THEN b.regs[x] ELSE s.regs[x]],
    block |-> IF "volts" \in Changes(b, s)
              THEN EncodeBlock(Proposal(b, DecodeBlock(s.block))) ELSE s.block ]

View(b, s) ==
  [ status |-> "ok",
    config |-> IF b.op \in {"TimeGet", "TimePatch"}
               THEN [Blank EXCEPT !.regs["clock"] = s.regs["clock"]]
               ELSE [regs |-> s.regs, volts |-> DecodeBlock(s.block)] ]

Without(status) == [status |-> status, config |-> Blank]

\* Handlers that have made their checks.
Accepted(r) ==
  \/ pc[r] \in {"work", "block", "clock", "reply"}
  \/ pc[r] \in {"lookup", "fill", "store"} /\ after[r] # "validate"

phase == [r \in Requests |-> IF pc[r] = "done" THEN "done"
                             ELSE IF Accepted(r) THEN "accepted" ELSE "waiting"]

judged == [r \in Requests |-> IF phase[r] = "waiting" THEN NoBody ELSE body[r]]

Writing(job) == CHOOSE r \in Requests : job \in todo[r]

settled ==
  LET planned == UNION {todo[r] : r \in Requests}
  IN  [ regs  |-> [x \in SingleRegs |-> IF x \in planned THEN body[Writing(x)].regs[x]
                                                         ELSE regs[x]],
        block |-> IF "volts" \in planned THEN EncodeBlock(proposal[Writing("volts")])
                                          ELSE block ]

Settings == INSTANCE SettingsStore
              WITH store <- settled, body <- judged, Refusal <- Without("rejected"),
                   InitialStore <- [regs |-> InitialRegs, block |-> InitialBlock],
                   Unanswered <- Without("none")

\* A lone client cannot tell the handlers of configurer*.go, their cache and the
\* many register operations of a request from a store that judges each request by
\* the settings it holds, applies it as a whole or not at all, and answers with
\* the outcome.
ImplementsStore == Settings!Spec
=============================================================================
