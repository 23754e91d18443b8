-------------------------- MODULE Configurer_proof --------------------------
(***************************************************************************)
(* Proofs about Configurer, for every set of requests, every bound and     *)
(* every pair of conversions that keep the order of voltages.              *)
(***************************************************************************)
EXTENDS Configurer, TLAPS

(***************************************************************************)
(* Types.  TypeOK needs two companions: a handler writes only registers    *)
(* its request has a value for, and a request not yet received has nothing *)
(* to do.                                                                  *)
(***************************************************************************)
TodoFromBody ==
  \A r \in Requests : todo[r] \cap SingleRegs \subseteq DOMAIN body[r].regs

IdleIsClean ==
  \A r \in Requests :
    pc[r] = "idle" => todo[r] = {} /\ wrote[r] = {} /\ after[r] = "reply"

TypeInv == TypeOK /\ TodoFromBody /\ IdleIsClean

LEMMA BlankType == Blank \in Config
  BY VoltsAssumption DEF Blank, Config

LEMMA DecodeType ==
  ASSUME NEW b \in [VoltageParams -> Registers]
  PROVE  DecodeBlock(b) \in [VoltageParams -> Volts]
  BY ConversionAssumption DEF DecodeBlock

LEMMA ReadIntoType ==
  ASSUME TypeOK, NEW c \in Config, NEW registers
  PROVE  ReadInto(c, registers) \in Config
  <1>1. DecodeBlock(block) \in [VoltageParams -> Volts]
    BY DecodeType DEF TypeOK
  <1> QED
    BY <1>1 DEF ReadInto, Config, TypeOK

\* A body in play is a request a client may make, or none at all.
LEMMA BodyType ==
  ASSUME TypeOK, NEW r \in Requests
  PROVE  /\ IsPartial(body[r].regs, SingleRegs, Nat)
         /\ IsPartial(body[r].volts, Patchable, Volts)
         /\ body[r].op \in Ops
  <1>1. CASE body[r] \in Bodies
    BY <1>1, BodiesAssumption DEF IsBody
  <1>2. CASE body[r] = NoBody
    BY <1>2 DEF NoBody, IsPartial, Ops
  <1> QED
    BY <1>1, <1>2 DEF TypeOK

LEMMA ProposalType ==
  ASSUME NEW b, IsPartial(b.volts, Patchable, Volts),
         NEW base \in [VoltageParams -> Volts]
  PROVE  Proposal(b, base) \in [VoltageParams -> Volts]
  BY DEF Proposal, Overrides, IsPartial

LEMMA MergedType ==
  ASSUME NEW v \in [VoltageParams -> Volts], NEW base \in [VoltageParams -> Volts]
  PROVE  MergedBlock(v, base) \in [VoltageParams -> Volts]
  BY DEF MergedBlock

LEMMA EncodeType ==
  ASSUME NEW v \in [VoltageParams -> Volts], \A p \in VoltageParams : InBounds(v[p])
  PROVE  EncodeBlock(v) \in [VoltageParams -> Registers]
  BY ConversionAssumption DEF EncodeBlock, Settable

Statuses == {"none", "ok", "rejected", "failed"}

Answered == [status : Statuses, config : Config]

\* What every way of answering leaves behind.
LEMMA AnswerType ==
  ASSUME TypeInv, NEW r \in Requests, NEW status \in Statuses,
         NEW reply \in Config, Answer(r, status, reply)
  PROVE  /\ pc' \in [Requests -> Places]
         /\ after' \in [Requests -> {"validate", "block", "reply"}]
         /\ body' = body
         /\ config' \in [Requests -> Config]
         /\ reads' \in [Requests -> 0..5]
         /\ proposal' \in [Requests -> [VoltageParams -> Volts]]
         /\ todo' \in [Requests -> SUBSET Jobs]
         /\ answer' \in [Requests -> Answered]
         /\ TodoFromBody'
         /\ \A q \in Requests : pc'[q] = "idle" =>
              pc[q] = "idle" /\ todo'[q] = todo[q] /\ after'[q] = after[q] /\ q # r
  <1>1. Blank.volts \in [VoltageParams -> Volts]
    BY VoltsAssumption DEF Blank
  <1>2. [status |-> status, config |-> reply] \in Answered
    BY DEF Answered
  <1> QED
    BY <1>1, <1>2, BlankType
    DEF TypeInv, TypeOK, TodoFromBody, Answer, Goto, Places, Answered, Statuses

-----------------------------------------------------------------------------
LEMMA InitTypeInv == Init => TypeInv
  <1>1. Blank.volts \in [VoltageParams -> Volts]
    BY VoltsAssumption DEF Blank
  <1> SUFFICES ASSUME Init PROVE TypeInv
    OBVIOUS
  <1>2. TodoFromBody /\ IdleIsClean
    BY DEF Init, TodoFromBody, IdleIsClean
  <1>3. /\ regs \in [SingleRegs -> Nat] /\ block \in [VoltageParams -> Registers]
        /\ faults \in 0..MaxFaults
    BY DeviceAssumption, BoundsAssumption DEF Init
  <1>4. cacheHit \in BOOLEAN
    BY DEF Init
  <1>5. /\ cache \in Config
        /\ pc \in [Requests -> Places]
        /\ after \in [Requests -> {"validate", "block", "reply"}]
        /\ reads \in [Requests -> 0..5]
    BY BlankType DEF Init, Places
  <1>6. /\ body \in [Requests -> Bodies \cup {NoBody}]
        /\ config \in [Requests -> Config]
        /\ proposal \in [Requests -> [VoltageParams -> Volts]]
    BY <1>1, BlankType DEF Init
  <1>7. /\ todo \in [Requests -> SUBSET Jobs]
        /\ wrote \in [Requests -> SUBSET Jobs]
        /\ answer \in [Requests -> [status : {"none", "ok", "rejected", "failed"},
                                    config : Config]]
    BY BlankType DEF Init
  <1> QED
    BY <1>2, <1>3, <1>4, <1>5, <1>6, <1>7 DEF TypeInv, TypeOK

\* The jobs a handler gives itself are jobs, and their registers are in its body.
LEMMA JobsType ==
  ASSUME NEW b, IsPartial(b.regs, SingleRegs, Nat), NEW userDefined \in BOOLEAN
  PROVE  /\ ChargingJobs(b) \in SUBSET Jobs
         /\ ChargingJobs(b) \cap SingleRegs \subseteq DOMAIN b.regs
         /\ ConfigJobs(b, userDefined) \in SUBSET Jobs
         /\ ConfigJobs(b, userDefined) \cap SingleRegs \subseteq DOMAIN b.regs
         /\ WithDrop(Asked(b)) \in SUBSET Jobs
         /\ WithDrop(Asked(b)) \cap SingleRegs \subseteq DOMAIN b.regs
  <1>1. Asked(b) \subseteq SingleRegs \ {"tempLimits"} /\ Asked(b) \subseteq DOMAIN b.regs
    BY DEF Asked, FieldsOf, IsPartial, Durations, SingleRegs
  <1>2. VoltsJob(b) \subseteq {"volts"}
    BY DEF VoltsJob
  <1>3. {"drop", "dropType", "volts"} \cap SingleRegs = {}
    BY DEF SingleRegs
  <1> QED
    BY <1>1, <1>2, <1>3 DEF ChargingJobs, ConfigJobs, WithDrop, Jobs

LEMMA ArriveTypeInv ==
  ASSUME TypeInv, NEW r \in Requests, NEW b \in Bodies, Arrive(r, b)
  PROVE  TypeInv'
  <1> USE DEF TypeInv, TypeOK, TodoFromBody, IdleIsClean, Goto, Receive, device,
              cacheVars, plans
  <1>0. IsBody(b) /\ IsPartial(b.regs, SingleRegs, Nat)
    BY BodiesAssumption DEF IsBody
  <1>1. pc[r] = "idle" /\ todo[r] = {}
    BY DEF Arrive, CachedGet, ConfigGet, TimeGet, ChargingPatch, ProfilePatch,
           ConfigPatch, TimePatch
  <1>2. ASSUME Reject(r, b) PROVE TypeInv'
    BY <1>1, <1>2, BlankType DEF Reject, Places
  <1>3. ASSUME NEW place \in Places \ {"idle"}, Goto(r, place), Accept(r, b),
               \/ UNCHANGED after
               \/ after' = [after EXCEPT ![r] = "reply"]
               \/ after' = [after EXCEPT ![r] = "validate"],
               UNCHANGED <<proposal, todo>>
        PROVE  TypeInv'
    BY <1>1, <1>3 DEF Accept
  <1>4. ASSUME NEW jobs \in SUBSET Jobs, jobs \cap SingleRegs \subseteq DOMAIN b.regs,
               Goto(r, "work"), todo' = [todo EXCEPT ![r] = jobs],
               Accept(r, b), UNCHANGED <<after, proposal>>
        PROVE  TypeInv'
    BY <1>1, <1>4 DEF Accept, Places
  <1>5. CASE CachedGet(r, b)
    BY <1>3, <1>5 DEF CachedGet, CallCached, Places
  <1>6. CASE ConfigGet(r, b)
    BY <1>3, <1>6 DEF ConfigGet, Places
  <1>7. CASE TimeGet(r, b)
    BY <1>3, <1>7 DEF TimeGet, Places
  <1>8. CASE ChargingPatch(r, b)
    BY <1>3, <1>8 DEF ChargingPatch, Places
  <1>9. CASE ProfilePatch(r, b)
    BY <1>0, <1>2, <1>4, <1>9, JobsType DEF ProfilePatch
  <1>10. CASE TimePatch(r, b)
    <2>1. ~Malformed(b) => WithDrop({"clock"}) \in SUBSET Jobs
                           /\ WithDrop({"clock"}) \cap SingleRegs \subseteq DOMAIN b.regs
      BY <1>10 DEF TimePatch, Malformed, WithDrop, Jobs, SingleRegs, Asked
    <2> QED
      BY <1>2, <1>4, <1>10, <2>1 DEF TimePatch
  <1>11. CASE ConfigPatch(r, b)
    <2>1. ASSUME todo' = [todo EXCEPT ![r] = ConfigJobs(b, FALSE)],
                 Goto(r, "work"), Accept(r, b), UNCHANGED <<after, proposal>>
          PROVE  TypeInv'
      BY <1>0, <1>4, <2>1, JobsType
    <2> QED
      BY <1>2, <1>3, <1>11, <2>1 DEF ConfigPatch, CallCached, Places
  <1> QED
    BY <1>5, <1>6, <1>7, <1>8, <1>9, <1>10, <1>11 DEF Arrive

-----------------------------------------------------------------------------
\* A handler that answers keeps the types, whatever it did to the device.
LEMMA AnswerTypeInv ==
  ASSUME TypeInv, NEW r \in Requests, pc[r] # "idle",
         NEW status \in Statuses, NEW reply \in Config,
         Answer(r, status, reply), UNCHANGED cacheVars,
         faults' \in 0..MaxFaults,
         regs' \in [SingleRegs -> Nat],
         block' \in [VoltageParams -> Registers],
         wrote' \in [Requests -> SUBSET Jobs],
         \A q \in Requests : q # r => wrote'[q] = wrote[q]
  PROVE  TypeInv'
  BY AnswerType
  DEF TypeInv, TypeOK, IdleIsClean, cacheVars, Answered, Statuses

LEMMA FaultType ==
  ASSUME TypeInv, Fault
  PROVE  faults' \in 0..MaxFaults
  BY BoundsAssumption DEF TypeInv, TypeOK, Fault

\* A step that leaves a request's plan alone and moves its handler on.
LEMMA MoveTypeInv ==
  ASSUME TypeInv, NEW r \in Requests, pc[r] # "idle",
         NEW place \in Places \ {"idle"}, Goto(r, place),
         NEW resume \in {"validate", "block", "reply"},
         after' = [after EXCEPT ![r] = resume],
         NEW c \in Config, config' = [config EXCEPT ![r] = c],
         NEW k \in 0..5, reads' = [reads EXCEPT ![r] = k],
         cache' \in Config, cacheHit' \in BOOLEAN,
         UNCHANGED <<device, faults, body, plans, answer>>
  PROVE  TypeInv'
  BY DEF TypeInv, TypeOK, TodoFromBody, IdleIsClean, Goto, device, plans

LEMMA LookupTypeInv ==
  ASSUME TypeInv, NEW r \in Requests, Lookup(r) PROVE TypeInv'
  <1>1. after[r] \in Places \ {"idle"} /\ after[r] \in {"validate", "block", "reply"}
    BY DEF TypeInv, TypeOK, Places
  <1>2. after' = [after EXCEPT ![r] = after[r]] /\ reads' = [reads EXCEPT ![r] = reads[r]]
        /\ reads[r] \in 0..5 /\ pc[r] # "idle"
    BY DEF TypeInv, TypeOK, Lookup
  <1>3. cache' \in Config /\ cache \in Config /\ config[r] \in Config
    BY DEF TypeInv, TypeOK, Lookup, cacheVars
  <1>4. cacheHit' \in BOOLEAN
    BY DEF TypeInv, TypeOK, Lookup, cacheVars
  <1>5. CASE cacheHit /\ config' = [config EXCEPT ![r] = cache] /\ Goto(r, after[r])
    BY <1>1, <1>2, <1>3, <1>4, <1>5, MoveTypeInv DEF Lookup
  <1>6. CASE Goto(r, "fill") /\ UNCHANGED config
    <2>1. config' = [config EXCEPT ![r] = config[r]] /\ "fill" \in Places \ {"idle"}
      BY <1>6 DEF TypeInv, TypeOK, Places
    <2> QED
      BY <1>1, <1>2, <1>3, <1>4, <1>6, <2>1, MoveTypeInv DEF Lookup
  <1> QED
    BY <1>5, <1>6 DEF Lookup

LEMMA FillTypeInv ==
  ASSUME TypeInv, NEW r \in Requests, Fill(r) PROVE TypeInv'
  <1>1. CASE Fault /\ Answer(r, "failed", Blank)
    BY <1>1, AnswerTypeInv, FaultType, BlankType
    DEF Fill, TypeInv, TypeOK, device, Statuses
  <1>2. CASE /\ config' = [config EXCEPT ![r] =
                        ReadInto(config[r], ReadOrder[reads[r] + 1])]
             /\ \/ /\ reads[r] < 5
                   /\ reads' = [reads EXCEPT ![r] = reads[r] + 1]
                   /\ UNCHANGED pc
                \/ /\ reads[r] = 5
                   /\ reads' = [reads EXCEPT ![r] = 0]
                   /\ Goto(r, IF body[r].op = "ConfigGet" THEN "reply" ELSE "store")
             /\ UNCHANGED <<faults, after, body, proposal, todo, answer>>
    <2>1. ReadInto(config[r], ReadOrder[reads[r] + 1]) \in Config
      BY ReadIntoType DEF TypeInv, TypeOK
    <2>2. config' \in [Requests -> Config]
      BY <1>2, <2>1 DEF TypeInv, TypeOK
    <2>3. reads' \in [Requests -> 0..5]
      <3>1. reads \in [Requests -> 0..5] /\ reads[r] \in 0..5
        BY DEF TypeInv, TypeOK
      <3>2. CASE reads[r] < 5 /\ reads' = [reads EXCEPT ![r] = reads[r] + 1]
        BY <3>1, <3>2
      <3>3. CASE reads' = [reads EXCEPT ![r] = 0]
        BY <3>1, <3>3
      <3> QED
        BY <1>2, <3>2, <3>3
    <2>4. pc' \in [Requests -> Places] /\ \A q \in Requests : pc'[q] = "idle" => pc[q] = "idle"
      <3>1. CASE UNCHANGED pc
        BY <3>1 DEF TypeInv, TypeOK
      <3>2. CASE Goto(r, "reply") \/ Goto(r, "store")
        BY <3>2 DEF TypeInv, TypeOK, Places, Goto
      <3> QED
        BY <1>2, <3>1, <3>2
    <2> QED
      BY <1>2, <2>2, <2>3, <2>4
      DEF TypeInv, TypeOK, TodoFromBody, IdleIsClean, Fill, device, cacheVars
  <1> QED
    BY <1>1, <1>2 DEF Fill

LEMMA StoreTypeInv ==
  ASSUME TypeInv, NEW r \in Requests, Store(r) PROVE TypeInv'
  <1>1. after[r] \in Places \ {"idle"} /\ after[r] \in {"validate", "block", "reply"}
    BY DEF TypeInv, TypeOK, Places
  <1>2. /\ after' = [after EXCEPT ![r] = after[r]]
        /\ reads' = [reads EXCEPT ![r] = reads[r]]
        /\ config' = [config EXCEPT ![r] = config[r]]
        /\ reads[r] \in 0..5 /\ pc[r] # "idle" /\ config[r] \in Config
    BY DEF TypeInv, TypeOK, Store
  <1>3. cache' \in Config
    BY <1>2 DEF Store
  <1>4. cacheHit' \in BOOLEAN
    BY DEF Store
  <1> QED
    BY <1>1, <1>2, <1>3, <1>4, MoveTypeInv DEF Store

LEMMA ReadTypeTypeInv ==
  ASSUME TypeInv, NEW r \in Requests, ReadType(r) PROVE TypeInv'
  <1>1. ASSUME NEW status \in {"failed", "rejected"}, Answer(r, status, Blank),
               faults' \in 0..MaxFaults
        PROVE  TypeInv'
    BY <1>1, AnswerTypeInv, BlankType
    DEF ReadType, TypeInv, TypeOK, device, Statuses
  <1>2. ASSUME NEW place \in {"lookup", "work"}, Goto(r, place),
               \/ UNCHANGED after
               \/ after' = [after EXCEPT ![r] = "validate"],
               UNCHANGED <<faults, body, config, reads, proposal, todo, answer>>
        PROVE  TypeInv'
    BY <1>2 DEF ReadType, TypeInv, TypeOK, TodoFromBody, IdleIsClean, Places, Goto,
                device, cacheVars
  <1>3. Fault => faults' \in 0..MaxFaults
    BY FaultType
  <1>4. UNCHANGED faults => faults' \in 0..MaxFaults
    BY DEF TypeInv, TypeOK
  <1> QED
    BY <1>1, <1>2, <1>3, <1>4 DEF ReadType, CallCached

LEMMA ValidateTypeInv ==
  ASSUME TypeInv, NEW r \in Requests, Validate(r) PROVE TypeInv'
  <1> DEFINE proposed == Proposal(body[r], config[r].volts)
  <1>1. CASE Answer(r, "rejected", Blank)
    BY <1>1, AnswerTypeInv, BlankType
    DEF Validate, TypeInv, TypeOK, device, Statuses
  <1>2. ASSUME NEW jobs \in SUBSET Jobs, jobs \cap SingleRegs \subseteq DOMAIN body[r].regs,
               Goto(r, "work"),
               proposal' = [proposal EXCEPT ![r] = proposed],
               todo' = [todo EXCEPT ![r] = jobs],
               config' = [config EXCEPT ![r] = Blank],
               UNCHANGED <<after, body, reads, answer>>
        PROVE  TypeInv'
    <2>1. proposed \in [VoltageParams -> Volts]
      BY BodyType, ProposalType DEF TypeInv, TypeOK, Config
    <2> QED
      BY <1>2, <2>1, BlankType
      DEF Validate, TypeInv, TypeOK, TodoFromBody, IdleIsClean, Places, Goto, device,
          cacheVars
  <1>3. /\ ChargingJobs(body[r]) \in SUBSET Jobs
        /\ ChargingJobs(body[r]) \cap SingleRegs \subseteq DOMAIN body[r].regs
        /\ ConfigJobs(body[r], TRUE) \in SUBSET Jobs
        /\ ConfigJobs(body[r], TRUE) \cap SingleRegs \subseteq DOMAIN body[r].regs
    BY BodyType, JobsType DEF TypeInv
  <1>4. ASSUME ~Answer(r, "rejected", Blank) PROVE TypeInv'
    <2>1. /\ Goto(r, "work")
          /\ proposal' = [proposal EXCEPT ![r] = proposed]
          /\ config' = [config EXCEPT ![r] = Blank]
          /\ UNCHANGED <<after, body, reads, answer>>
      BY <1>4 DEF Validate
    <2>2. \/ todo' = [todo EXCEPT ![r] = ChargingJobs(body[r])]
          \/ todo' = [todo EXCEPT ![r] = ConfigJobs(body[r], TRUE)]
      BY <1>4 DEF Validate
    <2> HIDE DEF proposed
    <2> QED
      BY <1>2, <1>3, <2>1, <2>2
  <1> QED
    BY <1>1, <1>4

LEMMA WriteSingleTypeInv ==
  ASSUME TypeInv, NEW r \in Requests, NEW reg \in SingleRegs, WriteSingle(r, reg)
  PROVE  TypeInv'
  <1>1. pc[r] = "work" /\ reg \in todo[r] /\ reg \in Jobs
    BY DEF WriteSingle, IsNext, TypeInv, TypeOK
  <1>2. body[r].regs[reg] \in Nat
    BY <1>1, BodyType DEF TypeInv, TodoFromBody, IsPartial
  <1>3. ASSUME regs' = [regs EXCEPT ![reg] = body[r].regs[reg]] /\ Written(r, reg)
        PROVE  /\ regs' \in [SingleRegs -> Nat]
               /\ wrote' \in [Requests -> SUBSET Jobs]
               /\ \A q \in Requests : q # r => wrote'[q] = wrote[q]
    BY <1>1, <1>2, <1>3 DEF Written, TypeInv, TypeOK
  <1>4. CASE /\ regs' = [regs EXCEPT ![reg] = body[r].regs[reg]] /\ Written(r, reg)
             /\ Done(r, reg)
             /\ UNCHANGED <<faults, pc, after, body, config, reads, proposal, answer>>
    <2>1. /\ todo' \in [Requests -> SUBSET Jobs]
          /\ TodoFromBody'
          /\ \A q \in Requests : todo'[q] \subseteq todo[q]
      BY <1>4 DEF Done, TypeInv, TypeOK, TodoFromBody
    <2>2. IdleIsClean'
      BY <1>1, <1>3, <1>4, <2>1 DEF TypeInv, IdleIsClean
    <2> QED
      BY <1>3, <1>4, <2>1, <2>2 DEF TypeInv, TypeOK, WriteSingle, cacheVars
  <1>5. CASE Fault /\ Answer(r, "failed", Blank)
    <2>1. /\ regs' \in [SingleRegs -> Nat]
          /\ wrote' \in [Requests -> SUBSET Jobs]
          /\ \A q \in Requests : q # r => wrote'[q] = wrote[q]
      BY <1>1, <1>3, <1>5 DEF WriteSingle, TypeInv, TypeOK, Fault, Answer, Goto
    <2> QED
      BY <1>1, <1>5, <2>1, AnswerTypeInv, FaultType, BlankType
      DEF WriteSingle, TypeInv, TypeOK, Statuses
  <1> QED
    BY <1>4, <1>5 DEF WriteSingle

LEMMA WriteBlockTypeInv ==
  ASSUME TypeInv, NEW r \in Requests, WriteBlock(r) PROVE TypeInv'
  <1> DEFINE merged == MergedBlock(proposal[r], config[r].volts)
             inBounds == \A p \in VoltageParams : InBounds(merged[p])
             write == block' = Sent(r, merged) /\ Written(r, "volts")
  <1>1. pc[r] = "block" /\ pc[r] # "idle" /\ "volts" \in Jobs
    BY DEF WriteBlock, Jobs
  <1>2. merged \in [VoltageParams -> Volts]
    BY MergedType DEF TypeInv, TypeOK, Config
  <1>3. ASSUME inBounds, write
        PROVE  /\ block' \in [VoltageParams -> Registers]
               /\ wrote' \in [Requests -> SUBSET Jobs]
               /\ \A q \in Requests : q # r => wrote'[q] = wrote[q]
    <2>1. block' \in [VoltageParams -> Registers]
      BY <1>2, <1>3, EncodeType DEF Sent
    <2> HIDE DEF merged
    <2> QED
      BY <1>1, <1>3, <2>1 DEF Written, TypeInv, TypeOK
  <1>4. \/ /\ inBounds /\ write
           /\ Done(r, "volts") /\ Goto(r, "work")
           /\ config' = [config EXCEPT ![r] = Blank]
           /\ UNCHANGED <<faults, after, body, reads, proposal, answer>>
        \/ /\ inBounds /\ Fault /\ Answer(r, "failed", Blank)
           /\ write \/ UNCHANGED <<block, wrote>>
        \/ Answer(r, "failed", Blank) /\ UNCHANGED <<block, wrote, faults>>
    BY DEF WriteBlock
  <1>5. regs' \in [SingleRegs -> Nat] /\ UNCHANGED cacheVars
    BY DEF WriteBlock, TypeInv, TypeOK
  <1>6. UNCHANGED <<block, wrote>> =>
          /\ block' \in [VoltageParams -> Registers]
          /\ wrote' \in [Requests -> SUBSET Jobs]
          /\ \A q \in Requests : q # r => wrote'[q] = wrote[q]
    BY DEF TypeInv, TypeOK
  <1> HIDE DEF merged, inBounds, write
  <1>7. CASE /\ inBounds /\ write
             /\ Done(r, "volts") /\ Goto(r, "work")
             /\ config' = [config EXCEPT ![r] = Blank]
             /\ UNCHANGED <<faults, after, body, reads, proposal, answer>>
    <2>1. /\ todo' \in [Requests -> SUBSET Jobs]
          /\ TodoFromBody'
          /\ \A q \in Requests : todo'[q] \subseteq todo[q]
      BY <1>7 DEF Done, TypeInv, TypeOK, TodoFromBody
    <2>2. pc' \in [Requests -> Places] /\ \A q \in Requests :
            pc'[q] = "idle" => pc[q] = "idle" /\ q # r
      BY <1>7 DEF TypeInv, TypeOK, Places, Goto
    <2>3. IdleIsClean'
      BY <1>3, <1>7, <2>1, <2>2 DEF TypeInv, IdleIsClean
    <2>4. config' \in [Requests -> Config]
      BY <1>7, BlankType DEF TypeInv, TypeOK
    <2> QED
      BY <1>3, <1>5, <1>7, <2>1, <2>2, <2>3, <2>4 DEF TypeInv, TypeOK, cacheVars
  <1>8. CASE /\ inBounds /\ Fault /\ Answer(r, "failed", Blank)
             /\ write \/ UNCHANGED <<block, wrote>>
    BY <1>1, <1>3, <1>5, <1>6, <1>8, AnswerTypeInv, FaultType, BlankType DEF Statuses
  <1>9. CASE Answer(r, "failed", Blank) /\ UNCHANGED <<block, wrote, faults>>
    BY <1>1, <1>5, <1>6, <1>9, AnswerTypeInv, BlankType DEF TypeInv, TypeOK, Statuses
  <1> QED
    BY <1>4, <1>7, <1>8, <1>9

LEMMA InvalidateTypeInv ==
  ASSUME TypeInv, NEW r \in Requests, NEW job \in {"drop", "dropType"},
         Invalidate(r, job)
  PROVE  TypeInv'
  <1>1. cacheHit' \in BOOLEAN /\ cache' \in Config
    BY BlankType DEF Invalidate
  <1>2. /\ todo' \in [Requests -> SUBSET Jobs]
        /\ TodoFromBody'
        /\ \A q \in Requests : todo'[q] \subseteq todo[q]
    BY DEF Invalidate, Done, TypeInv, TypeOK, TodoFromBody
  <1> QED
    BY <1>1, <1>2 DEF Invalidate, TypeInv, TypeOK, IdleIsClean, device

\* The two places where a handler with its checks behind it calls for a
\* configuration or the clock.
LEMMA CallTypeInv ==
  ASSUME TypeInv, NEW r \in Requests, StartBlock(r) \/ ReadBack(r)
  PROVE  TypeInv'
  <1>1. pc[r] = "work" /\ reads[r] \in 0..5 /\ config[r] \in Config /\ cache \in Config
    BY DEF StartBlock, ReadBack, IsNext, TypeInv, TypeOK
  <1>2. cacheHit' \in BOOLEAN
    BY DEF StartBlock, ReadBack, TypeInv, TypeOK, cacheVars
  <1>3. \E place \in {"lookup", "clock"}, resume \in {"validate", "block", "reply"} :
          Goto(r, place) /\ after' = [after EXCEPT ![r] = resume]
    <2>1. after' = [after EXCEPT ![r] = after[r]] \/ after' # after
      BY DEF TypeInv, TypeOK
    <2>2. after[r] \in {"validate", "block", "reply"}
      BY DEF TypeInv, TypeOK
    <2> QED
      BY <2>1, <2>2 DEF StartBlock, ReadBack, CallCached
  <1>4. /\ config' = [config EXCEPT ![r] = config[r]]
        /\ reads' = [reads EXCEPT ![r] = reads[r]]
        /\ cache' \in Config
        /\ UNCHANGED <<device, faults, body, plans, answer>>
    BY <1>1 DEF StartBlock, ReadBack, TypeInv, TypeOK, cacheVars
  <1>5. {"lookup", "clock"} \subseteq Places \ {"idle"}
    BY DEF Places
  <1> QED
    BY <1>1, <1>2, <1>3, <1>4, <1>5, MoveTypeInv

LEMMA ReadClockTypeInv ==
  ASSUME TypeInv, NEW r \in Requests, ReadClock(r) PROVE TypeInv'
  <1>1. [Blank EXCEPT !.regs["clock"] = regs["clock"]] \in Config
    BY BlankType DEF TypeInv, TypeOK, Config, SingleRegs
  <1>2. faults' \in 0..MaxFaults
    BY FaultType DEF ReadClock, TypeInv, TypeOK
  <1>3. \E status \in Statuses, reply \in Config : Answer(r, status, reply)
    BY <1>1, BlankType DEF ReadClock, Statuses
  <1> QED
    BY <1>2, <1>3, AnswerTypeInv
    DEF ReadClock, TypeInv, TypeOK, device

LEMMA ReplyTypeInv ==
  ASSUME TypeInv, NEW r \in Requests, Reply(r) PROVE TypeInv'
  <1>1. config[r] \in Config /\ "ok" \in Statuses
    BY DEF TypeInv, TypeOK, Statuses
  <1> QED
    BY <1>1, AnswerTypeInv DEF Reply, TypeInv, TypeOK, device

LEMMA ExpireTypeInv ==
  ASSUME TypeInv, Expire PROVE TypeInv'
  <1>1. cacheHit' \in BOOLEAN /\ cache' \in Config
    BY BlankType DEF Expire
  <1> QED
    BY <1>1 DEF Expire, TypeInv, TypeOK, TodoFromBody, IdleIsClean, device, plans

LEMMA StepTypeInv ==
  ASSUME TypeInv, NEW r \in Requests, Step(r) PROVE TypeInv'
  BY LookupTypeInv, FillTypeInv, StoreTypeInv, ReadTypeTypeInv, ValidateTypeInv,
     WriteSingleTypeInv, CallTypeInv, WriteBlockTypeInv, InvalidateTypeInv,
     ReadClockTypeInv, ReplyTypeInv
  DEF Step

\* The types hold of every interleaving of any requests (TypeOK).
THEOREM TypeCorrect == Spec => []TypeInv
  <1>1. Init => TypeInv
    BY InitTypeInv
  <1>2. TypeInv /\ [Next]_vars => TypeInv'
    <2> SUFFICES ASSUME TypeInv, [Next]_vars PROVE TypeInv'
      OBVIOUS
    <2>1. CASE \E r \in Requests : Step(r)
      BY <2>1, StepTypeInv
    <2>2. CASE \E r \in Requests, b \in Bodies : Arrive(r, b)
      BY <2>2, ArriveTypeInv
    <2>3. CASE Expire
      BY <2>3, ExpireTypeInv
    <2>4. CASE UNCHANGED vars
      BY <2>4 DEF vars, TypeInv, TypeOK, TodoFromBody, IdleIsClean
    <2> QED
      BY <2>1, <2>2, <2>3, <2>4 DEF Next, AllAnswered
  <1> QED
    BY <1>1, <1>2, PTL DEF Spec

\* What TypeCorrect says of TypeOK itself, as TLC checks it.
COROLLARY TypesHold == Spec => []TypeOK
  <1>1. TypeInv => TypeOK
    BY DEF TypeInv
  <1> QED
    BY <1>1, TypeCorrect, PTL

-----------------------------------------------------------------------------
(***************************************************************************)
(* Order.  The device's thresholds stay in order because a handler that    *)
(* has a block to write holds a proposal that was validated as a whole,    *)
(* because the block writer sends that proposal and nothing else, however  *)
(* stale the configuration it reads meanwhile, and because the conversion  *)
(* to registers keeps order.                                               *)
(***************************************************************************)
ProposalsValid ==
  \A r \in Requests : "volts" \in todo[r] => ValidVoltages(proposal[r])

WritersHaveJob ==
  \A r \in Requests :
    pc[r] = "block" \/ (pc[r] \in {"lookup", "fill", "store"} /\ after[r] = "block")
      => "volts" \in todo[r]

ReadingsOrdered == \A r \in Requests : WeaklyOrdered(config[r].volts)

OrderInv ==
  /\ ProposalsValid
  /\ WritersHaveJob
  /\ ReadingsOrdered
  /\ DeviceOrdered
  /\ ConfigsOrdered

LEMMA AboveType == \A pair \in Above : pair[1] \in VoltageParams /\ pair[2] \in VoltageParams
  BY DEF Above, VoltageParams, Patchable

LEMMA BlankOrdered == WeaklyOrdered(Blank.volts)
  BY AboveType DEF WeaklyOrdered, Blank

LEMMA DecodeOrdered ==
  ASSUME NEW b \in [VoltageParams -> Registers], WeaklyOrdered(b)
  PROVE  WeaklyOrdered(DecodeBlock(b))
  <1> SUFFICES ASSUME NEW pair \in Above
               PROVE  DecodeBlock(b)[pair[1]] >= DecodeBlock(b)[pair[2]]
    BY DEF WeaklyOrdered
  <1>1. pair[1] \in VoltageParams /\ pair[2] \in VoltageParams
    BY AboveType
  <1>2. b[pair[2]] <= b[pair[1]] /\ b[pair[1]] \in Registers /\ b[pair[2]] \in Registers
    BY <1>1, VoltsAssumption DEF WeaklyOrdered
  <1>3. Decode[b[pair[2]]] <= Decode[b[pair[1]]]
    BY <1>2, ConversionAssumption
  <1>4. Decode[b[pair[1]]] \in Int /\ Decode[b[pair[2]]] \in Int
    BY <1>2, VoltsAssumption, ConversionAssumption
  <1> QED
    BY <1>1, <1>3, <1>4 DEF DecodeBlock

\* A validated block reaches the registers in order, though perhaps not
\* strictly: two voltages may become one register value.
LEMMA EncodeOrdered ==
  ASSUME NEW v \in [VoltageParams -> Volts], ValidVoltages(v)
  PROVE  WeaklyOrdered(EncodeBlock(v))
  <1> SUFFICES ASSUME NEW pair \in Above
               PROVE  EncodeBlock(v)[pair[1]] >= EncodeBlock(v)[pair[2]]
    BY DEF WeaklyOrdered
  <1>1. pair[1] \in VoltageParams /\ pair[2] \in VoltageParams
    BY AboveType
  <1>2. v[pair[1]] \in Settable /\ v[pair[2]] \in Settable
    BY <1>1 DEF ValidVoltages, Settable
  <1>3. v[pair[2]] <= v[pair[1]]
    <2>1. v[pair[1]] > v[pair[2]]
      BY DEF ValidVoltages, Ordered
    <2>2. v[pair[1]] \in Int /\ v[pair[2]] \in Int
      BY <1>2, VoltsAssumption DEF Settable
    <2> QED
      BY <2>1, <2>2
  <1>4. Encode[v[pair[2]]] <= Encode[v[pair[1]]]
    BY <1>2, <1>3, ConversionAssumption
  <1>5. Encode[v[pair[1]]] \in Int /\ Encode[v[pair[2]]] \in Int
    BY <1>2, VoltsAssumption, ConversionAssumption
  <1> QED
    BY <1>1, <1>4, <1>5 DEF EncodeBlock

\* A valid proposal has no zero field to be filled in from the cache.
LEMMA NothingMerged ==
  ASSUME NEW v \in [VoltageParams -> Volts], ValidVoltages(v), NEW base
  PROVE  MergedBlock(v, base) = v
  <1>1. \A p \in VoltageParams : v[p] # 0
    BY VoltsAssumption DEF ValidVoltages, InBounds
  <1> QED
    BY <1>1 DEF MergedBlock

LEMMA ReadIntoOrdered ==
  ASSUME TypeInv, OrderInv, NEW r \in Requests, NEW registers
  PROVE  WeaklyOrdered(ReadInto(config[r], registers).volts)
  <1>1. WeaklyOrdered(DecodeBlock(block))
    BY DecodeOrdered DEF TypeInv, TypeOK, OrderInv, DeviceOrdered
  <1> QED
    BY <1>1 DEF ReadInto, OrderInv, ReadingsOrdered

LEMMA AnswerOrderInv ==
  ASSUME TypeInv, OrderInv, NEW r \in Requests, NEW status, NEW reply,
         WeaklyOrdered(reply.volts), Answer(r, status, reply),
         UNCHANGED cacheVars, WeaklyOrdered(block')
  PROVE  OrderInv'
  <1>1. ProposalsValid'
    BY DEF TypeInv, TypeOK, OrderInv, ProposalsValid, Answer
  <1>2. WritersHaveJob'
    BY DEF TypeInv, TypeOK, OrderInv, WritersHaveJob, Answer, Goto
  <1>3. ReadingsOrdered'
    BY BlankOrdered DEF TypeInv, TypeOK, OrderInv, ReadingsOrdered, Answer
  <1>4. ConfigsOrdered'
    BY DEF TypeInv, TypeOK, OrderInv, ConfigsOrdered, Answer, cacheVars
  <1> QED
    BY <1>1, <1>2, <1>3, <1>4 DEF OrderInv, DeviceOrdered

\* Steps that change neither the device nor a plan, and only the handler's own
\* reading.
LEMMA MoveOrderInv ==
  ASSUME TypeInv, OrderInv, NEW r \in Requests, NEW place,
         Goto(r, place), place # "block" \/ "volts" \in todo[r],
         NEW resume, after' = [after EXCEPT ![r] = resume],
         resume = "block" => "volts" \in todo[r] \/ place \notin {"lookup", "fill", "store"},
         NEW c, config' = [config EXCEPT ![r] = c], WeaklyOrdered(c.volts),
         WeaklyOrdered(cache'.volts),
         UNCHANGED <<block, todo, proposal, answer>>
  PROVE  OrderInv'
  <1>1. ProposalsValid'
    BY DEF OrderInv, ProposalsValid
  <1>2. WritersHaveJob'
    BY DEF TypeInv, TypeOK, OrderInv, WritersHaveJob, Goto
  <1>3. ReadingsOrdered'
    BY DEF TypeInv, TypeOK, OrderInv, ReadingsOrdered
  <1>4. ConfigsOrdered'
    BY DEF OrderInv, ConfigsOrdered
  <1> QED
    BY <1>1, <1>2, <1>3, <1>4 DEF OrderInv, DeviceOrdered

LEMMA ReceiveOrderInv ==
  ASSUME TypeInv, OrderInv, NEW r \in Requests, NEW b \in Bodies, Arrive(r, b)
  PROVE  OrderInv'
  <1>1. pc[r] = "idle" /\ todo[r] = {} /\ after[r] = "reply"
        /\ UNCHANGED <<block, cache, config, proposal>>
    BY DEF Arrive, CachedGet, ConfigGet, TimeGet, ChargingPatch, ProfilePatch,
           ConfigPatch, TimePatch, Receive, Accept, Reject, TypeInv, IdleIsClean,
           device, cacheVars, plans
  <1>2. ASSUME Reject(r, b) PROVE OrderInv'
    <2>1. WritersHaveJob'
      BY <1>2 DEF TypeInv, TypeOK, OrderInv, WritersHaveJob, Reject, Goto, plans
    <2>2. ConfigsOrdered'
      BY <1>2, BlankOrdered
      DEF TypeInv, TypeOK, OrderInv, ConfigsOrdered, Reject, cacheVars
    <2> QED
      BY <1>2, <2>1, <2>2
      DEF OrderInv, DeviceOrdered, ProposalsValid, ReadingsOrdered, Reject, device, plans
  <1>3. ASSUME NEW place \in {"lookup", "fill", "clock", "readType"}, Goto(r, place),
               Accept(r, b),
               \/ UNCHANGED after
               \/ after' = [after EXCEPT ![r] = "reply"]
               \/ after' = [after EXCEPT ![r] = "validate"],
               UNCHANGED <<proposal, todo>>
        PROVE  OrderInv'
    <2>1. WritersHaveJob'
      BY <1>1, <1>3 DEF TypeInv, TypeOK, OrderInv, WritersHaveJob, Goto
    <2> QED
      BY <1>1, <1>3, <2>1
      DEF OrderInv, DeviceOrdered, ProposalsValid, ReadingsOrdered, ConfigsOrdered, Accept
  <1>4. ASSUME NEW jobs, "volts" \notin jobs,
               Goto(r, "work"), todo' = [todo EXCEPT ![r] = jobs],
               Accept(r, b), UNCHANGED <<after, proposal>>
        PROVE  OrderInv'
    <2>1. WritersHaveJob' /\ ProposalsValid'
      BY <1>1, <1>4 DEF TypeInv, TypeOK, OrderInv, WritersHaveJob, ProposalsValid, Goto
    <2> QED
      BY <1>1, <1>4, <2>1
      DEF OrderInv, DeviceOrdered, ReadingsOrdered, ConfigsOrdered, Accept
  <1>5. CASE CachedGet(r, b) \/ ConfigGet(r, b) \/ TimeGet(r, b) \/ ChargingPatch(r, b)
    BY <1>3, <1>5 DEF CachedGet, ConfigGet, TimeGet, ChargingPatch, CallCached
  <1>6. /\ "volts" \notin WithDrop(Asked(b)) /\ "volts" \notin WithDrop({"clock"})
        /\ "volts" \notin ConfigJobs(b, FALSE)
    BY DEF WithDrop, Asked, FieldsOf, Durations, ConfigJobs
  <1>7. CASE ProfilePatch(r, b)
    BY <1>2, <1>4, <1>6, <1>7 DEF ProfilePatch
  <1>8. CASE TimePatch(r, b)
    BY <1>2, <1>4, <1>6, <1>8 DEF TimePatch
  <1>9. CASE ConfigPatch(r, b)
    BY <1>2, <1>3, <1>4, <1>6, <1>9 DEF ConfigPatch, CallCached
  <1> QED
    BY <1>5, <1>7, <1>8, <1>9 DEF Arrive

LEMMA LookupOrderInv ==
  ASSUME TypeInv, OrderInv, NEW r \in Requests, Lookup(r) PROVE OrderInv'
  <1>1. /\ after' = [after EXCEPT ![r] = after[r]]
        /\ after[r] = "block" => "volts" \in todo[r]
        /\ WeaklyOrdered(cache.volts) /\ WeaklyOrdered(config[r].volts)
        /\ UNCHANGED <<block, todo, proposal, answer, cache>>
    BY DEF Lookup, TypeInv, TypeOK, OrderInv, WritersHaveJob, ReadingsOrdered,
           ConfigsOrdered, device, cacheVars, plans
  <1>2. CASE config' = [config EXCEPT ![r] = cache] /\ Goto(r, after[r])
    BY <1>1, <1>2, MoveOrderInv
  <1>3. CASE UNCHANGED config /\ Goto(r, "fill")
    <2>1. config' = [config EXCEPT ![r] = config[r]]
      BY <1>3 DEF TypeInv, TypeOK
    <2> QED
      BY <1>1, <1>3, <2>1, MoveOrderInv
  <1> QED
    BY <1>2, <1>3 DEF Lookup

LEMMA FillOrderInv ==
  ASSUME TypeInv, OrderInv, NEW r \in Requests, Fill(r) PROVE OrderInv'
  <1> DEFINE c == ReadInto(config[r], ReadOrder[reads[r] + 1])
  <1>1. UNCHANGED <<block, cacheVars, wrote>> /\ pc[r] = "fill"
    BY DEF Fill, device
  <1>2. CASE Answer(r, "failed", Blank)
    BY <1>1, <1>2, AnswerOrderInv, BlankOrdered DEF OrderInv, DeviceOrdered
  <1>3. CASE /\ config' = [config EXCEPT ![r] = c]
             /\ UNCHANGED pc \/ Goto(r, "reply") \/ Goto(r, "store")
             /\ UNCHANGED <<after, proposal, todo, answer>>
    <2>1. WeaklyOrdered(c.volts)
      BY ReadIntoOrdered
    <2>2. \E place \in {"fill", "reply", "store"} : Goto(r, place)
      BY <1>1, <1>3 DEF Goto, TypeInv, TypeOK
    <2>3. /\ after' = [after EXCEPT ![r] = after[r]]
          /\ after[r] = "block" => "volts" \in todo[r]
          /\ WeaklyOrdered(cache'.volts)
      BY <1>1, <1>3 DEF TypeInv, TypeOK, OrderInv, WritersHaveJob, ConfigsOrdered, cacheVars
    <2> HIDE DEF c
    <2> QED
      BY <1>1, <1>3, <2>1, <2>2, <2>3, MoveOrderInv
  <1>4. Answer(r, "failed", Blank)
        \/ /\ config' = [config EXCEPT ![r] = c]
           /\ UNCHANGED pc \/ Goto(r, "reply") \/ Goto(r, "store")
           /\ UNCHANGED <<after, proposal, todo, answer>>
    BY DEF Fill
  <1> QED
    BY <1>2, <1>3, <1>4

LEMMA StoreOrderInv ==
  ASSUME TypeInv, OrderInv, NEW r \in Requests, Store(r) PROVE OrderInv'
  <1>1. /\ after' = [after EXCEPT ![r] = after[r]]
        /\ config' = [config EXCEPT ![r] = config[r]]
        /\ after[r] = "block" => "volts" \in todo[r]
        /\ WeaklyOrdered(config[r].volts) /\ WeaklyOrdered(cache'.volts)
        /\ Goto(r, after[r])
        /\ UNCHANGED <<block, todo, proposal, answer>>
    BY DEF Store, TypeInv, TypeOK, OrderInv, WritersHaveJob, ReadingsOrdered, device, plans
  <1> QED
    BY <1>1, MoveOrderInv

LEMMA ReadTypeOrderInv ==
  ASSUME TypeInv, OrderInv, NEW r \in Requests, ReadType(r) PROVE OrderInv'
  <1>1. UNCHANGED <<block, cacheVars>> /\ WeaklyOrdered(block')
        /\ WeaklyOrdered(config[r].volts) /\ WeaklyOrdered(cache'.volts)
    BY DEF ReadType, OrderInv, DeviceOrdered, ReadingsOrdered, ConfigsOrdered, device,
           cacheVars
  <1>2. CASE Answer(r, "failed", Blank) \/ Answer(r, "rejected", Blank)
    BY <1>1, <1>2, AnswerOrderInv, BlankOrdered
  <1>3. CASE /\ CallCached(r, "validate")
             /\ UNCHANGED <<config, proposal, todo, answer>>
    <2>1. config' = [config EXCEPT ![r] = config[r]]
      BY <1>3 DEF TypeInv, TypeOK
    <2> QED
      BY <1>1, <1>3, <2>1, MoveOrderInv DEF CallCached
  <1>4. CASE /\ Goto(r, "work")
             /\ UNCHANGED <<after, config, proposal, todo, answer>>
    <2>1. /\ config' = [config EXCEPT ![r] = config[r]]
          /\ after' = [after EXCEPT ![r] = after[r]]
      BY <1>4 DEF TypeInv, TypeOK
    <2>2. "work" # "block" /\ "work" \notin {"lookup", "fill", "store"}
      OBVIOUS
    <2>3. UNCHANGED <<block, todo, proposal, answer>>
      BY <1>1, <1>4
    <2> QED
      BY <1>1, <1>4, <2>1, <2>2, <2>3, MoveOrderInv
  <1> QED
    BY <1>2, <1>3, <1>4 DEF ReadType

LEMMA ValidateOrderInv ==
  ASSUME TypeInv, OrderInv, NEW r \in Requests, Validate(r) PROVE OrderInv'
  <1> DEFINE proposed == Proposal(body[r], config[r].volts)
  <1>1. UNCHANGED <<block, cacheVars>> /\ WeaklyOrdered(block')
    BY DEF Validate, OrderInv, DeviceOrdered, device
  <1>2. CASE Answer(r, "rejected", Blank)
    BY <1>1, <1>2, AnswerOrderInv, BlankOrdered
  <1>3. CASE /\ ValidVoltages(proposed) /\ Goto(r, "work")
             /\ proposal' = [proposal EXCEPT ![r] = proposed]
             /\ \A q \in Requests \ {r} : todo'[q] = todo[q]
             /\ config' = [config EXCEPT ![r] = Blank]
             /\ UNCHANGED <<after, answer>>
    <2> HIDE DEF proposed
    <2>1. ProposalsValid'
      BY <1>3 DEF TypeInv, TypeOK, OrderInv, ProposalsValid
    <2>2. WritersHaveJob'
      BY <1>3 DEF TypeInv, TypeOK, OrderInv, WritersHaveJob, Goto
    <2>3. ReadingsOrdered'
      BY <1>3, BlankOrdered DEF TypeInv, TypeOK, OrderInv, ReadingsOrdered
    <2>4. ConfigsOrdered'
      BY <1>1, <1>3 DEF OrderInv, ConfigsOrdered, cacheVars
    <2> QED
      BY <1>1, <2>1, <2>2, <2>3, <2>4 DEF OrderInv, DeviceOrdered
  <1>4. \/ Answer(r, "rejected", Blank)
        \/ /\ ValidVoltages(proposed) /\ Goto(r, "work")
           /\ proposal' = [proposal EXCEPT ![r] = proposed]
           /\ \A q \in Requests \ {r} : todo'[q] = todo[q]
           /\ config' = [config EXCEPT ![r] = Blank]
           /\ UNCHANGED <<after, answer>>
    BY DEF Validate, TypeInv, TypeOK
  <1> QED
    BY <1>2, <1>3, <1>4

LEMMA WriteSingleOrderInv ==
  ASSUME TypeInv, OrderInv, NEW r \in Requests, NEW reg \in SingleRegs,
         WriteSingle(r, reg)
  PROVE  OrderInv'
  <1>1. UNCHANGED <<block, cacheVars>> /\ WeaklyOrdered(block') /\ pc[r] = "work"
        /\ reg # "volts"
    BY DEF WriteSingle, IsNext, OrderInv, DeviceOrdered, SingleRegs
  <1>2. CASE Answer(r, "failed", Blank)
    BY <1>1, <1>2, AnswerOrderInv, BlankOrdered
  <1>3. CASE Done(r, reg) /\ UNCHANGED <<pc, after, config, proposal, answer>>
    <2>1. ProposalsValid' /\ WritersHaveJob'
      BY <1>1, <1>3 DEF TypeInv, TypeOK, OrderInv, ProposalsValid, WritersHaveJob, Done
    <2> QED
      BY <1>1, <1>3, <2>1
      DEF OrderInv, DeviceOrdered, ReadingsOrdered, ConfigsOrdered, cacheVars
  <1> QED
    BY <1>2, <1>3 DEF WriteSingle

LEMMA CallOrderInv ==
  ASSUME TypeInv, OrderInv, NEW r \in Requests, StartBlock(r) \/ ReadBack(r)
  PROVE  OrderInv'
  <1>1. /\ UNCHANGED <<block, cacheVars, config, todo, proposal, answer>>
        /\ pc[r] = "work"
    BY DEF StartBlock, ReadBack, IsNext, device, plans
  <1>2. WritersHaveJob'
    BY DEF StartBlock, ReadBack, IsNext, CallCached, Goto, plans, TypeInv, TypeOK,
           OrderInv, WritersHaveJob
  <1> QED
    BY <1>1, <1>2
    DEF OrderInv, DeviceOrdered, ProposalsValid, ReadingsOrdered, ConfigsOrdered, cacheVars

\* The step all this is about.
LEMMA WriteBlockOrderInv ==
  ASSUME TypeInv, OrderInv, NEW r \in Requests, WriteBlock(r) PROVE OrderInv'
  <1> DEFINE merged == MergedBlock(proposal[r], config[r].volts)
  <1>1. pc[r] = "block" /\ "volts" \in todo[r]
    BY DEF WriteBlock, OrderInv, WritersHaveJob
  <1>2. /\ ValidVoltages(proposal[r]) /\ proposal[r] \in [VoltageParams -> Volts]
    BY <1>1 DEF OrderInv, ProposalsValid, TypeInv, TypeOK
  <1>3. merged = proposal[r]
    BY <1>2, NothingMerged
  <1>4. block' = Sent(r, merged) \/ block' = block
    BY DEF WriteBlock
  <1> HIDE DEF merged
  <1>5. WeaklyOrdered(block')
    BY <1>2, <1>3, <1>4, EncodeOrdered DEF Sent, OrderInv, DeviceOrdered
  <1>6. UNCHANGED cacheVars
    BY DEF WriteBlock
  <1>7. CASE Answer(r, "failed", Blank)
    BY <1>5, <1>6, <1>7, AnswerOrderInv, BlankOrdered
  <1>8. CASE /\ Done(r, "volts") /\ Goto(r, "work")
             /\ config' = [config EXCEPT ![r] = Blank]
             /\ UNCHANGED <<after, proposal, answer>>
    <2>1. ProposalsValid' /\ WritersHaveJob'
      BY <1>8
      DEF TypeInv, TypeOK, OrderInv, ProposalsValid, WritersHaveJob, Done, Goto
    <2>2. ReadingsOrdered'
      BY <1>8, BlankOrdered DEF TypeInv, TypeOK, OrderInv, ReadingsOrdered
    <2> QED
      BY <1>5, <1>6, <1>8, <2>1, <2>2
      DEF OrderInv, DeviceOrdered, ConfigsOrdered, cacheVars
  <1> QED
    BY <1>7, <1>8 DEF WriteBlock

LEMMA InvalidateOrderInv ==
  ASSUME TypeInv, OrderInv, NEW r \in Requests, NEW job \in {"drop", "dropType"},
         Invalidate(r, job)
  PROVE  OrderInv'
  <1>1. ProposalsValid' /\ WritersHaveJob'
    BY DEF Invalidate, IsNext, Done, TypeInv, TypeOK, OrderInv, ProposalsValid,
           WritersHaveJob
  <1> QED
    BY <1>1, BlankOrdered
    DEF Invalidate, OrderInv, DeviceOrdered, ReadingsOrdered, ConfigsOrdered, device

LEMMA ReadClockOrderInv ==
  ASSUME TypeInv, OrderInv, NEW r \in Requests, ReadClock(r) PROVE OrderInv'
  <1>1. UNCHANGED <<block, cacheVars>> /\ WeaklyOrdered(block')
    BY DEF ReadClock, OrderInv, DeviceOrdered, device
  <1>2. WeaklyOrdered([Blank EXCEPT !.regs["clock"] = regs["clock"]].volts)
    BY BlankOrdered DEF Blank
  <1> QED
    BY <1>1, <1>2, AnswerOrderInv, BlankOrdered DEF ReadClock

LEMMA ReplyOrderInv ==
  ASSUME TypeInv, OrderInv, NEW r \in Requests, Reply(r) PROVE OrderInv'
  BY AnswerOrderInv DEF Reply, OrderInv, DeviceOrdered, ReadingsOrdered, device

LEMMA StepOrderInv ==
  ASSUME TypeInv, OrderInv, NEW r \in Requests, Step(r) PROVE OrderInv'
  BY LookupOrderInv, FillOrderInv, StoreOrderInv, ReadTypeOrderInv, ValidateOrderInv,
     WriteSingleOrderInv, CallOrderInv, WriteBlockOrderInv, InvalidateOrderInv,
     ReadClockOrderInv, ReplyOrderInv
  DEF Step

LEMMA OrderInvariant == Spec => []OrderInv
  <1>1. Init => OrderInv
    <2> SUFFICES ASSUME Init PROVE OrderInv
      OBVIOUS
    <2>1. DeviceOrdered /\ ReadingsOrdered /\ ConfigsOrdered
      BY DeviceAssumption, BlankOrdered
      DEF Init, DeviceOrdered, ReadingsOrdered, ConfigsOrdered
    <2>2. ProposalsValid /\ WritersHaveJob
      BY DEF Init, ProposalsValid, WritersHaveJob
    <2> QED
      BY <2>1, <2>2 DEF OrderInv
  <1>2. TypeInv /\ OrderInv /\ [Next]_vars => OrderInv'
    <2> SUFFICES ASSUME TypeInv, OrderInv, [Next]_vars PROVE OrderInv'
      OBVIOUS
    <2>1. CASE \E r \in Requests : Step(r)
      BY <2>1, StepOrderInv
    <2>2. CASE \E r \in Requests, b \in Bodies : Arrive(r, b)
      BY <2>2, ReceiveOrderInv
    <2>3. CASE Expire
      BY <2>3, BlankOrdered
      DEF Expire, OrderInv, DeviceOrdered, ProposalsValid, WritersHaveJob,
          ReadingsOrdered, ConfigsOrdered, device, plans
    <2>4. CASE UNCHANGED vars
      BY <2>4
      DEF vars, OrderInv, DeviceOrdered, ProposalsValid, WritersHaveJob,
          ReadingsOrdered, ConfigsOrdered
    <2> QED
      BY <2>1, <2>2, <2>3, <2>4 DEF Next, AllAnswered
  <1> QED
    BY <1>1, <1>2, TypeCorrect, PTL DEF Spec

\* Whatever the requests, their order and the failures of the bus, the device's
\* thresholds are in order, and so is every configuration cached or answered.
THEOREM OrderHolds == Spec => [](DeviceOrdered /\ ConfigsOrdered)
  <1>1. OrderInv => DeviceOrdered /\ ConfigsOrdered
    BY DEF OrderInv
  <1> QED
    BY <1>1, OrderInvariant, PTL

-----------------------------------------------------------------------------
(***************************************************************************)
(* A rejected request changed nothing.  Until its last check a handler is  *)
(* reading, and has written nothing; once past it, it no longer rejects.   *)
(***************************************************************************)
Checking(r) ==
  \/ pc[r] \in {"idle", "readType", "validate"}
  \/ pc[r] \in {"lookup", "fill", "store"} /\ after[r] = "validate"

CheckingWroteNothing == \A r \in Requests : Checking(r) => wrote[r] = {}

AnsweredIsDone == \A r \in Requests : answer[r].status # "none" => pc[r] = "done"

RejectInv == CheckingWroteNothing /\ AnsweredIsDone /\ RejectedWroteNothing

\* A step of one handler has to be looked at only for that handler.
LEMMA LocalRejectInv ==
  ASSUME RejectInv, NEW r \in Requests,
         \A q \in Requests \ {r} :
            /\ pc'[q] = pc[q] /\ after'[q] = after[q]
            /\ wrote'[q] = wrote[q] /\ answer'[q] = answer[q],
         Checking(r)' => wrote'[r] = {},
         answer'[r].status # "none" => pc'[r] = "done",
         answer'[r].status = "rejected" => wrote'[r] = {}
  PROVE  RejectInv'
  <1>1. CheckingWroteNothing'
    BY DEF RejectInv, CheckingWroteNothing, Checking
  <1>2. AnsweredIsDone' /\ RejectedWroteNothing'
    BY DEF RejectInv, AnsweredIsDone, RejectedWroteNothing
  <1> QED
    BY <1>1, <1>2 DEF RejectInv

LEMMA AnswerRejectInv ==
  ASSUME TypeInv, RejectInv, NEW r \in Requests, NEW status, NEW reply,
         Answer(r, status, reply),
         \A q \in Requests \ {r} : wrote'[q] = wrote[q],
         status = "rejected" => wrote'[r] = {}
  PROVE  RejectInv'
  <1>1. \A q \in Requests \ {r} :
           pc'[q] = pc[q] /\ after'[q] = after[q] /\ answer'[q] = answer[q]
    BY DEF Answer, Goto, TypeInv, TypeOK
  <1>2. pc'[r] = "done" /\ answer'[r].status = status
    BY DEF Answer, Goto, TypeInv, TypeOK
  <1> QED
    BY <1>1, <1>2, LocalRejectInv DEF Checking

\* A handler that goes on: it has not answered, and if it is still checking it
\* was checking before.
LEMMA GoOnRejectInv ==
  ASSUME TypeInv, RejectInv, NEW r \in Requests, pc[r] # "done",
         NEW place, pc' = [pc EXCEPT ![r] = place],
         NEW resume, after' = [after EXCEPT ![r] = resume],
         UNCHANGED answer,
         \A q \in Requests \ {r} : wrote'[q] = wrote[q],
         Checking(r)' => Checking(r) /\ wrote'[r] = wrote[r]
  PROVE  RejectInv'
  <1>1. \A q \in Requests \ {r} :
           pc'[q] = pc[q] /\ after'[q] = after[q] /\ answer'[q] = answer[q]
    BY DEF TypeInv, TypeOK
  <1>2. answer[r].status = "none"
    BY DEF RejectInv, AnsweredIsDone
  <1>3. Checking(r)' => wrote'[r] = {}
    BY DEF RejectInv, CheckingWroteNothing
  <1> QED
    BY <1>1, <1>2, <1>3, LocalRejectInv

LEMMA ArriveRejectInv ==
  ASSUME TypeInv, RejectInv, NEW r \in Requests, NEW b \in Bodies, Arrive(r, b)
  PROVE  RejectInv'
  <1>1. pc[r] = "idle" /\ wrote[r] = {} /\ Checking(r) /\ wrote' = wrote
    BY DEF Arrive, CachedGet, ConfigGet, TimeGet, ChargingPatch, ProfilePatch,
           ConfigPatch, TimePatch, Receive, Accept, Reject, TypeInv, IdleIsClean,
           Checking, plans
  <1>2. CASE Reject(r, b)
    <2>1. /\ pc'[r] = "done"
          /\ \A q \in Requests \ {r} :
               pc'[q] = pc[q] /\ after'[q] = after[q] /\ answer'[q] = answer[q]
      BY <1>2 DEF Reject, Goto, TypeInv, TypeOK
    <2> QED
      BY <1>1, <2>1, LocalRejectInv DEF Checking
  <1>3. CASE /\ \E place : Goto(r, place)
             /\ \E resume : after' = [after EXCEPT ![r] = resume]
             /\ Accept(r, b)
    BY <1>1, <1>3, GoOnRejectInv DEF Goto, Accept
  <1>4. after = [after EXCEPT ![r] = after[r]]
    BY DEF TypeInv, TypeOK
  <1> QED
    BY <1>2, <1>3, <1>4
    DEF Arrive, CachedGet, ConfigGet, TimeGet, ChargingPatch, ProfilePatch, ConfigPatch,
        TimePatch, CallCached

LEMMA ReadingRejectInv ==
  ASSUME TypeInv, RejectInv, NEW r \in Requests,
         Lookup(r) \/ Fill(r) \/ Store(r) \/ ReadType(r)
  PROVE  RejectInv'
  <1>1. wrote' = wrote /\ pc[r] \in {"lookup", "fill", "store", "readType"}
    BY DEF Lookup, Fill, Store, ReadType, plans
  <1>2. CASE /\ Answer(r, "failed", Blank)
    BY <1>1, <1>2, AnswerRejectInv
  <1>3. CASE ReadType(r) /\ Answer(r, "rejected", Blank)
    <2>1. wrote[r] = {}
      BY <1>3 DEF ReadType, Checking, RejectInv, CheckingWroteNothing
    <2> QED
      BY <1>1, <1>3, <2>1, AnswerRejectInv
  <1>4. CASE /\ pc[r] \in {"lookup", "fill", "store"}
             /\ \E place \in {after[r], "fill", "store", "reply"} :
                  pc' = [pc EXCEPT ![r] = place]
             /\ UNCHANGED <<after, answer>>
    <2>1. PICK place \in {after[r], "fill", "store", "reply"} :
             pc' = [pc EXCEPT ![r] = place]
      BY <1>4
    <2>2. after' = [after EXCEPT ![r] = after[r]]
          /\ after[r] \in {"validate", "block", "reply"}
      BY <1>4 DEF TypeInv, TypeOK
    <2>3. pc'[r] = place /\ after'[r] = after[r]
      BY <2>1, <1>4 DEF TypeInv, TypeOK
    <2>4. Checking(r)' => Checking(r)
      BY <1>4, <2>2, <2>3 DEF Checking
    <2> QED
      BY <1>1, <2>1, <2>2, <2>4, <1>4, GoOnRejectInv
  <1>5. CASE /\ ReadType(r)
             /\ \E place : Goto(r, place)
             /\ \E resume : after' = [after EXCEPT ![r] = resume]
             /\ UNCHANGED answer
    <2>1. Checking(r)
      BY <1>5 DEF ReadType, Checking
    <2> QED
      BY <1>1, <1>5, <2>1, GoOnRejectInv DEF Goto
  <1>6. after = [after EXCEPT ![r] = after[r]] /\ pc = [pc EXCEPT ![r] = pc[r]]
    BY DEF TypeInv, TypeOK
  <1>7. CASE Lookup(r) \/ Store(r)
    BY <1>4, <1>7 DEF Lookup, Store, Goto
  <1>8. CASE Fill(r)
    BY <1>2, <1>4, <1>6, <1>8 DEF Fill, Goto
  <1>9. CASE ReadType(r)
    BY <1>2, <1>3, <1>5, <1>6, <1>9 DEF ReadType, CallCached
  <1> QED
    BY <1>7, <1>8, <1>9

LEMMA ValidateRejectInv ==
  ASSUME TypeInv, RejectInv, NEW r \in Requests, Validate(r)
  PROVE  RejectInv'
  <1>1. wrote' = wrote /\ wrote[r] = {} /\ pc[r] = "validate"
    BY DEF Validate, RejectInv, CheckingWroteNothing, Checking
  <1>2. CASE Answer(r, "rejected", Blank)
    BY <1>1, <1>2, AnswerRejectInv
  <1>3. CASE Goto(r, "work") /\ UNCHANGED <<after, answer>>
    <2>1. after' = [after EXCEPT ![r] = after[r]] /\ pc'[r] = "work"
      BY <1>3 DEF Goto, TypeInv, TypeOK
    <2> QED
      BY <1>1, <1>3, <2>1, GoOnRejectInv DEF Goto, Checking
  <1> QED
    BY <1>2, <1>3 DEF Validate

LEMMA WorkRejectInv ==
  ASSUME TypeInv, RejectInv, NEW r \in Requests,
         \/ \E reg \in SingleRegs : WriteSingle(r, reg)
         \/ StartBlock(r) \/ WriteBlock(r)
         \/ \E job \in {"drop", "dropType"} : Invalidate(r, job)
         \/ ReadBack(r) \/ ReadClock(r) \/ Reply(r)
  PROVE  RejectInv'
  <1>1. pc[r] \in {"work", "block", "clock", "reply"}
    BY DEF WriteSingle, StartBlock, WriteBlock, Invalidate, ReadBack, ReadClock, Reply, IsNext
  <1>2. \A q \in Requests \ {r} : wrote'[q] = wrote[q]
    BY DEF WriteSingle, StartBlock, WriteBlock, Invalidate, ReadBack, ReadClock, Reply,
           Written, plans, TypeInv, TypeOK
  <1>3. CASE \E status \in {"ok", "failed"} : \E reply : Answer(r, status, reply)
    BY <1>2, <1>3, AnswerRejectInv
  <1>4. CASE /\ \E place \in {"work", "clock"} : pc' = [pc EXCEPT ![r] = place]
             /\ UNCHANGED <<after, answer>>
    <2>1. after' = [after EXCEPT ![r] = after[r]] /\ pc'[r] \in {"work", "clock"}
      BY <1>4 DEF TypeInv, TypeOK
    <2> QED
      BY <1>1, <1>2, <1>4, <2>1, GoOnRejectInv DEF Checking
  <1>5. CASE /\ \E resume \in {"block", "reply"} : CallCached(r, resume)
             /\ UNCHANGED answer
    <2>1. PICK resume \in {"block", "reply"} : CallCached(r, resume)
      BY <1>5
    <2>2. pc'[r] = "lookup" /\ after'[r] = resume
      BY <2>1 DEF CallCached, Goto, TypeInv, TypeOK
    <2> QED
      BY <1>1, <1>2, <1>5, <2>1, <2>2, GoOnRejectInv DEF Checking, CallCached, Goto
  <1>6. CASE \E reg \in SingleRegs : WriteSingle(r, reg)
    <2>1. pc[r] = "work" => pc = [pc EXCEPT ![r] = "work"]
      BY DEF TypeInv, TypeOK
    <2> QED
      BY <1>3, <1>4, <1>6, <2>1 DEF WriteSingle, IsNext
  <1>7. CASE \E job \in {"drop", "dropType"} : Invalidate(r, job)
    <2>1. pc[r] = "work" => pc = [pc EXCEPT ![r] = "work"]
      BY DEF TypeInv, TypeOK
    <2> QED
      BY <1>4, <1>7, <2>1 DEF Invalidate, IsNext
  <1>8. CASE StartBlock(r) \/ ReadBack(r)
    BY <1>4, <1>5, <1>8 DEF StartBlock, ReadBack, Goto
  <1>9. CASE WriteBlock(r) \/ ReadClock(r) \/ Reply(r)
    BY <1>3, <1>4, <1>9 DEF WriteBlock, ReadClock, Reply, Goto
  <1> QED
    BY <1>6, <1>7, <1>8, <1>9

\* A request the API rejects has written nothing (configurer.go:411), whatever
\* runs beside it.
THEOREM RejectionHolds == Spec => []RejectedWroteNothing
  <1>1. Init => RejectInv
    BY DEF Init, RejectInv, CheckingWroteNothing, AnsweredIsDone, RejectedWroteNothing
  <1>2. TypeInv /\ RejectInv /\ [Next]_vars => RejectInv'
    <2> SUFFICES ASSUME TypeInv, RejectInv, [Next]_vars PROVE RejectInv'
      OBVIOUS
    <2>1. CASE \E r \in Requests : Step(r)
      BY <2>1, ReadingRejectInv, ValidateRejectInv, WorkRejectInv DEF Step
    <2>2. CASE \E r \in Requests, b \in Bodies : Arrive(r, b)
      BY <2>2, ArriveRejectInv
    <2>3. CASE Expire \/ UNCHANGED vars
      BY <2>3
      DEF Expire, vars, plans, RejectInv, CheckingWroteNothing, AnsweredIsDone,
          RejectedWroteNothing, Checking
    <2> QED
      BY <2>1, <2>2, <2>3 DEF Next, AllAnswered
  <1>3. RejectInv => RejectedWroteNothing
    BY DEF RejectInv
  <1> QED
    BY <1>1, <1>2, <1>3, TypeCorrect, PTL DEF Spec

\* What requests read, cache and answer is in order, too: no GET shows a mix of
\* two blocks (getConfig, configurer.go:149-268).
THEOREM ConfigsOrderHolds == Spec => []ConfigsOrdered
  <1>1. DeviceOrdered /\ ConfigsOrdered => ConfigsOrdered
    OBVIOUS
  <1> QED
    BY <1>1, OrderHolds, PTL
-----------------------------------------------------------------------------
(***************************************************************************)
(* An answer keeps its promise.  From its last check on, what a handler    *)
(* has written and what it has still to write is what it promises; when it *)
(* answers, nothing is left.                                               *)
(***************************************************************************)
Drops == {"drop", "dropType"}

Kept(place, resume, written, left, b, status) ==
  LET For(aim) == place \in {"lookup", "fill", "store"} /\ resume = aim
  IN  /\ place = "readType" =>
           /\ left = {}
           /\ b.op = "ChargingPatch" \/ (b.op = "ConfigPatch" /\ "type" \notin Asked(b))
      /\ place = "validate" \/ For("validate") => b.op \in {"ChargingPatch", "ConfigPatch"}
      /\ place \in {"idle", "readType", "validate"} \/ For("validate") => written = {}
      /\ place \in {"work", "block"} \/ For("block") =>
           written \cup (left \ Drops) \in Promised(b)
      /\ place = "block" \/ For("block") => "volts" \in left
      /\ place \in {"clock", "reply"} \/ For("reply") => written \in Promised(b)
      /\ b.op = "ConfigGet" => resume = "reply" /\ place \in {"fill", "store", "reply", "done"}
      /\ status = "ok" => written \in Promised(b)
      /\ status # "none" => place = "done"

PromiseInv ==
  \A r \in Requests :
    Kept(pc[r], after[r], wrote[r], todo[r], body[r], answer[r].status)

\* What the handlers that have checked their requests promise.
LEMMA JobsPromised ==
  ASSUME NEW b
  PROVE  /\ b.op = "ChargingPatch" => ChargingJobs(b) \ Drops \in Promised(b)
         /\ b.op = "ConfigPatch" => \A u \in BOOLEAN : ConfigJobs(b, u) \ Drops \in Promised(b)
         /\ b.op = "ConfigPatch" /\ "type" \notin Asked(b) => {} \in Promised(b)
         /\ b.op = "ProfilePatch" => WithDrop(Asked(b)) \ Drops \in Promised(b)
         /\ b.op = "TimePatch" /\ "clock" \in Asked(b)
              => WithDrop({"clock"}) \ Drops \in Promised(b)
         /\ b.op \in {"CachedGet", "ConfigGet", "TimeGet"} => {} \in Promised(b)
  <1>1. Asked(b) \cap Drops = {} /\ VoltsJob(b) \cap Drops = {}
    BY DEF Asked, FieldsOf, Durations, VoltsJob, Drops
  <1>2. \A writes : writes \cap Drops = {} => WithDrop(writes) \ Drops = writes
    BY DEF WithDrop, Drops
  <1>3. ASSUME b.op = "ChargingPatch" PROVE ChargingJobs(b) \ Drops \in Promised(b)
    <2>1. ChargingJobs(b) \ Drops = Asked(b) \cup VoltsJob(b)
      BY <1>1, <1>2 DEF ChargingJobs
    <2> QED
      BY <1>3, <2>1 DEF Promised
  <1>4. ASSUME b.op = "ConfigPatch", NEW u \in BOOLEAN
        PROVE  ConfigJobs(b, u) \ Drops \in Promised(b)
    BY <1>4 DEF Promised, Drops
  <1>5. ASSUME b.op = "ConfigPatch", "type" \notin Asked(b) PROVE {} \in Promised(b)
    <2>1. ConfigJobs(b, FALSE) \ Drops = {}
      BY <1>5 DEF ConfigJobs
    <2> QED
      BY <1>4, <1>5, <2>1
  <1>6. ASSUME b.op = "ProfilePatch" PROVE WithDrop(Asked(b)) \ Drops \in Promised(b)
    BY <1>1, <1>2, <1>6 DEF Promised
  <1>7. ASSUME b.op = "TimePatch", "clock" \in Asked(b)
        PROVE  WithDrop({"clock"}) \ Drops \in Promised(b)
    <2>1. Asked(b) = {"clock"}
      BY <1>7 DEF Asked, FieldsOf
    <2>2. WithDrop({"clock"}) \ Drops = {"clock"}
      BY DEF WithDrop, Drops
    <2> QED
      BY <1>7, <2>1, <2>2 DEF Promised
  <1>8. ASSUME b.op \in {"CachedGet", "ConfigGet", "TimeGet"} PROVE {} \in Promised(b)
    <2>1. Asked(b) = {}
      BY <1>8 DEF Asked, FieldsOf
    <2> QED
      BY <1>8, <2>1 DEF Promised
  <1> QED
    BY <1>3, <1>4, <1>5, <1>6, <1>7, <1>8

\* A step of one handler has to be looked at only for that handler.
LEMMA GoOnKept ==
  ASSUME TypeInv, PromiseInv, NEW r \in Requests, pc[r] # "done",
         NEW place, pc' = [pc EXCEPT ![r] = place],
         NEW resume, after' = [after EXCEPT ![r] = resume],
         NEW written, wrote' = [wrote EXCEPT ![r] = written],
         NEW left, todo' = [todo EXCEPT ![r] = left],
         NEW b, body' = [body EXCEPT ![r] = b],
         UNCHANGED answer,
         Kept(place, resume, written, left, b, "none")
  PROVE  PromiseInv'
  <1>1. answer[r].status = "none"
    BY DEF PromiseInv, Kept
  <1>2. /\ pc'[r] = place /\ after'[r] = resume /\ wrote'[r] = written
        /\ todo'[r] = left /\ body'[r] = b
        /\ \A q \in Requests \ {r} :
             /\ pc'[q] = pc[q] /\ after'[q] = after[q] /\ wrote'[q] = wrote[q]
             /\ todo'[q] = todo[q] /\ body'[q] = body[q]
    BY DEF TypeInv, TypeOK
  <1> SUFFICES ASSUME NEW q \in Requests
               PROVE  Kept(pc[q], after[q], wrote[q], todo[q], body[q], answer[q].status)'
    BY DEF PromiseInv
  <1>3. CASE q = r
    BY <1>1, <1>2, <1>3
  <1>4. CASE q # r
    BY <1>2, <1>4 DEF PromiseInv
  <1> QED
    BY <1>3, <1>4

LEMMA Same ==
  ASSUME TypeInv, NEW r \in Requests
  PROVE  /\ pc = [pc EXCEPT ![r] = pc[r]] /\ after = [after EXCEPT ![r] = after[r]]
         /\ wrote = [wrote EXCEPT ![r] = wrote[r]] /\ todo = [todo EXCEPT ![r] = todo[r]]
         /\ body = [body EXCEPT ![r] = body[r]]
  BY DEF TypeInv, TypeOK

LEMMA AnswerKept ==
  ASSUME TypeInv, PromiseInv, NEW r \in Requests, NEW status, NEW reply,
         Answer(r, status, reply),
         \A q \in Requests \ {r} : wrote'[q] = wrote[q],
         status = "ok" => wrote'[r] \in Promised(body[r])
  PROVE  PromiseInv'
  <1>1. /\ pc'[r] = "done" /\ answer'[r].status = status /\ body' = body
        /\ after'[r] = "reply"
        /\ \A q \in Requests \ {r} :
             /\ pc'[q] = pc[q] /\ after'[q] = after[q] /\ wrote'[q] = wrote[q]
             /\ todo'[q] = todo[q] /\ answer'[q] = answer[q]
    BY DEF TypeInv, TypeOK, Answer, Goto
  <1> SUFFICES ASSUME NEW q \in Requests
               PROVE  Kept(pc[q], after[q], wrote[q], todo[q], body[q], answer[q].status)'
    BY DEF PromiseInv
  <1>2. CASE q = r
    BY <1>1, <1>2 DEF Kept
  <1>3. CASE q # r
    BY <1>1, <1>3 DEF PromiseInv
  <1> QED
    BY <1>2, <1>3

\* A handler that is rejected at once has answered, and written nothing.
LEMMA RejectKept ==
  ASSUME TypeInv, PromiseInv, NEW r \in Requests, NEW b \in Bodies, Reject(r, b),
         pc[r] = "idle"
  PROVE  PromiseInv'
  <1>1. /\ pc'[r] = "done" /\ answer'[r].status = "rejected"
        /\ \A q \in Requests \ {r} :
             /\ pc'[q] = pc[q] /\ after'[q] = after[q] /\ wrote'[q] = wrote[q]
             /\ todo'[q] = todo[q] /\ body'[q] = body[q] /\ answer'[q] = answer[q]
    BY DEF TypeInv, TypeOK, Reject, Goto, plans
  <1>0. after'[r] = "reply"
    BY DEF Reject, TypeInv, IdleIsClean
  <1> SUFFICES ASSUME NEW q \in Requests
               PROVE  Kept(pc[q], after[q], wrote[q], todo[q], body[q], answer[q].status)'
    BY DEF PromiseInv
  <1>2. CASE q = r
    BY <1>0, <1>1, <1>2 DEF Kept
  <1>3. CASE q # r
    BY <1>1, <1>3 DEF PromiseInv
  <1> QED
    BY <1>2, <1>3

\* A request that is taken on: it has written nothing, and what it will do
\* without a further check is what it promises.
LEMMA AcceptKept ==
  ASSUME TypeInv, PromiseInv, NEW r \in Requests, NEW b \in Bodies, Accept(r, b),
         pc[r] = "idle",
         NEW place, Goto(r, place),
         NEW resume, after' = [after EXCEPT ![r] = resume],
         NEW left, todo' = [todo EXCEPT ![r] = left],
         Kept(place, resume, {}, left, b, "none")
  PROVE  PromiseInv'
  <1>1. wrote' = [wrote EXCEPT ![r] = {}]
    BY Same DEF Accept, TypeInv, IdleIsClean
  <1> QED
    BY <1>1, GoOnKept DEF Accept, Goto

LEMMA ArriveKept ==
  ASSUME TypeInv, PromiseInv, NEW r \in Requests, NEW b \in Bodies, Arrive(r, b)
  PROVE  PromiseInv'
  <1>1. pc[r] = "idle" /\ todo[r] = {} /\ after[r] = "reply"
    BY DEF Arrive, CachedGet, ConfigGet, TimeGet, ChargingPatch, ProfilePatch,
           ConfigPatch, TimePatch, Receive, TypeInv, IdleIsClean
  <1>2. CASE CachedGet(r, b)
    <2>1. Kept("lookup", "reply", {}, {}, b, "none")
      BY <1>2, JobsPromised DEF CachedGet, Receive, Kept
    <2>2. /\ Goto(r, "lookup") /\ after' = [after EXCEPT ![r] = "reply"]
          /\ todo' = [todo EXCEPT ![r] = {}] /\ Accept(r, b)
      BY <1>1, <1>2, Same DEF CachedGet, CallCached
    <2> QED
      BY <1>1, <2>1, <2>2, AcceptKept
  <1>3. CASE ConfigGet(r, b)
    <2>1. Kept("fill", "reply", {}, {}, b, "none")
      BY <1>3, JobsPromised DEF ConfigGet, Receive, Kept
    <2> QED
      BY <1>1, <1>3, <2>1, Same, AcceptKept DEF ConfigGet
  <1>9. CASE TimeGet(r, b)
    <2>1. Kept("clock", "reply", {}, {}, b, "none")
      BY <1>9, JobsPromised DEF TimeGet, Receive, Kept
    <2> QED
      BY <1>1, <1>9, <2>1, Same, AcceptKept DEF TimeGet
  <1>4. CASE ChargingPatch(r, b)
    <2>1. Kept("readType", "reply", {}, {}, b, "none")
      BY <1>4 DEF ChargingPatch, Receive, Kept
    <2> QED
      BY <1>1, <1>4, <2>1, Same, AcceptKept DEF ChargingPatch
  <1>5. ASSUME b.op # "ConfigGet", NEW left, {} \cup (left \ Drops) \in Promised(b),
               Goto(r, "work"), todo' = [todo EXCEPT ![r] = left], Accept(r, b), UNCHANGED after
        PROVE  PromiseInv'
    <2>1. Kept("work", "reply", {}, left, b, "none")
      BY <1>5 DEF Kept
    <2> QED
      BY <1>1, <1>5, <2>1, Same, AcceptKept
  <1>6. CASE ProfilePatch(r, b)
    <2>1. {} \cup (WithDrop(Asked(b)) \ Drops) \in Promised(b)
      BY <1>6, JobsPromised DEF ProfilePatch, Receive
    <2> QED
      BY <1>1, <1>5, <1>6, <2>1, RejectKept DEF ProfilePatch, Receive
  <1>7. CASE TimePatch(r, b)
    <2>1. ~Malformed(b) => {} \cup (WithDrop({"clock"}) \ Drops) \in Promised(b)
      BY <1>7, JobsPromised DEF TimePatch, Receive, Malformed
    <2> QED
      BY <1>1, <1>5, <1>7, <2>1, RejectKept DEF TimePatch, Receive
  <1>8. CASE ConfigPatch(r, b)
    <2>0. b.op = "ConfigPatch"
      BY <1>8 DEF ConfigPatch, Receive
    <2>1. CASE Malformed(b) /\ Reject(r, b)
      BY <1>1, <2>1, RejectKept
    <2>2. CASE "type" \notin Asked(b) /\ Goto(r, "readType") /\ Accept(r, b)
               /\ UNCHANGED <<after, todo>>
      <3>1. Kept("readType", "reply", {}, {}, b, "none")
        BY <2>0, <2>2 DEF Kept
      <3> QED
        BY <1>1, <2>2, <3>1, Same, AcceptKept
    <2>3. CASE CallCached(r, "validate") /\ Accept(r, b) /\ UNCHANGED todo
      <3>1. Kept("lookup", "validate", {}, {}, b, "none")
        BY <2>0 DEF Kept
      <3>2. /\ Goto(r, "lookup") /\ after' = [after EXCEPT ![r] = "validate"]
            /\ todo' = [todo EXCEPT ![r] = {}] /\ Accept(r, b)
        BY <1>1, <2>3, Same DEF CallCached
      <3> QED
        BY <1>1, <3>1, <3>2, AcceptKept
    <2>4. CASE Goto(r, "work") /\ todo' = [todo EXCEPT ![r] = ConfigJobs(b, FALSE)]
               /\ Accept(r, b) /\ UNCHANGED after
      BY <1>5, <2>0, <2>4, JobsPromised
    <2> QED
      BY <1>8, <2>1, <2>2, <2>3, <2>4 DEF ConfigPatch
  <1> QED
    BY <1>2, <1>3, <1>4, <1>6, <1>7, <1>8, <1>9 DEF Arrive

\* The handler's own share of the invariant, and what it leaves alone.
LEMMA OwnKept ==
  ASSUME PromiseInv, NEW r \in Requests
  PROVE  Kept(pc[r], after[r], wrote[r], todo[r], body[r], answer[r].status)
  BY DEF PromiseInv

LEMMA ReadingKept ==
  ASSUME TypeInv, PromiseInv, NEW r \in Requests, Lookup(r) \/ Fill(r) \/ Store(r)
  PROVE  PromiseInv'
  <1>1. wrote' = wrote /\ pc[r] \in {"lookup", "fill", "store"}
    BY DEF Lookup, Fill, Store, plans
  <1>2. CASE Answer(r, "failed", Blank)
    BY <1>1, <1>2, AnswerKept
  <1>3. ASSUME NEW place, pc' = [pc EXCEPT ![r] = place], UNCHANGED <<after, body, todo, answer>>,
               place \in {after[r], "store"} \/ (place = "fill" /\ pc[r] = "lookup")
                 \/ (place = "reply" /\ body[r].op = "ConfigGet") \/ place = pc[r]
        PROVE  PromiseInv'
    <2>1. Kept(place, after[r], wrote[r], todo[r], body[r], "none")
      BY <1>1, <1>3, OwnKept DEF Kept, TypeInv, TypeOK
    <2> QED
      BY <1>1, <1>3, <2>1, Same, GoOnKept
  <1>4. CASE Lookup(r)
    BY <1>3, <1>4 DEF Lookup, Goto, plans
  <1>5. CASE Store(r)
    BY <1>3, <1>5 DEF Store, Goto, plans
  <1>6. CASE Fill(r)
    <2>1. CASE UNCHANGED pc /\ UNCHANGED <<after, body, todo, answer>>
      BY <1>3, <2>1, Same
    <2>2. CASE Goto(r, IF body[r].op = "ConfigGet" THEN "reply" ELSE "store")
               /\ UNCHANGED <<after, body, todo, answer>>
      BY <1>3, <2>2 DEF Goto
    <2> QED
      BY <1>2, <1>6, <2>1, <2>2 DEF Fill
  <1> QED
    BY <1>4, <1>5, <1>6

LEMMA ReadTypeKept ==
  ASSUME TypeInv, PromiseInv, NEW r \in Requests, ReadType(r)
  PROVE  PromiseInv'
  <1>1. wrote' = wrote /\ pc[r] = "readType" /\ wrote[r] = {}
    BY OwnKept DEF ReadType, Kept
  <1>2. CASE \E status \in {"failed", "rejected"} : Answer(r, status, Blank)
    BY <1>1, <1>2, AnswerKept
  <1>3. CASE CallCached(r, "validate") /\ UNCHANGED <<body, todo, answer>>
    <2>1. Kept("lookup", "validate", wrote[r], todo[r], body[r], "none")
      BY <1>1, OwnKept DEF Kept
    <2> QED
      BY <1>1, <1>3, <2>1, Same, GoOnKept DEF CallCached, Goto
  <1>4. CASE /\ body[r].op = "ConfigPatch" /\ Goto(r, "work")
             /\ UNCHANGED <<after, body, todo, answer>> /\ todo[r] = {}
    <2>1. {} \in Promised(body[r])
      BY <1>1, <1>4, OwnKept, JobsPromised DEF Kept
    <2>2. Kept("work", after[r], wrote[r], todo[r], body[r], "none")
      BY <1>1, <1>4, <2>1 DEF Kept
    <2> QED
      BY <1>1, <1>4, <2>2, Same, GoOnKept DEF Goto
  <1>5. todo[r] = {}
    BY <1>1, OwnKept DEF Kept
  <1> QED
    BY <1>2, <1>3, <1>4, <1>5 DEF ReadType

LEMMA ValidateKept ==
  ASSUME TypeInv, PromiseInv, NEW r \in Requests, Validate(r)
  PROVE  PromiseInv'
  <1>1. wrote' = wrote /\ pc[r] = "validate"
    BY DEF Validate
  <1>2. wrote[r] = {} /\ body[r].op \in {"ChargingPatch", "ConfigPatch"}
    BY <1>1, OwnKept DEF Kept
  <1>3. CASE Answer(r, "rejected", Blank)
    BY <1>1, <1>3, AnswerKept
  <1>4. CASE ~Answer(r, "rejected", Blank)
    <2>1. PICK left : /\ todo' = [todo EXCEPT ![r] = left]
                      /\ left = IF body[r].op = "ChargingPatch"
                                THEN ChargingJobs(body[r]) ELSE ConfigJobs(body[r], TRUE)
                      /\ Goto(r, "work") /\ UNCHANGED <<after, body, answer>>
      BY <1>4 DEF Validate
    <2>2. left \ Drops \in Promised(body[r])
      BY <1>2, <2>1, JobsPromised
    <2>3. Kept("work", after[r], wrote[r], left, body[r], "none")
      BY <1>2, <2>2 DEF Kept
    <2> QED
      BY <1>1, <2>1, <2>3, Same, GoOnKept DEF Goto
  <1> QED
    BY <1>3, <1>4

\* A job that is done moves from what is left to what was written.
LEMMA DoneKept ==
  ASSUME TypeInv, PromiseInv, NEW r \in Requests, NEW job \in todo[r],
         pc[r] \in {"work", "block"}, pc' = [pc EXCEPT ![r] = "work"],
         Done(r, job), UNCHANGED <<after, body, answer>>,
         \/ job \in Drops /\ UNCHANGED wrote
         \/ job \notin Drops /\ Written(r, job)
  PROVE  PromiseInv'
  <1>1. wrote[r] \cup (todo[r] \ Drops) \in Promised(body[r]) /\ body[r].op # "ConfigGet"
    BY OwnKept DEF Kept
  <1>2. PICK written : /\ wrote' = [wrote EXCEPT ![r] = written]
                       /\ written = IF job \in Drops THEN wrote[r] ELSE wrote[r] \cup {job}
    BY Same DEF Written
  <1>3. written \cup ((todo[r] \ {job}) \ Drops) = wrote[r] \cup (todo[r] \ Drops)
    BY <1>2
  <1>4. Kept("work", after[r], written, todo[r] \ {job}, body[r], "none")
    BY <1>1, <1>3 DEF Kept
  <1> QED
    BY <1>2, <1>4, Same, GoOnKept DEF Done

LEMMA WriteKept ==
  ASSUME TypeInv, PromiseInv, NEW r \in Requests,
         (\E reg \in SingleRegs : WriteSingle(r, reg)) \/ WriteBlock(r)
  PROVE  PromiseInv'
  <1>1. \A q \in Requests \ {r} : wrote'[q] = wrote[q]
    BY DEF WriteSingle, WriteBlock, Written, TypeInv, TypeOK
  <1>2. CASE Answer(r, "failed", Blank)
    BY <1>1, <1>2, AnswerKept
  <1>3. CASE WriteBlock(r) /\ ~Answer(r, "failed", Blank)
    <2>1. /\ pc[r] = "block" /\ Done(r, "volts") /\ Goto(r, "work") /\ Written(r, "volts")
          /\ UNCHANGED <<after, body, answer>>
      BY <1>3 DEF WriteBlock
    <2>2. "volts" \in todo[r] /\ "volts" \notin Drops
      BY <2>1, OwnKept DEF Kept, Drops
    <2> QED
      BY <2>1, <2>2, DoneKept DEF Goto
  <1>4. ASSUME NEW reg \in SingleRegs, WriteSingle(r, reg), ~Answer(r, "failed", Blank)
        PROVE  PromiseInv'
    <2>1. /\ pc[r] = "work" /\ reg \in todo[r] /\ Done(r, reg) /\ Written(r, reg)
          /\ UNCHANGED <<pc, after, body, answer>>
      BY <1>4 DEF WriteSingle, IsNext
    <2>2. reg \notin Drops /\ pc' = [pc EXCEPT ![r] = "work"]
      BY <2>1, Same DEF SingleRegs, Drops
    <2> QED
      BY <2>1, <2>2, DoneKept
  <1> QED
    BY <1>2, <1>3, <1>4

LEMMA CallKept ==
  ASSUME TypeInv, PromiseInv, NEW r \in Requests,
         \/ StartBlock(r) \/ ReadBack(r)
         \/ \E job \in {"drop", "dropType"} : Invalidate(r, job)
  PROVE  PromiseInv'
  <1>1. /\ pc[r] = "work" /\ body[r].op # "ConfigGet"
        /\ wrote[r] \cup (todo[r] \ Drops) \in Promised(body[r])
    BY OwnKept DEF StartBlock, ReadBack, Invalidate, IsNext, Kept
  <1>2. CASE \E job \in {"drop", "dropType"} : Invalidate(r, job)
    <2>1. PICK job \in {"drop", "dropType"} : Invalidate(r, job)
      BY <1>2
    <2>2. /\ job \in todo[r] /\ Done(r, job) /\ UNCHANGED <<pc, after, body, answer, wrote>>
          /\ job \in Drops
      BY <2>1 DEF Invalidate, IsNext, Drops
    <2>3. pc' = [pc EXCEPT ![r] = "work"]
      BY <1>1, <2>2, Same
    <2> QED
      BY <1>1, <2>2, <2>3, DoneKept
  <1>3. CASE StartBlock(r)
    <2>1. /\ CallCached(r, "block") /\ "volts" \in todo[r]
          /\ UNCHANGED <<body, wrote, todo, answer>>
      BY <1>3 DEF StartBlock, IsNext, plans
    <2>2. Kept("lookup", "block", wrote[r], todo[r], body[r], "none")
      BY <1>1, <2>1 DEF Kept
    <2> QED
      BY <1>1, <2>1, <2>2, Same, GoOnKept DEF CallCached, Goto
  <1>4. CASE ReadBack(r)
    <2>1. todo[r] = {} /\ UNCHANGED <<body, wrote, todo, answer>>
      BY <1>4 DEF ReadBack, plans
    <2>2. wrote[r] \in Promised(body[r])
      BY <1>1, <2>1
    <2>3. CASE Goto(r, "clock") /\ UNCHANGED after
      <3>1. Kept("clock", after[r], wrote[r], todo[r], body[r], "none")
        BY <1>1, <2>2 DEF Kept
      <3> QED
        BY <1>1, <2>1, <2>3, <3>1, Same, GoOnKept DEF Goto
    <2>4. CASE CallCached(r, "reply")
      <3>1. Kept("lookup", "reply", wrote[r], todo[r], body[r], "none")
        BY <1>1, <2>2 DEF Kept
      <3> QED
        BY <1>1, <2>1, <2>4, <3>1, Same, GoOnKept DEF CallCached, Goto
    <2> QED
      BY <1>4, <2>3, <2>4 DEF ReadBack
  <1> QED
    BY <1>2, <1>3, <1>4

LEMMA LastKept ==
  ASSUME TypeInv, PromiseInv, NEW r \in Requests, ReadClock(r) \/ Reply(r)
  PROVE  PromiseInv'
  <1>1. wrote' = wrote /\ wrote[r] \in Promised(body[r])
    BY OwnKept DEF ReadClock, Reply, Kept
  <1>2. \E status, reply : Answer(r, status, reply)
    BY DEF ReadClock, Reply
  <1> QED
    BY <1>1, <1>2, AnswerKept

LEMMA PromiseInvariant == Spec => []PromiseInv
  <1>1. Init => PromiseInv
    BY DEF Init, PromiseInv, Kept, NoBody
  <1>2. TypeInv /\ PromiseInv /\ [Next]_vars => PromiseInv'
    <2> SUFFICES ASSUME TypeInv, PromiseInv, [Next]_vars PROVE PromiseInv'
      OBVIOUS
    <2>1. CASE \E r \in Requests : Step(r)
      BY <2>1, ReadingKept, ReadTypeKept, ValidateKept, WriteKept, CallKept, LastKept DEF Step
    <2>2. CASE \E r \in Requests, b \in Bodies : Arrive(r, b)
      BY <2>2, ArriveKept
    <2>3. CASE Expire \/ UNCHANGED vars
      BY <2>3 DEF Expire, vars, plans, PromiseInv
    <2> QED
      BY <2>1, <2>2, <2>3 DEF Next, AllAnswered
  <1> QED
    BY <1>1, <1>2, TypeCorrect, PTL DEF Spec

\* A 200 tells that every write of the request reached the device and nothing
\* else did, whichever operations failed (writeSingle, configurer.go:270-288).
THEOREM OkHolds == Spec => []OkMeansWritten
  <1>1. PromiseInv => OkMeansWritten
    BY DEF PromiseInv, Kept, OkMeansWritten
  <1> QED
    BY <1>1, PromiseInvariant, PTL

-----------------------------------------------------------------------------
(***************************************************************************)
(* Where settings come from.  What a handler carries along, in the         *)
(* configuration it has read, in the proposal made of it and in its        *)
(* answer, has a source, as the device and the cache have; and a source    *)
(* stays one, since nothing that was written is forgotten.                 *)
(***************************************************************************)
SourcesBy(written, bodies, p) ==
  LET setters == {r \in Requests : "volts" \in written[r] /\ p \in Overrides(bodies[r])}
  IN  UNION {Drifted(c) : c \in {InitialBlock[p]}
                                \cup {Encode[bodies[r].volts[p]] : r \in setters}}

Origins == [p \in VoltageParams |-> SourcesBy(wrote, body, p)]

TracedTo(o, volts) == \A p \in VoltageParams : volts[p] \in {Decode[c] : c \in o[p]}

\* What a handler holds of voltages, and what it has left in the answer.
Own(o, place, k, conf, proposed, left, b, written, shown) ==
  /\ shown = Blank.volts \/ TracedTo(o, shown)
  /\ place = "fill" /\ k >= 3 => TracedTo(o, conf.volts)
  /\ place \in {"store", "validate", "block", "reply"} => TracedTo(o, conf.volts)
  /\ place # "fill" => k = 0
  /\ "volts" \in left =>
       \A p \in VoltageParams : IF p \in Overrides(b) THEN proposed[p] = b.volts[p]
                                ELSE proposed[p] \in {Decode[c] : c \in o[p]}
  /\ "volts" \in written => \A p \in Overrides(b) : InBounds(b.volts[p])

RegGiven(written, bodies, s, v) ==
  v = InitialRegs[s] \/ \E r \in Requests : s \in written[r] /\ v = bodies[r].regs[s]

OwnInv ==
  \A r \in Requests : Own(Origins, pc[r], reads[r], config[r], proposal[r], todo[r],
                          body[r], wrote[r], answer[r].config.volts)

OriginInv ==
  /\ \A p \in VoltageParams : block[p] \in Origins[p]
  /\ \A s \in SingleRegs : RegGiven(wrote, body, s, regs[s])
  /\ cacheHit => TracedTo(Origins, cache.volts)
  /\ OwnInv

LEMMA OwnGrows ==
  ASSUME NEW o, NEW o2, \A p \in VoltageParams : o[p] \subseteq o2[p],
         NEW place, NEW k, NEW conf, NEW proposed, NEW left, NEW b, NEW written, NEW shown,
         Own(o, place, k, conf, proposed, left, b, written, shown)
  PROVE  Own(o2, place, k, conf, proposed, left, b, written, shown)
  <1>1. \A volts : TracedTo(o, volts) => TracedTo(o2, volts)
    BY DEF TracedTo
  <1>2. "volts" \in left =>
          \A p \in VoltageParams : IF p \in Overrides(b) THEN proposed[p] = b.volts[p]
                                   ELSE proposed[p] \in {Decode[c] : c \in o2[p]}
    BY DEF Own
  <1> QED
    BY <1>1, <1>2 DEF Own

\* The source of a voltage in words.
LEMMA SourceIs ==
  ASSUME NEW written, NEW bodies, NEW p, NEW c
  PROVE  c \in SourcesBy(written, bodies, p) <=>
           \/ c \in Drifted(InitialBlock[p])
           \/ \E r \in Requests : /\ "volts" \in written[r] /\ p \in Overrides(bodies[r])
                                  /\ c \in Drifted(Encode[bodies[r].volts[p]])
  BY DEF SourcesBy

\* Nothing that was once written is forgotten.
LEMMA OriginsGrow ==
  ASSUME \A q \in Requests : wrote[q] \subseteq wrote'[q] /\ (wrote[q] # {} => body'[q] = body[q])
  PROVE  /\ \A p \in VoltageParams : Origins[p] \subseteq Origins'[p]
         /\ \A s, v : RegGiven(wrote, body, s, v) => RegGiven(wrote', body', s, v)
  <1>1. ASSUME NEW p \in VoltageParams, NEW c \in SourcesBy(wrote, body, p)
        PROVE  c \in SourcesBy(wrote', body', p)
    <2>1. \/ c \in Drifted(InitialBlock[p])
          \/ \E r \in Requests : /\ "volts" \in wrote'[r] /\ p \in Overrides(body'[r])
                                 /\ c \in Drifted(Encode[body'[r].volts[p]])
      BY <1>1, SourceIs
    <2> QED
      BY <2>1, SourceIs
  <1>2. \A s, v : RegGiven(wrote, body, s, v) => RegGiven(wrote', body', s, v)
    BY DEF RegGiven
  <1> QED
    BY <1>1, <1>2 DEF Origins

\* A step of one handler has to be looked at only for that handler.
LEMMA LocalOrigin ==
  ASSUME TypeInv, OriginInv, NEW r \in Requests,
         \A q \in Requests \ {r} :
           /\ pc'[q] = pc[q] /\ reads'[q] = reads[q] /\ config'[q] = config[q]
           /\ proposal'[q] = proposal[q] /\ todo'[q] = todo[q] /\ body'[q] = body[q]
           /\ wrote'[q] = wrote[q] /\ answer'[q] = answer[q],
         wrote[r] \subseteq wrote'[r], wrote[r] # {} => body'[r] = body[r],
         block' = block \/ \A p \in VoltageParams : block'[p] \in Origins'[p],
         regs' = regs \/ \A s \in SingleRegs : RegGiven(wrote', body', s, regs'[s]),
         cacheHit' => (cacheHit /\ cache' = cache) \/ TracedTo(Origins, cache'.volts),
         Own(Origins, pc'[r], reads'[r], config'[r], proposal'[r], todo'[r], body'[r],
             wrote'[r], answer'[r].config.volts)
  PROVE  OriginInv'
  <1>1. /\ \A p \in VoltageParams : Origins[p] \subseteq Origins'[p]
        /\ \A s, v : RegGiven(wrote, body, s, v) => RegGiven(wrote', body', s, v)
    BY OriginsGrow
  <1>2. \A volts : TracedTo(Origins, volts) => TracedTo(Origins', volts)
    BY <1>1 DEF TracedTo
  <1>3. ASSUME NEW q \in Requests
        PROVE  Own(Origins', pc'[q], reads'[q], config'[q], proposal'[q], todo'[q], body'[q],
                   wrote'[q], answer'[q].config.volts)
    <2>1. Own(Origins, pc'[q], reads'[q], config'[q], proposal'[q], todo'[q], body'[q],
              wrote'[q], answer'[q].config.volts)
      BY DEF OriginInv, OwnInv
    <2> QED
      BY <1>1, <2>1, OwnGrows
  <1>4. \A p \in VoltageParams : block'[p] \in Origins'[p]
    BY <1>1 DEF OriginInv
  <1>5. \A s \in SingleRegs : RegGiven(wrote', body', s, regs'[s])
    <2>1. \A s \in SingleRegs : RegGiven(wrote, body, s, regs[s])
      BY DEF OriginInv
    <2> QED
      BY <1>1, <2>1
  <1>6. cacheHit' => TracedTo(Origins', cache'.volts)
    BY <1>2 DEF OriginInv
  <1>7. OwnInv'
    BY <1>3 DEF OwnInv
  <1> QED
    BY <1>4, <1>5, <1>6, <1>7 DEF OriginInv

LEMMA OwnOrigin ==
  ASSUME OriginInv, NEW r \in Requests
  PROVE  Own(Origins, pc[r], reads[r], config[r], proposal[r], todo[r], body[r], wrote[r],
             answer[r].config.volts)
  BY DEF OriginInv, OwnInv

LEMMA AnswerOrigin ==
  ASSUME TypeInv, OriginInv, NEW r \in Requests, NEW status, NEW reply,
         Answer(r, status, reply), UNCHANGED cacheVars,
         reply.volts = Blank.volts \/ TracedTo(Origins, reply.volts),
         \A q \in Requests \ {r} : wrote'[q] = wrote[q],
         wrote[r] \subseteq wrote'[r],
         "volts" \in wrote'[r] => \A p \in Overrides(body[r]) : InBounds(body[r].volts[p]),
         block' = block \/ \A p \in VoltageParams : block'[p] \in Origins'[p],
         regs' = regs \/ \A s \in SingleRegs : RegGiven(wrote', body', s, regs'[s])
  PROVE  OriginInv'
  <1>1. /\ pc'[r] = "done" /\ reads'[r] = 0 /\ todo'[r] = {} /\ body' = body
        /\ answer'[r].config.volts = reply.volts
        /\ \A q \in Requests \ {r} :
             /\ pc'[q] = pc[q] /\ reads'[q] = reads[q] /\ config'[q] = config[q]
             /\ proposal'[q] = proposal[q] /\ todo'[q] = todo[q] /\ answer'[q] = answer[q]
    BY DEF Answer, Goto, TypeInv, TypeOK
  <1>2. Own(Origins, pc'[r], reads'[r], config'[r], proposal'[r], todo'[r], body'[r],
            wrote'[r], answer'[r].config.volts)
    BY <1>1 DEF Own
  <1> QED
    BY <1>1, <1>2, LocalOrigin DEF cacheVars

\* A step that only moves a handler on.
LEMMA MoveOrigin ==
  ASSUME TypeInv, OriginInv, NEW r \in Requests, UNCHANGED <<regs, block, body, wrote, answer>>,
         NEW place, pc' = [pc EXCEPT ![r] = place],
         NEW k, reads' = [reads EXCEPT ![r] = k], place # "fill" => k = 0,
         NEW conf, config' = [config EXCEPT ![r] = conf],
         place = "fill" /\ k >= 3 => TracedTo(Origins, conf.volts),
         place \in {"store", "validate", "block", "reply"} => TracedTo(Origins, conf.volts),
         NEW left, todo' = [todo EXCEPT ![r] = left], left \subseteq todo[r],
         UNCHANGED proposal,
         cacheHit' => (cacheHit /\ cache' = cache) \/ TracedTo(Origins, cache'.volts)
  PROVE  OriginInv'
  <1>1. /\ pc'[r] = place /\ reads'[r] = k /\ config'[r] = conf /\ todo'[r] = left
        /\ \A q \in Requests \ {r} :
             /\ pc'[q] = pc[q] /\ reads'[q] = reads[q] /\ config'[q] = config[q]
             /\ todo'[q] = todo[q]
    BY DEF TypeInv, TypeOK
  <1>2. Own(Origins, pc'[r], reads'[r], config'[r], proposal'[r], todo'[r], body'[r],
            wrote'[r], answer'[r].config.volts)
    BY <1>1, OwnOrigin DEF Own
  <1> QED
    BY <1>1, <1>2, LocalOrigin

LEMMA ArriveOrigin ==
  ASSUME TypeInv, OriginInv, NEW r \in Requests, NEW b \in Bodies, Arrive(r, b)
  PROVE  OriginInv'
  <1>1. /\ pc[r] = "idle" /\ reads[r] = 0 /\ wrote[r] = {} /\ todo[r] = {}
        /\ Accept(r, b) \/ Reject(r, b)
    BY OwnOrigin
    DEF Arrive, CachedGet, ConfigGet, TimeGet, ChargingPatch, ProfilePatch, ConfigPatch,
        TimePatch, Receive, TypeInv, IdleIsClean, Own
  <1>2. /\ "volts" \notin WithDrop(Asked(b)) /\ "volts" \notin WithDrop({"clock"})
        /\ "volts" \notin ConfigJobs(b, FALSE)
    BY DEF WithDrop, Asked, FieldsOf, Durations, ConfigJobs
  <1>3. /\ UNCHANGED <<regs, block, cacheHit, cache, config, reads, wrote, proposal>>
        /\ body' = [body EXCEPT ![r] = b]
    BY DEF Arrive, CachedGet, ConfigGet, TimeGet, ChargingPatch, ProfilePatch, ConfigPatch,
           TimePatch, Accept, Reject, device, cacheVars, plans
  <1>4. \E place \in {"readType", "lookup", "fill", "clock", "work", "done"} : Goto(r, place)
    BY DEF Arrive, CachedGet, ConfigGet, TimeGet, ChargingPatch, ProfilePatch, ConfigPatch,
           TimePatch, Reject, CallCached
  <1>5. \/ todo' = todo
        \/ \E left : "volts" \notin left /\ todo' = [todo EXCEPT ![r] = left]
    BY <1>2 DEF Arrive, CachedGet, ConfigGet, TimeGet, ChargingPatch, ProfilePatch,
                ConfigPatch, TimePatch, Reject, plans
  <1>6. \/ answer' = answer
        \/ answer' = [answer EXCEPT ![r] = [status |-> "rejected", config |-> Blank]]
    BY <1>1 DEF Accept, Reject
  <1>7. /\ pc'[r] \in {"readType", "lookup", "fill", "clock", "work", "done"}
        /\ "volts" \notin todo'[r]
        /\ \A q \in Requests \ {r} :
             /\ pc'[q] = pc[q] /\ todo'[q] = todo[q] /\ body'[q] = body[q]
             /\ answer'[q] = answer[q]
        /\ answer'[r].config = answer[r].config \/ answer'[r].config = Blank
    BY <1>1, <1>3, <1>4, <1>5, <1>6 DEF Goto, TypeInv, TypeOK
  <1>8. Own(Origins, pc'[r], reads'[r], config'[r], proposal'[r], todo'[r], body'[r],
            wrote'[r], answer'[r].config.volts)
    BY <1>1, <1>3, <1>7, OwnOrigin DEF Own
  <1> QED
    BY <1>1, <1>3, <1>7, <1>8, LocalOrigin

LEMMA DeviceTraced ==
  ASSUME OriginInv PROVE TracedTo(Origins, DecodeBlock(block))
  BY DEF OriginInv, TracedTo, DecodeBlock

LEMMA LookupOrigin ==
  ASSUME TypeInv, OriginInv, NEW r \in Requests, Lookup(r) PROVE OriginInv'
  <1>1. /\ pc[r] = "lookup" /\ reads[r] = 0 /\ todo[r] \subseteq todo[r]
        /\ UNCHANGED <<regs, block, body, wrote, answer, proposal, cacheHit, cache>>
        /\ reads' = [reads EXCEPT ![r] = 0] /\ todo' = [todo EXCEPT ![r] = todo[r]]
        /\ config = [config EXCEPT ![r] = config[r]]
        /\ after[r] # "fill"
    BY OwnOrigin DEF Lookup, Own, device, cacheVars, plans, TypeInv, TypeOK
  <1>2. CASE cacheHit /\ config' = [config EXCEPT ![r] = cache] /\ Goto(r, after[r])
    <2>1. TracedTo(Origins, cache.volts)
      BY <1>2 DEF OriginInv
    <2> QED
      BY <1>1, <1>2, <2>1, MoveOrigin DEF Goto
  <1>3. CASE Goto(r, "fill") /\ config' = config
    <2>1. PICK k : k = 0 /\ ~(k >= 3)
      OBVIOUS
    <2>2. PICK place : place = "fill" /\ place \notin {"store", "validate", "block", "reply"}
      OBVIOUS
    <2>3. /\ pc' = [pc EXCEPT ![r] = place] /\ reads' = [reads EXCEPT ![r] = k]
          /\ config' = [config EXCEPT ![r] = config[r]]
          /\ cacheHit' => cacheHit /\ cache' = cache
      BY <1>1, <1>3, <2>1, <2>2 DEF Goto
    <2> QED
      BY <1>1, <2>1, <2>2, <2>3, MoveOrigin
  <1> QED
    BY <1>2, <1>3 DEF Lookup

LEMMA FillOrigin ==
  ASSUME TypeInv, OriginInv, NEW r \in Requests, Fill(r) PROVE OriginInv'
  <1>1. CASE Answer(r, "failed", Blank)
    BY <1>1, OwnOrigin, AnswerOrigin DEF Fill, device, Own
  <1>2. CASE ~Answer(r, "failed", Blank)
    <2> DEFINE c == ReadInto(config[r], ReadOrder[reads[r] + 1])
    <2>1. /\ pc[r] = "fill" /\ reads[r] \in 0..5 /\ todo[r] \subseteq todo[r]
          /\ config' = [config EXCEPT ![r] = c]
          /\ UNCHANGED <<regs, block, body, wrote, answer, proposal, cacheHit, cache>>
          /\ todo' = [todo EXCEPT ![r] = todo[r]]
      BY <1>2 DEF Fill, device, cacheVars, TypeInv, TypeOK
    <2>2. reads[r] + 1 >= 3 => TracedTo(Origins, c.volts)
      <3>1. CASE reads[r] = 2
        <4>1. ReadOrder[reads[r] + 1] = VoltageParams
          BY <3>1 DEF ReadOrder
        <4> QED
          BY <4>1, DeviceTraced DEF ReadInto
      <3>2. CASE reads[r] >= 3
        <4>1. TracedTo(Origins, config[r].volts)
          BY <2>1, <3>2, OwnOrigin DEF Own
        <4>2. c.volts = config[r].volts \/ c.volts = DecodeBlock(block)
          BY DEF ReadInto
        <4> QED
          BY <4>1, <4>2, DeviceTraced
      <3> QED
        BY <2>1, <3>1, <3>2
    <2> HIDE DEF c
    <2>3. CASE reads[r] < 5 /\ reads' = [reads EXCEPT ![r] = reads[r] + 1] /\ UNCHANGED pc
      <3>1. pc' = [pc EXCEPT ![r] = "fill"]
        BY <2>1, <2>3 DEF TypeInv, TypeOK
      <3>2. PICK k : k = reads[r] + 1
        OBVIOUS
      <3> QED
        BY <2>1, <2>2, <2>3, <3>1, <3>2, MoveOrigin
    <2>4. CASE /\ reads[r] = 5 /\ reads' = [reads EXCEPT ![r] = 0]
               /\ Goto(r, IF body[r].op = "ConfigGet" THEN "reply" ELSE "store")
      <3>1. TracedTo(Origins, c.volts)
        BY <2>1, <2>2, <2>4
      <3>2. PICK place \in {"reply", "store"} : pc' = [pc EXCEPT ![r] = place]
        BY <2>4 DEF Goto
      <3> QED
        BY <2>1, <2>4, <3>1, <3>2, MoveOrigin
    <2> QED
      BY <1>2, <2>3, <2>4 DEF Fill
  <1> QED
    BY <1>1, <1>2

LEMMA StoreOrigin ==
  ASSUME TypeInv, OriginInv, NEW r \in Requests, Store(r) PROVE OriginInv'
  <1>1. /\ pc[r] = "store" /\ reads[r] = 0 /\ TracedTo(Origins, config[r].volts)
        /\ cache' = config[r] /\ pc' = [pc EXCEPT ![r] = after[r]]
        /\ UNCHANGED <<regs, block, body, wrote, answer, proposal>>
        /\ reads' = [reads EXCEPT ![r] = 0] /\ todo' = [todo EXCEPT ![r] = todo[r]]
        /\ config' = [config EXCEPT ![r] = config[r]] /\ todo[r] \subseteq todo[r]
    BY OwnOrigin DEF Store, Own, Goto, device, plans, TypeInv, TypeOK
  <1> QED
    BY <1>1, MoveOrigin

LEMMA CallOrigin ==
  ASSUME TypeInv, OriginInv, NEW r \in Requests,
         \/ StartBlock(r) \/ ReadBack(r)
         \/ \E job \in {"drop", "dropType"} : Invalidate(r, job)
  PROVE  OriginInv'
  <1>1. /\ pc[r] = "work" /\ reads[r] = 0
        /\ UNCHANGED <<regs, block, body, wrote, answer, proposal>>
        /\ reads' = [reads EXCEPT ![r] = 0] /\ config' = [config EXCEPT ![r] = config[r]]
        /\ cacheHit' => cacheHit /\ cache' = cache
    BY OwnOrigin DEF StartBlock, ReadBack, Invalidate, IsNext, Own, device, cacheVars, plans,
                     TypeInv, TypeOK
  <1>2. \E place \in {"work", "lookup", "clock"} : pc' = [pc EXCEPT ![r] = place]
    BY <1>1 DEF StartBlock, ReadBack, Invalidate, CallCached, Goto, TypeInv, TypeOK
  <1>3. \E left : todo' = [todo EXCEPT ![r] = left] /\ left \subseteq todo[r]
    <2>1. todo = [todo EXCEPT ![r] = todo[r]] /\ todo[r] \subseteq todo[r]
      BY DEF TypeInv, TypeOK
    <2>2. \A job : todo[r] \ {job} \subseteq todo[r]
      OBVIOUS
    <2> QED
      BY <2>1, <2>2 DEF StartBlock, ReadBack, Invalidate, Done, plans
  <1> QED
    BY <1>1, <1>2, <1>3, MoveOrigin

LEMMA ReadTypeOrigin ==
  ASSUME TypeInv, OriginInv, NEW r \in Requests, ReadType(r) PROVE OriginInv'
  <1>1. /\ pc[r] = "readType" /\ reads[r] = 0 /\ todo[r] \subseteq todo[r]
        /\ UNCHANGED <<regs, block, cacheHit, cache, wrote>>
    BY OwnOrigin DEF ReadType, Own, device, cacheVars
  <1>2. ASSUME NEW status, Answer(r, status, Blank) PROVE OriginInv'
    BY <1>1, <1>2, OwnOrigin, AnswerOrigin DEF Own, cacheVars
  <1>3. CASE ~\E status : Answer(r, status, Blank)
    <2>1. /\ UNCHANGED <<body, answer, proposal>>
          /\ reads' = [reads EXCEPT ![r] = 0] /\ config' = [config EXCEPT ![r] = config[r]]
          /\ todo' = [todo EXCEPT ![r] = todo[r]]
          /\ \E place \in {"work", "lookup"} : pc' = [pc EXCEPT ![r] = place]
      BY <1>1, <1>3 DEF ReadType, CallCached, Goto, TypeInv, TypeOK
    <2> QED
      BY <1>1, <2>1, MoveOrigin
  <1> QED
    BY <1>2, <1>3

LEMMA ValidateOrigin ==
  ASSUME TypeInv, OriginInv, NEW r \in Requests, Validate(r) PROVE OriginInv'
  <1> DEFINE proposed == Proposal(body[r], config[r].volts)
  <1>1. /\ pc[r] = "validate" /\ reads[r] = 0 /\ TracedTo(Origins, config[r].volts)
        /\ UNCHANGED <<regs, block, cacheHit, cache, wrote>>
    BY OwnOrigin DEF Validate, Own, device, cacheVars
  <1>2. CASE Answer(r, "rejected", Blank)
    BY <1>1, <1>2, OwnOrigin, AnswerOrigin DEF Own, cacheVars
  <1>3. CASE ~Answer(r, "rejected", Blank)
    <2>1. /\ pc'[r] = "work" /\ proposal'[r] = proposed /\ UNCHANGED <<body, reads, answer>>
          /\ \A q \in Requests \ {r} :
               /\ pc'[q] = pc[q] /\ config'[q] = config[q] /\ proposal'[q] = proposal[q]
               /\ todo'[q] = todo[q]
      BY <1>3 DEF Validate, Goto, TypeInv, TypeOK
    <2>2. \A p \in VoltageParams :
            IF p \in Overrides(body[r]) THEN proposed[p] = body[r].volts[p]
            ELSE proposed[p] \in {Decode[c] : c \in Origins[p]}
      BY <1>1 DEF Proposal, TracedTo
    <2> HIDE DEF proposed
    <2>3. Own(Origins, pc'[r], reads'[r], config'[r], proposal'[r], todo'[r], body'[r],
              wrote'[r], answer'[r].config.volts)
      BY <1>1, <2>1, <2>2, OwnOrigin DEF Own
    <2> QED
      BY <1>1, <2>1, <2>3, LocalOrigin
  <1> QED
    BY <1>2, <1>3

LEMMA LastOrigin ==
  ASSUME TypeInv, OriginInv, NEW r \in Requests, ReadClock(r) \/ Reply(r)
  PROVE  OriginInv'
  <1>1. UNCHANGED <<regs, block, cacheHit, cache, wrote>>
    BY DEF ReadClock, Reply, device, cacheVars
  <1>2. \E status, reply : /\ Answer(r, status, reply)
                           /\ reply.volts = Blank.volts \/ TracedTo(Origins, reply.volts)
    <2>1. CASE ReadClock(r)
      <3>1. [Blank EXCEPT !.regs["clock"] = regs["clock"]].volts = Blank.volts
        BY DEF Blank
      <3> QED
        BY <2>1, <3>1 DEF ReadClock
    <2>2. CASE Reply(r)
      BY <2>2, OwnOrigin DEF Reply, Own
    <2> QED
      BY <2>1, <2>2
  <1> QED
    BY <1>1, <1>2, OwnOrigin, AnswerOrigin DEF Own, cacheVars

LEMMA WriteSingleOrigin ==
  ASSUME TypeInv, OriginInv, NEW r \in Requests, NEW reg \in SingleRegs, WriteSingle(r, reg)
  PROVE  OriginInv'
  <1>1. /\ pc[r] = "work" /\ reg # "volts" /\ UNCHANGED <<block, cacheHit, cache>>
        /\ todo[r] \ {reg} \subseteq todo[r]
    BY DEF WriteSingle, IsNext, cacheVars, SingleRegs
  <1>2. body' = body
    BY DEF WriteSingle, Answer
  <1>3. /\ \A q \in Requests \ {r} : wrote'[q] = wrote[q]
        /\ wrote[r] \subseteq wrote'[r]
        /\ "volts" \in wrote'[r] => "volts" \in wrote[r]
    BY <1>1 DEF WriteSingle, Written, TypeInv, TypeOK
  <1>4. regs' = regs \/ \A s \in SingleRegs : RegGiven(wrote', body', s, regs'[s])
    <2>1. CASE regs' = [regs EXCEPT ![reg] = body[r].regs[reg]] /\ Written(r, reg)
      <3>1. reg \in wrote'[r]
        BY <2>1 DEF Written, TypeInv, TypeOK
      <3>2. \A s \in SingleRegs : RegGiven(wrote', body', s, regs[s])
        BY <1>2, <1>3, OriginsGrow DEF OriginInv
      <3>3. RegGiven(wrote', body', reg, body[r].regs[reg])
        BY <1>2, <3>1 DEF RegGiven
      <3>4. \A s \in SingleRegs : regs'[s] = IF s = reg THEN body[r].regs[reg] ELSE regs[s]
        BY <2>1 DEF TypeInv, TypeOK
      <3> QED
        BY <3>2, <3>3, <3>4
    <2> QED
      BY <2>1 DEF WriteSingle
  <1>5. "volts" \in wrote[r] => \A p \in Overrides(body[r]) : InBounds(body[r].volts[p])
    BY OwnOrigin DEF Own
  <1>6. CASE Answer(r, "failed", Blank)
    BY <1>1, <1>3, <1>4, <1>5, <1>6, AnswerOrigin DEF cacheVars
  <1>7. CASE Done(r, reg) /\ UNCHANGED <<pc, body, config, reads, proposal, answer>>
    <2>1. /\ todo'[r] \subseteq todo[r]
          /\ \A q \in Requests \ {r} : todo'[q] = todo[q]
      BY <1>7 DEF Done, TypeInv, TypeOK
    <2>2. Own(Origins, pc'[r], reads'[r], config'[r], proposal'[r], todo'[r], body'[r],
              wrote'[r], answer'[r].config.volts)
      BY <1>3, <1>7, <2>1, OwnOrigin DEF Own
    <2> QED
      BY <1>1, <1>3, <1>4, <1>7, <2>1, <2>2, LocalOrigin
  <1> QED
    BY <1>6, <1>7 DEF WriteSingle

\* Reading a register and writing it back loses nothing the third time.
RewritingSettles ==
  \A c \in Registers : Rewritten(Rewritten(Rewritten(c))) = Rewritten(Rewritten(c))

LEMMA DriftCloses ==
  ASSUME RewritingSettles, NEW root \in Registers, NEW c \in Drifted(root),
         Decode[c] \in Settable
  PROVE  Encode[Decode[c]] \in Drifted(root)
  <1>1. Encode[Decode[c]] = Rewritten(c)
    BY DEF Rewritten
  <1>2. c = root \/ c = Rewritten(root) \/ c = Rewritten(Rewritten(root))
    BY DEF Drifted
  <1>3. Rewritten(Rewritten(Rewritten(root))) = Rewritten(Rewritten(root))
    BY DEF RewritingSettles
  <1> QED
    BY <1>1, <1>2, <1>3 DEF Drifted

\* A voltage that is only carried along stays with its source.
LEMMA OriginsClose ==
  ASSUME RewritingSettles, TypeInv, OriginInv, NEW p \in VoltageParams,
         NEW c \in Origins[p], Decode[c] \in Settable
  PROVE  Encode[Decode[c]] \in Origins[p]
  <1>1. Origins[p] = SourcesBy(wrote, body, p)
    BY DEF Origins
  <1>2. CASE c \in Drifted(InitialBlock[p])
    <2>1. InitialBlock[p] \in Registers
      BY DeviceAssumption
    <2> QED
      BY <1>1, <1>2, <2>1, DriftCloses, SourceIs
  <1>3. ASSUME NEW r \in Requests, "volts" \in wrote[r], p \in Overrides(body[r]),
               c \in Drifted(Encode[body[r].volts[p]])
        PROVE  Encode[Decode[c]] \in Origins[p]
    <2>1. InBounds(body[r].volts[p])
      BY <1>3, OwnOrigin DEF Own
    <2>2. body[r].volts[p] \in Volts
      BY <1>3, BodyType DEF TypeInv, Overrides, IsPartial
    <2>3. Encode[body[r].volts[p]] \in Registers
      BY <2>1, <2>2, ConversionAssumption DEF Settable
    <2> QED
      BY <1>1, <1>3, <2>3, DriftCloses, SourceIs
  <1> QED
    BY <1>1, <1>2, <1>3, SourceIs

LEMMA WriteBlockOrigin ==
  ASSUME RewritingSettles, TypeInv, OrderInv, OriginInv, NEW r \in Requests, WriteBlock(r)
  PROVE  OriginInv'
  <1> DEFINE merged == MergedBlock(proposal[r], config[r].volts)
  <1>1. /\ pc[r] = "block" /\ reads[r] = 0 /\ "volts" \in todo[r]
        /\ UNCHANGED <<regs, cacheHit, cache>>
    BY OwnOrigin DEF WriteBlock, OrderInv, WritersHaveJob, cacheVars, Own
  <1>2. ValidVoltages(proposal[r]) /\ proposal[r] \in [VoltageParams -> Volts]
    BY <1>1 DEF OrderInv, ProposalsValid, TypeInv, TypeOK
  <1>3. merged = proposal[r]
    BY <1>2, NothingMerged
  <1>4. body' = body
    BY DEF WriteBlock, Answer
  <1> DEFINE sent == block' = Sent(r, merged) /\ Written(r, "volts")
  <1>5. CASE sent
    <2>1. /\ \A q \in Requests \ {r} : wrote'[q] = wrote[q]
          /\ wrote[r] \subseteq wrote'[r] /\ "volts" \in wrote'[r]
      BY <1>5 DEF Written, TypeInv, TypeOK
    <2>2. \A p \in VoltageParams : Origins[p] \subseteq Origins'[p]
      BY <1>4, <2>1, OriginsGrow
    <2>3. \A p \in VoltageParams :
            IF p \in Overrides(body[r]) THEN proposal[r][p] = body[r].volts[p]
            ELSE proposal[r][p] \in {Decode[c] : c \in Origins[p]}
      BY <1>1, OwnOrigin DEF Own
    <2>4. \A p \in Overrides(body[r]) : p \in VoltageParams
      BY BodyType DEF TypeInv, Overrides, IsPartial, VoltageParams
    <2>5. \A p \in Overrides(body[r]) : InBounds(body[r].volts[p])
      BY <1>2, <2>3, <2>4 DEF ValidVoltages
    <2>6. ASSUME NEW p \in VoltageParams PROVE block'[p] \in Origins'[p]
      <3>1. block'[p] = Encode[proposal[r][p]] /\ proposal[r][p] \in Settable
        BY <1>2, <1>3, <1>5 DEF Sent, EncodeBlock, ValidVoltages, Settable
      <3>2. CASE p \in Overrides(body[r])
        <4>1. block'[p] = Encode[body[r].volts[p]]
          BY <2>3, <3>1, <3>2
        <4>2. block'[p] \in Drifted(Encode[body'[r].volts[p]])
          BY <1>4, <4>1 DEF Drifted
        <4>3. block'[p] \in SourcesBy(wrote', body', p)
          BY <1>4, <2>1, <3>2, <4>2, SourceIs
        <4> QED
          BY <4>3 DEF Origins
      <3>3. CASE p \notin Overrides(body[r])
        <4>1. PICK c \in Origins[p] : proposal[r][p] = Decode[c]
          BY <2>3, <3>3
        <4>2. block'[p] \in Origins[p]
          BY <3>1, <4>1, OriginsClose
        <4> QED
          BY <2>2, <4>2
      <3> QED
        BY <3>2, <3>3
    <2>7. CASE Answer(r, "failed", Blank)
      BY <1>1, <2>1, <2>5, <2>6, <2>7, AnswerOrigin DEF cacheVars
    <2>8. CASE /\ Done(r, "volts") /\ Goto(r, "work")
               /\ config' = [config EXCEPT ![r] = Blank]
               /\ UNCHANGED <<reads, proposal, answer>>
      <3>1. /\ pc'[r] = "work" /\ "volts" \notin todo'[r]
            /\ \A q \in Requests \ {r} :
                 /\ pc'[q] = pc[q] /\ todo'[q] = todo[q] /\ config'[q] = config[q]
        BY <2>8 DEF Done, Goto, TypeInv, TypeOK
      <3>2. Own(Origins, pc'[r], reads'[r], config'[r], proposal'[r], todo'[r], body'[r],
                wrote'[r], answer'[r].config.volts)
        BY <1>1, <1>4, <2>5, <2>8, <3>1, OwnOrigin DEF Own
      <3> QED
        BY <1>1, <1>4, <2>1, <2>6, <2>8, <3>1, <3>2, LocalOrigin
    <2> QED
      BY <2>7, <2>8 DEF WriteBlock
  <1>6. CASE Answer(r, "failed", Blank) /\ UNCHANGED <<block, wrote>>
    BY <1>1, <1>6, OwnOrigin, AnswerOrigin DEF cacheVars, Own
  <1> QED
    BY <1>5, <1>6 DEF WriteBlock

LEMMA StepOrigin ==
  ASSUME RewritingSettles, TypeInv, OrderInv, OriginInv, NEW r \in Requests, Step(r)
  PROVE  OriginInv'
  <1>1. CASE Lookup(r) \/ Fill(r) \/ Store(r) \/ ReadType(r) \/ Validate(r)
    BY <1>1, LookupOrigin, FillOrigin, StoreOrigin, ReadTypeOrigin, ValidateOrigin
  <1>2. CASE WriteBlock(r) \/ \E reg \in SingleRegs : WriteSingle(r, reg)
    BY <1>2, WriteBlockOrigin, WriteSingleOrigin
  <1>3. CASE \/ StartBlock(r) \/ ReadBack(r)
             \/ \E job \in {"drop", "dropType"} : Invalidate(r, job)
    BY <1>3, CallOrigin
  <1>4. CASE ReadClock(r) \/ Reply(r)
    BY <1>4, LastOrigin
  <1> QED
    BY <1>1, <1>2, <1>3, <1>4 DEF Step

LEMMA InitOrigin == Init => OriginInv
  <1> SUFFICES ASSUME Init PROVE OriginInv
    OBVIOUS
  <1>1. \A p \in VoltageParams : InitialBlock[p] \in Drifted(InitialBlock[p])
    BY DEF Drifted
  <1>2. \A p \in VoltageParams : block[p] \in SourcesBy(wrote, body, p)
    BY <1>1, SourceIs DEF Init
  <1>3. /\ \A s \in SingleRegs : RegGiven(wrote, body, s, regs[s])
        /\ ~cacheHit
    BY DEF Init, RegGiven
  <1>4. OwnInv
    BY DEF Init, OwnInv, Own
  <1> QED
    BY <1>2, <1>3, <1>4 DEF OriginInv, Origins

LEMMA UnchangedOrigin ==
  ASSUME OriginInv, cacheHit' => cacheHit /\ cache' = cache,
         UNCHANGED <<regs, block, pc, body, config, reads, plans, answer>>
  PROVE  OriginInv'
  <1>1. Origins' = Origins
    BY DEF Origins, plans
  <1> QED
    BY <1>1 DEF OriginInv, OwnInv, plans

LEMMA OriginInvariant == ASSUME RewritingSettles PROVE Spec => []OriginInv
  <1>1. TypeInv /\ OrderInv /\ OriginInv /\ [Next]_vars => OriginInv'
    <2> SUFFICES ASSUME TypeInv, OrderInv, OriginInv, [Next]_vars PROVE OriginInv'
      OBVIOUS
    <2>1. CASE \E r \in Requests : Step(r)
      BY <2>1, StepOrigin
    <2>2. CASE \E r \in Requests, b \in Bodies : Arrive(r, b)
      BY <2>2, ArriveOrigin
    <2>3. CASE Expire
      BY <2>3, UnchangedOrigin DEF Expire, device
    <2>4. CASE UNCHANGED vars
      BY <2>4, UnchangedOrigin DEF vars, plans
    <2> QED
      BY <2>1, <2>2, <2>3, <2>4 DEF Next, AllAnswered
  <1> QED
    BY <1>1, InitOrigin, TypeCorrect, OrderInvariant, PTL DEF Spec

\* If the conversion settles, then whatever handlers do to each other's writes, and
\* whatever fails, they bring back only what somebody had set.
THEOREM NothingInventedHolds ==
  ASSUME RewritingSettles
  PROVE  Spec => []NothingInvented
  <1>1. OriginInv => NothingInvented
    <2>1. \A p \in VoltageParams : Origins[p] = Sources(p)
      BY DEF Origins, SourcesBy, Sources
    <2>2. \A volts : TracedTo(Origins, volts) => Traced(volts)
      BY <2>1 DEF TracedTo, Traced
    <2> SUFFICES ASSUME OriginInv PROVE NothingInvented
      OBVIOUS
    <2>3. \A r \in Requests : \/ answer[r].config.volts = Blank.volts
                              \/ TracedTo(Origins, answer[r].config.volts)
      BY OwnOrigin DEF Own
    <2> QED
      BY <2>1, <2>2, <2>3 DEF OriginInv, NothingInvented, RegGiven
  <1> QED
    BY <1>1, OriginInvariant, PTL
=============================================================================
