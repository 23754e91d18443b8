-------------------------- MODULE LoneClient_proof --------------------------
(***************************************************************************)
(* What Configurer promises a client that sends its requests one at a      *)
(* time.  The invariant has two layers.  LoneInv needs only that one       *)
(* request is in flight; with it a PATCH shows what it wrote and charging  *)
(* parameters change only under a userDefined battery, however the bus     *)
(* fails.  CacheInv needs a bus that does not fail as well: a write whose  *)
(* acknowledgement is lost changes the device and leaves the cache as it   *)
(* was.  With both the configuration API is a store of settings that       *)
(* handles each request in one step (SettingsStore).                       *)
(***************************************************************************)
EXTENDS Configurer_proof, FiniteSetTheorems

\* The handler calls for a configuration, to resume at aim.
For(r, aim) == pc[r] \in {"lookup", "fill", "store"} /\ after[r] = aim

Fresh == cacheHit => cache = DeviceConfig

\* c agrees with the device in the first k register blocks getConfig reads.
Follows(c, k) ==
  /\ \A i \in 1..k : \A s \in ReadOrder[i] \cap SingleRegs : c.regs[s] = regs[s]
  /\ k >= 3 => c.volts = DecodeBlock(block)

\* While a lone handler reads, nothing changes what it has read.
ReadsFollow(r) ==
  /\ pc[r] = "fill" => Follows(config[r], reads[r])
  /\ pc[r] = "store" => config[r] = DeviceConfig

\* Whatever is left to write is followed by an invalidation of the cache.
DropsPlanned(r) ==
  /\ pc[r] \in {"work", "block"} \/ For(r, "block") \/ todo[r] = {}
  /\ todo[r] # {} =>
       \/ "drop" \in todo[r]
       \/ "dropType" \in todo[r] /\ todo[r] \subseteq {"type", "dropType"}

\* What the handler wrote is on the device, and its proposal has the voltages
\* of its request.
Applied(r) ==
  /\ \A s \in wrote[r] \cap SingleRegs : regs[s] = body[r].regs[s]
  /\ "volts" \in wrote[r] =>
       \A p \in Overrides(body[r]) : block[p] = Encode[body[r].volts[p]]
  /\ "volts" \in todo[r] =>
       \A p \in Overrides(body[r]) : proposal[r][p] = body[r].volts[p]

\* Once its writes are made and the cache is invalidated, it reads the device.
ShowsDevice(r) ==
  /\ wrote[r] # {} /\ todo[r] \cap Drops = {} => Fresh
  /\ wrote[r] # {} /\ pc[r] = "reply" => config[r] = DeviceConfig
  /\ pc[r] = "clock" => body[r].op \in {"TimeGet", "TimePatch"}

SetsType(b) == b.op = "ConfigPatch" /\ "type" \in Asked(b)

\* The battery type a handler has checked is still the device's, or the one it
\* is about to write.
TypeFirst(r) ==
  /\ pc[r] = "validate" \/ For(r, "validate") =>
       IF SetsType(body[r]) THEN body[r].regs["type"] = UserDefined
                            ELSE regs["type"] = UserDefined
  /\ todo[r] \cap (Durations \cup {"volts"}) # {} =>
       IF "type" \in todo[r] THEN body[r].regs["type"] = UserDefined
                             ELSE regs["type"] = UserDefined
  /\ pc[r] = "block" \/ For(r, "block") => "type" \notin todo[r]

Alone(r) ==
  ReadsFollow(r) /\ DropsPlanned(r) /\ Applied(r) /\ ShowsDevice(r) /\ TypeFirst(r)

LoneInv ==
  /\ \A q, r \in InFlight : q = r
  /\ \A r \in Requests : pc[r] \in {"idle", "done"} => todo[r] = {}
  /\ \A r \in Requests : pc[r] # "fill" => reads[r] = 0
  /\ \A r \in InFlight : Alone(r)

\* All that is known of a state.
Known == TypeInv /\ OrderInv /\ PromiseInv /\ LoneInv

-----------------------------------------------------------------------------
\* A request is received only when none is in flight.
LEMMA ReceiveQuiet ==
  ASSUME MaxInFlight = 1, LoneInv, NEW r \in Requests, NEW b, NEW op, Receive(r, b, op)
  PROVE  InFlight = {}
  <1>1. IsFiniteSet(InFlight)
    <2>1. CASE InFlight = {}
      BY <2>1, FS_EmptySet
    <2>2. CASE InFlight # {}
      <3>1. PICK q \in InFlight : TRUE
        BY <2>2
      <3>2. InFlight = {q}
        BY <3>1 DEF LoneInv
      <3> QED
        BY <3>2, FS_Singleton
    <2> QED
      BY <2>1, <2>2
  <1>2. Cardinality(InFlight) = 0
    BY <1>1, FS_CardinalityType DEF Receive
  <1> QED
    BY <1>1, <1>2, FS_EmptySet

\* A step of the only handler has to be looked at only for that handler.
LEMMA LocalLone ==
  ASSUME TypeInv, LoneInv, NEW r \in Requests, InFlight \subseteq {r},
         \A q \in Requests \ {r} :
           pc'[q] = pc[q] /\ todo'[q] = todo[q] /\ reads'[q] = reads[q],
         pc'[r] \in {"idle", "done"} => todo'[r] = {},
         pc'[r] # "fill" => reads'[r] = 0,
         pc'[r] \notin {"idle", "done"} => Alone(r)'
  PROVE  LoneInv'
  <1>1. InFlight' \subseteq {r}
    BY DEF InFlight
  <1>2. \A q \in InFlight' : Alone(q)'
    BY <1>1 DEF InFlight
  <1>3. \A q \in Requests : pc'[q] \in {"idle", "done"} => todo'[q] = {}
    BY DEF LoneInv
  <1>4. \A q \in Requests : pc'[q] # "fill" => reads'[q] = 0
    BY DEF LoneInv
  <1>5. \A p, q \in InFlight' : p = q
    BY <1>1
  <1> QED
    BY <1>2, <1>3, <1>4, <1>5 DEF LoneInv

LEMMA Sole ==
  ASSUME LoneInv, NEW r \in Requests, pc[r] \notin {"idle", "done"}
  PROVE  /\ InFlight \subseteq {r}
         /\ Alone(r)
         /\ pc[r] # "fill" => reads[r] = 0
  BY DEF LoneInv, InFlight

LEMMA AnswerLone ==
  ASSUME TypeInv, LoneInv, NEW r \in Requests, pc[r] \notin {"idle", "done"},
         NEW status, NEW reply, Answer(r, status, reply)
  PROVE  LoneInv'
  <1>1. /\ pc'[r] = "done" /\ todo'[r] = {} /\ reads'[r] = 0
        /\ \A q \in Requests \ {r} :
             pc'[q] = pc[q] /\ todo'[q] = todo[q] /\ reads'[q] = reads[q]
    BY DEF Answer, Goto, TypeInv, TypeOK
  <1>2. InFlight \subseteq {r}
    BY Sole
  <1>3. /\ pc'[r] \in {"idle", "done"} => todo'[r] = {}
        /\ pc'[r] # "fill" => reads'[r] = 0
        /\ pc'[r] \notin {"idle", "done"} => Alone(r)'
    BY <1>1
  <1> QED
    BY <1>1, <1>2, <1>3, LocalLone

\* A handler that goes on.
LEMMA GoOnLone ==
  ASSUME TypeInv, LoneInv, NEW r \in Requests, InFlight \subseteq {r},
         NEW place, place \notin {"idle", "done"}, pc' = [pc EXCEPT ![r] = place],
         NEW k, reads' = [reads EXCEPT ![r] = k], place # "fill" => k = 0,
         NEW left, todo' = [todo EXCEPT ![r] = left],
         Alone(r)'
  PROVE  LoneInv'
  <1>1. /\ pc'[r] = place /\ reads'[r] = k
        /\ \A q \in Requests \ {r} :
             pc'[q] = pc[q] /\ todo'[q] = todo[q] /\ reads'[q] = reads[q]
    BY DEF TypeInv, TypeOK
  <1> QED
    BY <1>1, LocalLone

\* What the provers need of Same again, for the variables it leaves out.
LEMMA SameReads ==
  ASSUME TypeInv, NEW r \in Requests
  PROVE  /\ reads = [reads EXCEPT ![r] = reads[r]] /\ reads[r] \in 0..5
         /\ config = [config EXCEPT ![r] = config[r]] /\ config[r] \in Config
  BY DEF TypeInv, TypeOK

-----------------------------------------------------------------------------
(***************************************************************************)
(* Reading the device.                                                     *)
(***************************************************************************)
LEMMA NothingReadYet == ASSUME NEW c PROVE Follows(c, 0)
  <1>1. 1..0 = {}
    OBVIOUS
  <1> QED
    BY <1>1 DEF Follows

LEMMA ReadsNext ==
  ASSUME TypeInv, NEW c \in Config, NEW k \in 0..5, Follows(c, k)
  PROVE  Follows(ReadInto(c, ReadOrder[k + 1]), k + 1)
  <1> DEFINE d == ReadInto(c, ReadOrder[k + 1])
  <1>1. ASSUME NEW i \in 1..(k + 1), NEW s \in ReadOrder[i] \cap SingleRegs
        PROVE  d.regs[s] = regs[s]
    <2>1. CASE s \in ReadOrder[k + 1]
      BY <2>1, <1>1 DEF ReadInto
    <2>2. CASE s \notin ReadOrder[k + 1]
      <3>1. i \in 1..k
        BY <2>2, <1>1
      <3> QED
        BY <2>2, <3>1, <1>1 DEF ReadInto, Follows
    <2> QED
      BY <2>1, <2>2
  <1>2. k + 1 >= 3 => d.volts = DecodeBlock(block)
    <2>1. CASE k = 2
      <3>1. ReadOrder[k + 1] = VoltageParams
        BY <2>1 DEF ReadOrder
      <3> QED
        BY <3>1 DEF ReadInto
    <2>2. CASE k >= 3
      BY <2>2 DEF ReadInto, Follows
    <2> QED
      BY <2>1, <2>2
  <1> QED
    BY <1>1, <1>2 DEF Follows

LEMMA AllRead ==
  ASSUME NEW c \in Config, TypeInv, Follows(c, 6)
  PROVE  c = DeviceConfig
  <1>1. \A s \in SingleRegs : \E i \in 1..6 : s \in ReadOrder[i]
    <2>1. 1 \in 1..6 /\ 2 \in 1..6 /\ 4 \in 1..6 /\ 5 \in 1..6 /\ 6 \in 1..6
      OBVIOUS
    <2>2. /\ ReadOrder[1] = {"type", "capacity", "tempComp"}
          /\ ReadOrder[2] = {"clock"} /\ ReadOrder[4] = {"eqCycle"}
          /\ ReadOrder[5] = {"eqDuration", "boostDuration"}
          /\ ReadOrder[6] = {"tempLimits"}
      BY DEF ReadOrder
    <2> QED
      BY <2>1, <2>2 DEF SingleRegs
  <1>2. \A s \in SingleRegs : c.regs[s] = regs[s]
    BY <1>1 DEF Follows
  <1>3. c.regs = regs
    BY <1>2 DEF Config, TypeInv, TypeOK
  <1>4. c.volts = DecodeBlock(block)
    BY DEF Follows
  <1>5. c = [regs |-> c.regs, volts |-> c.volts]
    BY DEF Config
  <1> QED
    BY <1>3, <1>4, <1>5 DEF DeviceConfig

LEMMA LookupLone ==
  ASSUME Known, NEW r \in Requests, Lookup(r) PROVE LoneInv'
  <1> USE DEF Known
  <1>1. /\ pc[r] = "lookup" /\ reads[r] = 0 /\ Alone(r) /\ InFlight \subseteq {r}
        /\ after[r] \in {"validate", "block", "reply"}
        /\ after'[r] = after[r]
        /\ UNCHANGED <<regs, block, cacheHit, cache, body, reads, proposal, todo, wrote>>
    BY Sole DEF Lookup, device, cacheVars, plans, TypeInv, TypeOK
  <1>2. PICK place \in {"fill", after[r]} :
           /\ pc' = [pc EXCEPT ![r] = place] /\ pc'[r] = place
           /\ place = after[r] => cacheHit /\ config'[r] = cache
    BY <1>1 DEF Lookup, Goto, TypeInv, TypeOK
  <1>3. ReadsFollow(r)'
    BY <1>1, <1>2, NothingReadYet DEF ReadsFollow, Follows
  <1>4. DropsPlanned(r)' /\ Applied(r)' /\ TypeFirst(r)'
    BY <1>1, <1>2 DEF Alone, DropsPlanned, Applied, TypeFirst, For
  <1>5. ShowsDevice(r)'
    BY <1>1, <1>2 DEF Alone, DropsPlanned, ShowsDevice, For, Fresh, DeviceConfig
  <1>6. Alone(r)'
    BY <1>3, <1>4, <1>5 DEF Alone
  <1> QED
    BY <1>1, <1>2, <1>6, Same, SameReads, GoOnLone

LEMMA FillLone ==
  ASSUME Known, NEW r \in Requests, Fill(r) PROVE LoneInv'
  <1> USE DEF Known
  <1>1. /\ pc[r] = "fill" /\ Alone(r) /\ InFlight \subseteq {r}
        /\ UNCHANGED <<regs, block, cacheHit, cache, wrote>>
    BY Sole DEF Fill, device, cacheVars
  <1>2. CASE Answer(r, "failed", Blank)
    BY <1>1, <1>2, AnswerLone
  <1>3. CASE ~Answer(r, "failed", Blank)
    <2> DEFINE c == ReadInto(config[r], ReadOrder[reads[r] + 1])
    <2>1. /\ config'[r] = c /\ c \in Config
          /\ UNCHANGED <<after, body, proposal, todo>>
      BY <1>3, SameReads, ReadIntoType DEF Fill, TypeInv, TypeOK
    <2>2. Follows(c, reads[r] + 1)
      BY <1>1, SameReads, ReadsNext DEF Alone, ReadsFollow
    <2> HIDE DEF c
    <2>3. CASE reads[r] < 5 /\ reads' = [reads EXCEPT ![r] = reads[r] + 1] /\ UNCHANGED pc
      <3>1. pc'[r] = "fill" /\ reads'[r] = reads[r] + 1
        BY <1>1, <2>3 DEF TypeInv, TypeOK
      <3>2. ReadsFollow(r)'
        BY <1>1, <2>1, <2>2, <3>1 DEF ReadsFollow, Follows
      <3>3. DropsPlanned(r)' /\ Applied(r)' /\ TypeFirst(r)' /\ ShowsDevice(r)'
        BY <1>1, <2>1, <3>1
        DEF Alone, DropsPlanned, Applied, TypeFirst, ShowsDevice, For, Fresh, DeviceConfig
      <3> QED
        BY <1>1, <2>1, <2>3, <3>1, <3>2, <3>3, Same, GoOnLone DEF Alone
    <2>4. CASE /\ reads[r] = 5 /\ reads' = [reads EXCEPT ![r] = 0]
               /\ Goto(r, IF body[r].op = "ConfigGet" THEN "reply" ELSE "store")
      <3>1. PICK place \in {"reply", "store"} :
               /\ pc' = [pc EXCEPT ![r] = place] /\ pc'[r] = place
               /\ place = "reply" => after[r] = "reply"
        BY <2>4, OwnKept DEF Goto, TypeInv, TypeOK, Kept
      <3>2. config'[r] = DeviceConfig
        BY <2>1, <2>2, <2>4, AllRead
      <3>3. ReadsFollow(r)' /\ ShowsDevice(r)'
        BY <1>1, <2>1, <3>1, <3>2
        DEF Alone, ReadsFollow, ShowsDevice, Fresh, DeviceConfig
      <3>4. Applied(r)'
        BY <1>1, <2>1 DEF Alone, Applied
      <3>5. DropsPlanned(r)' /\ TypeFirst(r)'
        BY <1>1, <2>1, <3>1 DEF Alone, DropsPlanned, TypeFirst, For
      <3> QED
        BY <1>1, <2>1, <2>4, <3>1, <3>3, <3>4, <3>5, Same, GoOnLone DEF Alone
    <2> QED
      BY <1>3, <2>3, <2>4 DEF Fill
  <1> QED
    BY <1>2, <1>3

LEMMA StoreLone ==
  ASSUME Known, NEW r \in Requests, Store(r) PROVE LoneInv'
  <1> USE DEF Known
  <1>1. /\ pc[r] = "store" /\ reads[r] = 0 /\ Alone(r) /\ InFlight \subseteq {r}
        /\ after[r] \in {"validate", "block", "reply"}
        /\ UNCHANGED <<regs, block, after, body, config, reads, proposal, todo, wrote>>
    BY Sole DEF Store, device, plans, TypeInv, TypeOK
  <1>2. pc' = [pc EXCEPT ![r] = after[r]] /\ pc'[r] = after[r] /\ cache' = config[r]
    BY DEF Store, Goto, TypeInv, TypeOK
  <1>3. config[r] = DeviceConfig
    BY <1>1 DEF Alone, ReadsFollow
  <1>4. ReadsFollow(r)' /\ ShowsDevice(r)'
    BY <1>1, <1>2, <1>3 DEF ReadsFollow, ShowsDevice, Fresh, DeviceConfig
  <1>5. DropsPlanned(r)' /\ Applied(r)' /\ TypeFirst(r)'
    BY <1>1, <1>2 DEF Alone, DropsPlanned, Applied, TypeFirst, For
  <1> QED
    BY <1>1, <1>2, <1>4, <1>5, Same, SameReads, GoOnLone DEF Alone

-----------------------------------------------------------------------------
(***************************************************************************)
(* Deciding and writing.                                                   *)
(***************************************************************************)
LEMMA ReadTypeLone ==
  ASSUME Known, NEW r \in Requests, ReadType(r) PROVE LoneInv'
  <1> USE DEF Known
  <1>1. /\ pc[r] = "readType" /\ reads[r] = 0 /\ InFlight \subseteq {r}
        /\ todo[r] = {} /\ wrote[r] = {}
        /\ UNCHANGED <<regs, wrote>>
    BY Sole, OwnKept DEF ReadType, device, Kept
  <1>2. CASE \E status, reply : Answer(r, status, reply)
    BY <1>1, <1>2, AnswerLone
  <1>3. CASE ~\E status, reply : Answer(r, status, reply)
    <2>1. UNCHANGED <<body, reads, todo>> /\ pc' = [pc EXCEPT ![r] = pc'[r]]
      BY <1>3 DEF ReadType, CallCached, Goto, TypeInv, TypeOK
    <2>2. \/ pc'[r] = "work"
          \/ pc'[r] = "lookup" /\ after'[r] = "validate" /\ regs["type"] = UserDefined
      BY <1>3 DEF ReadType, CallCached, Goto, TypeInv, TypeOK
    <2>3. SetsType(body[r]) => FALSE
      BY <1>1, OwnKept DEF Kept, SetsType
    <2>4. ReadsFollow(r)' /\ DropsPlanned(r)' /\ Applied(r)' /\ ShowsDevice(r)'
      BY <1>1, <2>1, <2>2 DEF ReadsFollow, DropsPlanned, Applied, ShowsDevice
    <2>5. TypeFirst(r)'
      BY <1>1, <2>1, <2>2, <2>3 DEF TypeFirst, For
    <2> QED
      BY <1>1, <2>1, <2>2, <2>4, <2>5, Same, SameReads, GoOnLone DEF Alone
  <1> QED
    BY <1>2, <1>3

\* The jobs a PATCH gives itself end with an invalidation of the cache, and
\* have a charging parameter only where the type is in order.
LEMMA JobsLone ==
  ASSUME NEW b, NEW u \in BOOLEAN
  PROVE  /\ ChargingJobs(b) # {} => "drop" \in ChargingJobs(b)
         /\ b.op = "ChargingPatch" => "type" \notin ChargingJobs(b)
         /\ ConfigJobs(b, TRUE) # {} => "drop" \in ConfigJobs(b, TRUE)
         /\ "type" \in ConfigJobs(b, u) <=> "type" \in Asked(b)
         /\ ConfigJobs(b, FALSE) # {} =>
              /\ "dropType" \in ConfigJobs(b, FALSE)
              /\ ConfigJobs(b, FALSE) = {"type", "dropType"}
         /\ WithDrop(Asked(b)) # {} => "drop" \in WithDrop(Asked(b))
         /\ b.op = "ProfilePatch" =>
              WithDrop(Asked(b)) \cap (Durations \cup {"volts"}) = {}
  <1>1. VoltsJob(b) \subseteq {"volts"} /\ "type" \notin Durations
    BY DEF VoltsJob, Durations
  <1>2. b.op = "ChargingPatch" => Asked(b) \subseteq Durations
    BY DEF Asked, FieldsOf
  <1>3. b.op = "ProfilePatch" => Asked(b) \subseteq {"type", "capacity", "tempComp"}
    BY DEF Asked, FieldsOf
  <1>4. b.op = "ProfilePatch" =>
              WithDrop(Asked(b)) \cap (Durations \cup {"volts"}) = {}
    BY <1>3 DEF WithDrop, Durations
  <1>5. "type" \in ConfigJobs(b, u) <=> "type" \in Asked(b)
    BY <1>1 DEF ConfigJobs
  <1>6. b.op = "ChargingPatch" => "type" \notin ChargingJobs(b)
    BY <1>1, <1>2 DEF ChargingJobs, WithDrop
  <1> QED
    BY <1>4, <1>5, <1>6 DEF ChargingJobs, ConfigJobs, WithDrop

LEMMA ValidateLone ==
  ASSUME Known, NEW r \in Requests, Validate(r) PROVE LoneInv'
  <1> USE DEF Known
  <1> DEFINE b == body[r]
             proposed == Proposal(b, config[r].volts)
  <1>1. /\ pc[r] = "validate" /\ reads[r] = 0 /\ InFlight \subseteq {r} /\ Alone(r)
        /\ todo[r] = {} /\ wrote[r] = {} /\ b.op \in {"ChargingPatch", "ConfigPatch"}
        /\ UNCHANGED <<regs, wrote>>
    BY Sole, OwnKept DEF Validate, device, Kept, Alone, DropsPlanned, For
  <1>2. CASE Answer(r, "rejected", Blank)
    BY <1>1, <1>2, AnswerLone
  <1>3. CASE ~Answer(r, "rejected", Blank)
    <2>1. PICK jobs : /\ todo' = [todo EXCEPT ![r] = jobs]
                      /\ jobs = IF b.op = "ChargingPatch" THEN ChargingJobs(b)
                                                         ELSE ConfigJobs(b, TRUE)
      BY <1>3 DEF Validate
    <2>2. /\ pc' = [pc EXCEPT ![r] = "work"] /\ pc'[r] = "work" /\ todo'[r] = jobs
          /\ proposal'[r] = proposed
          /\ UNCHANGED <<body, reads>>
      BY <1>3, <2>1 DEF Validate, Goto, TypeInv, TypeOK
    <2>3. \A p \in Overrides(b) : proposed[p] = b.volts[p]
      <3>1. Overrides(b) \subseteq VoltageParams
        BY BodyType DEF TypeInv, IsPartial, Overrides, VoltageParams
      <3> QED
        BY <3>1 DEF Proposal
    <2>4. IF SetsType(b) THEN b.regs["type"] = UserDefined
                         ELSE regs["type"] = UserDefined
      BY <1>1 DEF Alone, TypeFirst
    <2>5. (jobs # {} => "drop" \in jobs) /\ ("type" \in jobs <=> SetsType(b))
      BY <1>1, <2>1, JobsLone DEF SetsType
    <2> HIDE DEF proposed, b
    <2>6. ReadsFollow(r)' /\ DropsPlanned(r)' /\ ShowsDevice(r)'
      BY <1>1, <2>2, <2>5 DEF ReadsFollow, DropsPlanned, ShowsDevice
    <2>7. Applied(r)'
      BY <1>1, <2>2, <2>3 DEF Applied, b
    <2>8. TypeFirst(r)'
      BY <1>1, <2>2, <2>4, <2>5 DEF TypeFirst, For, b
    <2> QED
      BY <1>1, <2>1, <2>2, <2>6, <2>7, <2>8, SameReads, GoOnLone DEF Alone
  <1> QED
    BY <1>2, <1>3

LEMMA WriteSingleLone ==
  ASSUME Known, NEW r \in Requests, NEW reg \in SingleRegs, WriteSingle(r, reg)
  PROVE  LoneInv'
  <1> USE DEF Known
  <1>1. /\ pc[r] = "work" /\ reads[r] = 0 /\ InFlight \subseteq {r} /\ Alone(r)
        /\ reg \in todo[r] /\ UNCHANGED block
    BY Sole DEF WriteSingle, IsNext
  <1>2. CASE Answer(r, "failed", Blank)
    BY <1>1, <1>2, AnswerLone
  <1>3. CASE ~Answer(r, "failed", Blank)
    <2>1. /\ pc'[r] = "work" /\ todo' = [todo EXCEPT ![r] = todo[r] \ {reg}]
          /\ todo'[r] = todo[r] \ {reg} /\ wrote'[r] = wrote[r] \cup {reg}
          /\ UNCHANGED <<pc, body, reads, proposal>>
      BY <1>1, <1>3 DEF WriteSingle, Done, Written, TypeInv, TypeOK
    <2>2. /\ regs'[reg] = body[r].regs[reg]
          /\ \A s \in SingleRegs \ {reg} : regs'[s] = regs[s]
      BY <1>3 DEF WriteSingle, TypeInv, TypeOK
    <2>3. reg \notin Drops /\ "volts" \notin SingleRegs /\ "type" \in SingleRegs
      BY DEF SingleRegs, Drops
    <2>4. "type" \in todo'[r] <=> "type" \in todo[r] /\ reg # "type"
      BY <2>1
    <2>5. todo'[r] \cap Drops # {}
      BY <1>1, <2>1, <2>3 DEF Alone, DropsPlanned, Drops
    <2>6. ReadsFollow(r)' /\ DropsPlanned(r)' /\ ShowsDevice(r)'
      BY <1>1, <2>1, <2>3, <2>5 DEF Alone, ReadsFollow, DropsPlanned, ShowsDevice, Drops
    <2>7. Applied(r)'
      BY <1>1, <2>1, <2>2, <2>3 DEF Alone, Applied
    <2>8. TypeFirst(r)'
      BY <1>1, <2>1, <2>2, <2>3, <2>4 DEF Alone, TypeFirst, For
    <2> QED
      BY <1>1, <2>1, <2>6, <2>7, <2>8, Same, SameReads, GoOnLone DEF Alone
  <1> QED
    BY <1>2, <1>3

LEMMA CallLone ==
  ASSUME Known, NEW r \in Requests, StartBlock(r) \/ ReadBack(r)
  PROVE  LoneInv'
  <1> USE DEF Known
  <1>1. /\ pc[r] = "work" /\ reads[r] = 0 /\ InFlight \subseteq {r} /\ Alone(r)
        /\ UNCHANGED <<regs, block, cacheHit, cache, body, config, reads, proposal,
                       todo, wrote>>
    BY Sole DEF StartBlock, ReadBack, IsNext, device, cacheVars, plans
  <1>2. \/ /\ pc'[r] = "clock" /\ body[r].op = "TimePatch" /\ todo[r] = {}
           /\ pc' = [pc EXCEPT ![r] = "clock"]
        \/ /\ pc'[r] = "lookup" /\ after'[r] = "reply" /\ todo[r] = {}
           /\ pc' = [pc EXCEPT ![r] = "lookup"]
        \/ /\ pc'[r] = "lookup" /\ after'[r] = "block"
           /\ pc' = [pc EXCEPT ![r] = "lookup"]
           /\ \A other \in todo[r] : Rank["volts"] <= Rank[other]
    BY DEF StartBlock, ReadBack, IsNext, CallCached, Goto, TypeInv, TypeOK
  <1>3. ~(Rank["volts"] <= Rank["type"])
    BY DEF Rank
  <1>4. ReadsFollow(r)' /\ Applied(r)'
    BY <1>1, <1>2 DEF Alone, ReadsFollow, Applied
  <1>5. DropsPlanned(r)' /\ TypeFirst(r)'
    BY <1>1, <1>2, <1>3 DEF Alone, DropsPlanned, TypeFirst, For
  <1>6. ShowsDevice(r)'
    BY <1>1, <1>2 DEF Alone, ShowsDevice, Fresh, DeviceConfig
  <1> QED
    BY <1>1, <1>2, <1>4, <1>5, <1>6, Same, SameReads, GoOnLone DEF Alone

\* What WriteBlock sends is the proposal, which is in bounds.
LEMMA SendsProposal ==
  ASSUME Known, NEW r \in Requests, WriteBlock(r)
  PROVE  LET merged == MergedBlock(proposal[r], config[r].volts)
         IN  /\ "volts" \in todo[r] /\ "type" \notin todo[r]
             /\ merged = proposal[r]
             /\ \A p \in VoltageParams : InBounds(merged[p])
  <1>1. pc[r] = "block" /\ "volts" \in todo[r]
    BY DEF Known, WriteBlock, OrderInv, WritersHaveJob
  <1>2. ValidVoltages(proposal[r]) /\ proposal[r] \in [VoltageParams -> Volts]
    BY <1>1 DEF Known, OrderInv, ProposalsValid, TypeInv, TypeOK
  <1>3. MergedBlock(proposal[r], config[r].volts) = proposal[r]
    BY <1>2, NothingMerged
  <1>4. \A p \in VoltageParams : InBounds(proposal[r][p])
    BY <1>2 DEF ValidVoltages
  <1>5. "type" \notin todo[r]
    BY <1>1, Sole DEF Known, Alone, TypeFirst
  <1> QED
    BY <1>1, <1>3, <1>4, <1>5

LEMMA WriteBlockLone ==
  ASSUME Known, NEW r \in Requests, WriteBlock(r) PROVE LoneInv'
  <1> USE DEF Known
  <1>1. /\ pc[r] = "block" /\ reads[r] = 0 /\ InFlight \subseteq {r} /\ Alone(r)
        /\ UNCHANGED <<regs, cacheHit, cache>>
    BY Sole DEF WriteBlock, cacheVars
  <1>2. CASE Answer(r, "failed", Blank)
    BY <1>1, <1>2, AnswerLone
  <1>3. CASE ~Answer(r, "failed", Blank)
    <2>1. /\ pc' = [pc EXCEPT ![r] = "work"] /\ pc'[r] = "work"
          /\ todo' = [todo EXCEPT ![r] = todo[r] \ {"volts"}]
          /\ todo'[r] = todo[r] \ {"volts"} /\ wrote'[r] = wrote[r] \cup {"volts"}
          /\ UNCHANGED <<body, reads, proposal>>
      BY <1>3 DEF WriteBlock, Goto, Done, Written, TypeInv, TypeOK
    <2>2. block' = EncodeBlock(proposal[r])
      BY <1>3, SendsProposal DEF WriteBlock, Sent
    <2>3. "volts" \in todo[r] /\ "volts" \notin Drops /\ "volts" \notin SingleRegs
      BY SendsProposal DEF Drops, SingleRegs
    <2>4. todo'[r] \cap Drops # {}
      BY <1>1, <2>1, <2>3 DEF Alone, DropsPlanned, Drops
    <2>5. ReadsFollow(r)' /\ DropsPlanned(r)' /\ ShowsDevice(r)'
      BY <1>1, <2>1, <2>3, <2>4 DEF Alone, ReadsFollow, DropsPlanned, ShowsDevice, Drops
    <2>6. \A p \in Overrides(body[r]) : block'[p] = Encode[body[r].volts[p]]
      <3>1. Overrides(body[r]) \subseteq VoltageParams
        BY BodyType DEF TypeInv, IsPartial, Overrides, VoltageParams
      <3>2. \A p \in Overrides(body[r]) : proposal[r][p] = body[r].volts[p]
        BY <1>1, <2>3 DEF Alone, Applied
      <3> QED
        BY <2>2, <3>1, <3>2 DEF EncodeBlock
    <2>7. Applied(r)'
      BY <1>1, <2>1, <2>3, <2>6 DEF Alone, Applied
    <2>8. TypeFirst(r)'
      BY <1>1, <2>1 DEF Alone, TypeFirst, For
    <2> QED
      BY <1>1, <2>1, <2>5, <2>7, <2>8, SameReads, GoOnLone DEF Alone
  <1> QED
    BY <1>2, <1>3

LEMMA InvalidateLone ==
  ASSUME Known, NEW r \in Requests, NEW job \in {"drop", "dropType"},
         Invalidate(r, job)
  PROVE  LoneInv'
  <1> USE DEF Known
  <1>1. /\ pc[r] = "work" /\ reads[r] = 0 /\ InFlight \subseteq {r} /\ Alone(r)
        /\ job \in todo[r] /\ todo[r] \subseteq Jobs
        /\ \A other \in todo[r] : Rank[job] <= Rank[other]
    BY Sole DEF Invalidate, IsNext, TypeInv, TypeOK
  <1>2. /\ pc' = [pc EXCEPT ![r] = "work"] /\ pc'[r] = "work"
        /\ todo' = [todo EXCEPT ![r] = todo[r] \ {job}]
        /\ todo'[r] = todo[r] \ {job} /\ cacheHit' = FALSE
        /\ UNCHANGED <<regs, block, body, reads, proposal, wrote>>
    BY <1>1, Same DEF Invalidate, Done, device, TypeInv, TypeOK
  <1>3. /\ ~(Rank["dropType"] <= Rank["type"])
        /\ \A other \in Jobs : Rank["drop"] <= Rank[other] => other = "drop"
    BY DEF Rank, Jobs, SingleRegs
  <1>4. DropsPlanned(r)'
    <2>1. CASE job = "drop"
      <3>1. todo'[r] = {}
        BY <1>1, <1>2, <1>3, <2>1
      <3> QED
        BY <3>1 DEF DropsPlanned
    <2>2. CASE job = "dropType"
      <3>1. "type" \notin todo[r]
        BY <1>1, <1>3, <2>2
      <3> QED
        BY <1>1, <1>2, <2>2, <3>1 DEF Alone, DropsPlanned
    <2> QED
      BY <2>1, <2>2
  <1>5. ReadsFollow(r)' /\ Applied(r)' /\ TypeFirst(r)' /\ ShowsDevice(r)'
    BY <1>1, <1>2 DEF Alone, ReadsFollow, Applied, TypeFirst, ShowsDevice, For, Fresh
  <1> QED
    BY <1>1, <1>2, <1>4, <1>5, SameReads, GoOnLone DEF Alone

LEMMA LastLone ==
  ASSUME Known, NEW r \in Requests, ReadClock(r) \/ Reply(r) PROVE LoneInv'
  <1>1. pc[r] \notin {"idle", "done"} /\ \E status, reply : Answer(r, status, reply)
    BY DEF ReadClock, Reply
  <1> QED
    BY <1>1, AnswerLone DEF Known

\* A new request finds nobody else in flight.
LEMMA ArriveLone ==
  ASSUME MaxInFlight = 1, Known, NEW r \in Requests, NEW b \in Bodies, Arrive(r, b)
  PROVE  LoneInv'
  <1> USE DEF Known
  <1>1. /\ pc[r] = "idle" /\ InFlight = {} /\ todo[r] = {} /\ wrote'[r] = {}
        /\ reads[r] = 0 /\ UNCHANGED <<regs, reads>>
    <2>1. \E op : Receive(r, b, op)
      BY DEF Arrive, CachedGet, ConfigGet, TimeGet, ChargingPatch, ProfilePatch,
             ConfigPatch, TimePatch
    <2>2. UNCHANGED <<regs, reads, wrote>>
      BY DEF Arrive, CachedGet, ConfigGet, TimeGet, ChargingPatch, ProfilePatch,
             ConfigPatch, TimePatch, Accept, Reject, device, plans
    <2>3. pc[r] = "idle"
      BY <2>1 DEF Receive
    <2>4. reads[r] = 0 /\ todo[r] = {} /\ wrote[r] = {}
      BY <2>3 DEF LoneInv, TypeInv, IdleIsClean
    <2> QED
      BY <2>1, <2>2, <2>3, <2>4, ReceiveQuiet
  <1>2. CASE Reject(r, b)
    <2>1. /\ pc'[r] = "done" /\ todo' = todo
          /\ \A q \in Requests \ {r} : pc'[q] = pc[q]
      BY <1>2 DEF Reject, Goto, plans, TypeInv, TypeOK
    <2> QED
      BY <1>1, <2>1, LocalLone
  <1>3. ASSUME Accept(r, b),
               NEW place \in {"readType", "lookup", "fill", "clock", "work"}, Goto(r, place),
               NEW resume \in {"reply", "validate"}, after' = [after EXCEPT ![r] = resume],
               NEW left, todo' = [todo EXCEPT ![r] = left],
               place # "work" => left = {},
               \/ left = {} \/ "drop" \in left
               \/ "dropType" \in left /\ left \subseteq {"type", "dropType"},
               left \cap (Durations \cup {"volts"}) = {},
               place = "clock" => b.op = "TimeGet",
               resume = "validate" => SetsType(b) /\ b.regs["type"] = UserDefined
        PROVE  LoneInv'
    <2>1. /\ body'[r] = b /\ pc' = [pc EXCEPT ![r] = place] /\ pc'[r] = place
          /\ todo'[r] = left /\ after'[r] = resume /\ reads'[r] = 0
      BY <1>1, <1>3 DEF Accept, Goto, TypeInv, TypeOK
    <2>2. ReadsFollow(r)'
      BY <2>1, NothingReadYet DEF ReadsFollow, Follows
    <2>3. DropsPlanned(r)' /\ Applied(r)' /\ ShowsDevice(r)'
      BY <1>1, <1>3, <2>1 DEF DropsPlanned, Applied, ShowsDevice, For
    <2>4. TypeFirst(r)'
      BY <1>1, <1>3, <2>1 DEF TypeFirst, For
    <2> QED
      BY <1>1, <1>3, <2>1, <2>2, <2>3, <2>4, SameReads, GoOnLone DEF Alone
  <1>4. /\ after = [after EXCEPT ![r] = "reply"] /\ todo = [todo EXCEPT ![r] = {}]
        /\ {} \cap (Durations \cup {"volts"}) = {}
    BY <1>1, Same DEF TypeInv, IdleIsClean
  <1>5. CASE CachedGet(r, b)
    BY <1>3, <1>4, <1>5 DEF CachedGet, CallCached
  <1>6. CASE ConfigGet(r, b)
    BY <1>3, <1>4, <1>6 DEF ConfigGet
  <1>7. CASE TimeGet(r, b)
    BY <1>3, <1>4, <1>7 DEF TimeGet, Receive
  <1>8. CASE ChargingPatch(r, b)
    BY <1>3, <1>4, <1>8 DEF ChargingPatch
  <1>9. ASSUME Accept(r, b), Goto(r, "work"), UNCHANGED after,
               NEW left, todo' = [todo EXCEPT ![r] = left],
               \/ left = {} \/ "drop" \in left
               \/ "dropType" \in left /\ left \subseteq {"type", "dropType"},
               left \cap (Durations \cup {"volts"}) = {}
        PROVE  LoneInv'
    BY <1>3, <1>4, <1>9
  <1>10. CASE ProfilePatch(r, b)
    BY <1>2, <1>9, <1>10, JobsLone DEF ProfilePatch, Receive
  <1>11. CASE TimePatch(r, b)
    <2>1. /\ "drop" \in WithDrop({"clock"})
          /\ WithDrop({"clock"}) \cap (Durations \cup {"volts"}) = {}
      BY DEF WithDrop, Durations
    <2> QED
      BY <1>2, <1>9, <1>11, <2>1 DEF TimePatch
  <1>12. CASE ConfigPatch(r, b)
    <2>1. CASE Accept(r, b) /\ Goto(r, "readType") /\ UNCHANGED <<after, todo>>
      BY <1>3, <1>4, <2>1
    <2>2. CASE /\ Accept(r, b) /\ CallCached(r, "validate") /\ UNCHANGED todo
               /\ SetsType(b) /\ b.regs["type"] = UserDefined
      BY <1>3, <1>4, <2>2 DEF CallCached
    <2>3. CASE /\ Accept(r, b) /\ Goto(r, "work") /\ UNCHANGED after
               /\ todo' = [todo EXCEPT ![r] = ConfigJobs(b, FALSE)]
      <3>1. /\ ConfigJobs(b, FALSE) \cap (Durations \cup {"volts"}) = {}
            /\ \/ ConfigJobs(b, FALSE) = {}
               \/ /\ "dropType" \in ConfigJobs(b, FALSE)
                  /\ ConfigJobs(b, FALSE) \subseteq {"type", "dropType"}
        BY JobsLone DEF Durations
      <3> QED
        BY <1>9, <2>3, <3>1
    <2> QED
      BY <1>2, <1>12, <2>1, <2>2, <2>3 DEF ConfigPatch, Receive, SetsType
  <1> QED
    BY <1>5, <1>6, <1>7, <1>8, <1>10, <1>11, <1>12 DEF Arrive

LEMMA StepLone ==
  ASSUME Known, NEW r \in Requests, Step(r) PROVE LoneInv'
  BY LookupLone, FillLone, StoreLone, ReadTypeLone, ValidateLone, WriteSingleLone,
     CallLone, WriteBlockLone, InvalidateLone, LastLone
  DEF Step

LEMMA ExpireLone ==
  ASSUME Known, Expire PROVE LoneInv'
  <1>1. /\ cacheHit' = FALSE
        /\ UNCHANGED <<regs, block, pc, after, body, config, reads, proposal, todo, wrote>>
    BY DEF Expire, device, plans
  <1>2. InFlight' = InFlight
    BY <1>1 DEF InFlight
  <1>3. ASSUME NEW r \in InFlight PROVE Alone(r)'
    <2>1. Alone(r)
      BY <1>3 DEF Known, LoneInv
    <2> QED
      BY <1>1, <2>1
      DEF Alone, ReadsFollow, Follows, DropsPlanned, Applied, ShowsDevice, TypeFirst, For,
          Fresh, DeviceConfig
  <1> QED
    BY <1>1, <1>2, <1>3 DEF Known, LoneInv

LEMMA LoneInvariant ==
  ASSUME MaxInFlight = 1
  PROVE  Spec => []Known
  <1>1. Init => LoneInv
    BY DEF Init, LoneInv, InFlight
  <1>2. TypeInv /\ OrderInv /\ PromiseInv /\ LoneInv /\ [Next]_vars => LoneInv'
    <2> SUFFICES ASSUME Known, [Next]_vars PROVE LoneInv'
      BY DEF Known
    <2>1. CASE \E r \in Requests : Step(r)
      BY <2>1, StepLone
    <2>2. CASE \E r \in Requests, b \in Bodies : Arrive(r, b)
      BY <2>2, ArriveLone
    <2>3. CASE Expire
      BY <2>3, ExpireLone
    <2>4. CASE UNCHANGED vars
      BY <2>4
      DEF vars, Known, LoneInv, InFlight, Alone, ReadsFollow, Follows, DropsPlanned,
          Applied, ShowsDevice, TypeFirst, For, Fresh, DeviceConfig
    <2> QED
      BY <2>1, <2>2, <2>3, <2>4 DEF Next, AllAnswered
  <1>3. TypeInv /\ OrderInv /\ PromiseInv /\ LoneInv => Known
    BY DEF Known
  <1> QED
    BY <1>1, <1>2, <1>3, TypeCorrect, OrderInvariant, PromiseInvariant, PTL DEF Spec

-----------------------------------------------------------------------------
LEMMA ArriveShape ==
  ASSUME NEW r \in Requests, NEW b \in Bodies, Arrive(r, b)
  PROVE  pc[r] = "idle" /\ (Accept(r, b) \/ Reject(r, b))
  BY DEF Arrive, CachedGet, ConfigGet, TimeGet, ChargingPatch, ProfilePatch, ConfigPatch,
         TimePatch, Receive

\* Of all steps only two kinds write to the device.
LEMMA DeviceChanges ==
  ASSUME [Next]_vars
  PROVE  \/ UNCHANGED <<regs, block, wrote>>
         \/ \E r \in Requests :
              WriteBlock(r) \/ \E reg \in SingleRegs : WriteSingle(r, reg)
  <1>1. CASE \E r \in Requests, b \in Bodies : Arrive(r, b)
    BY <1>1, ArriveShape DEF Accept, Reject, device, plans
  <1>2. CASE Expire \/ UNCHANGED vars
    BY <1>2 DEF Expire, vars, device, plans
  <1>3. CASE \E r \in Requests : Step(r)
    BY <1>3
    DEF Step, Lookup, Fill, Store, ReadType, Validate, StartBlock, Invalidate, ReadBack,
        ReadClock, Reply, device, plans
  <1> QED
    BY <1>1, <1>2, <1>3 DEF Next, AllAnswered

\* Of all steps only Reply and ReadClock answer "ok".
LEMMA OthersAnswer ==
  ASSUME Known, NEW r \in Requests, Step(r), ~Reply(r), ~ReadClock(r)
  PROVE  /\ body' = body
         /\ \A q \in Requests :
              answer'[q] = answer[q] \/ answer'[q].status \in {"failed", "rejected"}
  <1>1. UNCHANGED <<body, answer>>
        \/ \E status \in {"failed", "rejected"} : Answer(r, status, Blank)
    BY DEF Step, Lookup, Fill, Store, ReadType, Validate, WriteSingle, StartBlock,
           WriteBlock, Invalidate, ReadBack, plans
  <1> QED
    BY <1>1 DEF Answer, Known, TypeInv, TypeOK

LEMMA ReplyShows ==
  ASSUME Known, PatchShowsItsWrite, NEW r \in Requests, Reply(r)
  PROVE  PatchShowsItsWrite'
  <1>1. /\ pc[r] = "reply" /\ wrote[r] \in Promised(body[r]) /\ Alone(r)
    BY OwnKept, Sole DEF Known, Reply, Kept
  <1>2. /\ answer'[r].config = config[r] /\ body' = body
        /\ \A q \in Requests \ {r} : answer'[q] = answer[q]
    BY DEF Known, Reply, Answer, TypeInv, TypeOK
  <1> SUFFICES ASSUME body[r].op = "ChargingPatch"
               PROVE  /\ \A s \in Asked(body[r]) : config[r].regs[s] = body[r].regs[s]
                      /\ \A p \in Overrides(body[r]) :
                           config[r].volts[p] = Decode[Encode[body[r].volts[p]]]
    BY <1>2 DEF PatchShowsItsWrite
  <1>3. wrote[r] = Asked(body[r]) \cup VoltsJob(body[r])
    BY <1>1 DEF Promised
  <1>4. wrote[r] # {} => config[r] = DeviceConfig
    BY <1>1 DEF Alone, ShowsDevice
  <1>5. ASSUME NEW s \in Asked(body[r])
        PROVE  config[r].regs[s] = body[r].regs[s]
    <2>1. s \in SingleRegs
      BY DEF Asked, FieldsOf, Durations, SingleRegs
    <2> QED
      BY <1>1, <1>3, <1>4, <2>1 DEF Alone, Applied, DeviceConfig
  <1>6. ASSUME NEW p \in Overrides(body[r])
        PROVE  config[r].volts[p] = Decode[Encode[body[r].volts[p]]]
    <2>1. p \in VoltageParams
      BY BodyType DEF Known, TypeInv, IsPartial, Overrides, VoltageParams
    <2>2. "volts" \in wrote[r]
      BY <1>3 DEF VoltsJob
    <2>3. block[p] = Encode[body[r].volts[p]] /\ config[r] = DeviceConfig
      BY <1>1, <1>4, <2>2 DEF Alone, Applied
    <2> QED
      BY <2>1, <2>3 DEF DeviceConfig, DecodeBlock
  <1> QED
    BY <1>5, <1>6

\* The answer to a PATCH of charging parameters shows what it wrote
\* ("this will fetch fresh data from device", configurer_charging.go:213), as long
\* as requests come one at a time.  The bus may fail: a PATCH one of whose writes
\* failed is not "ok".
THEOREM PatchShown ==
  ASSUME MaxInFlight = 1
  PROVE  Spec => []PatchShowsItsWrite
  <1>1. Init => PatchShowsItsWrite
    BY DEF Init, PatchShowsItsWrite
  <1>2. Known /\ PatchShowsItsWrite /\ [Next]_vars => PatchShowsItsWrite'
    <2> SUFFICES ASSUME Known, PatchShowsItsWrite, [Next]_vars PROVE PatchShowsItsWrite'
      OBVIOUS
    <2>1. ASSUME NEW r \in Requests, Step(r) PROVE PatchShowsItsWrite'
      <3>1. CASE Reply(r)
        BY <3>1, ReplyShows
      <3>2. CASE ReadClock(r)
        <4>1. pc[r] = "clock" /\ Alone(r) /\ body' = body /\ body[r].op # "ChargingPatch"
              /\ \A q \in Requests \ {r} : answer'[q] = answer[q]
          BY <3>2, Sole DEF Known, ReadClock, Answer, Alone, ShowsDevice, TypeInv, TypeOK
        <4> QED
          BY <4>1 DEF PatchShowsItsWrite
      <3>3. CASE ~Reply(r) /\ ~ReadClock(r)
        BY <2>1, <3>3, OthersAnswer DEF PatchShowsItsWrite
      <3> QED
        BY <3>1, <3>2, <3>3
    <2>2. ASSUME NEW r \in Requests, NEW b \in Bodies, Arrive(r, b)
          PROVE  PatchShowsItsWrite'
      <3>0. pc[r] = "idle" /\ (Accept(r, b) \/ Reject(r, b))
        BY <2>2, ArriveShape
      <3>1. /\ \A q \in Requests \ {r} : answer'[q] = answer[q] /\ body'[q] = body[q]
            /\ answer'[r] = answer[r] \/ answer'[r].status = "rejected"
        BY <3>0 DEF Accept, Reject, Known, TypeInv, TypeOK
      <3>2. answer[r].status # "ok"
        BY <3>0 DEF Known, PromiseInv, Kept
      <3> QED
        BY <3>1, <3>2 DEF PatchShowsItsWrite
    <2>3. CASE Expire \/ UNCHANGED vars
      BY <2>3 DEF Expire, vars, PatchShowsItsWrite
    <2> QED
      BY <2>1, <2>2, <2>3 DEF Next, AllAnswered
  <1> QED
    BY <1>1, <1>2, LoneInvariant, PTL DEF Spec

\* Charging parameters change only while the battery type is userDefined
\* (README.md:504), as long as requests come one at a time: the type a PATCH
\* checked, or wrote first, is still the device's when it writes the rest.
THEOREM ChargingGuarded ==
  ASSUME MaxInFlight = 1
  PROVE  Spec => ChargingOnlyWhenUserDefined
  <1> DEFINE Charged == block' # block \/ (\E s \in Durations : regs'[s] # regs[s])
  <1>1. Known /\ [Next]_vars => (Charged => regs["type"] = UserDefined)
    <2> SUFFICES ASSUME Known, [Next]_vars, Charged PROVE regs["type"] = UserDefined
      OBVIOUS
    <2>1. PICK r \in Requests : WriteBlock(r) \/ \E reg \in Durations : WriteSingle(r, reg)
      <3>1. ASSUME NEW r \in Requests, NEW reg \in SingleRegs, WriteSingle(r, reg)
            PROVE  reg \in Durations
        BY <3>1 DEF WriteSingle, Known, TypeInv, TypeOK, Durations, SingleRegs
      <3> QED
        BY <3>1, DeviceChanges
    <2>2. CASE WriteBlock(r)
      <3>1. "volts" \in todo[r] /\ "type" \notin todo[r] /\ pc[r] = "block"
        BY <2>2, SendsProposal DEF WriteBlock
      <3> QED
        BY <3>1, Sole DEF Known, Alone, TypeFirst
    <2>3. ASSUME NEW reg \in Durations, WriteSingle(r, reg)
          PROVE  regs["type"] = UserDefined
      <3>1. /\ pc[r] = "work" /\ reg \in todo[r]
            /\ \A other \in todo[r] : Rank[reg] <= Rank[other]
        BY <2>3 DEF WriteSingle, IsNext
      <3>2. ~(Rank[reg] <= Rank["type"])
        BY DEF Rank, Durations
      <3> QED
        BY <3>1, <3>2, Sole DEF Known, Alone, TypeFirst
    <2> QED
      BY <2>1, <2>2, <2>3
  <1> QED
    BY <1>1, LoneInvariant, PTL DEF Spec, ChargingOnlyWhenUserDefined

-----------------------------------------------------------------------------
(***************************************************************************)
(* A bus that does not fail.  The cache is stale only while the handler    *)
(* that made it so still has its invalidation to make, so the base a PATCH *)
(* validates is the device's.                                              *)
(***************************************************************************)
CacheInv ==
  /\ (\A r \in Requests : todo[r] \cap Drops = {}) => Fresh
  /\ \A r \in Requests :
       pc[r] = "validate" => config[r].volts = DecodeBlock(block)
  /\ \A r \in Requests :
       "volts" \in todo[r] => proposal[r] = Proposal(body[r], DecodeBlock(block))

LEMMA NoFault ==
  ASSUME MaxFaults = 0, TypeInv PROVE ~Fault
  BY DEF TypeInv, TypeOK, Fault

\* Steps that write nothing to the device.
LEMMA LocalCache ==
  ASSUME CacheInv, NEW r \in Requests, UNCHANGED <<regs, block>>,
         \A q \in Requests \ {r} :
           /\ pc'[q] = pc[q] /\ config'[q] = config[q] /\ proposal'[q] = proposal[q]
           /\ body'[q] = body[q] /\ todo'[q] = todo[q],
         \/ Fresh'
         \/ /\ UNCHANGED <<cacheHit, cache>>
            /\ todo'[r] \cap Drops = {} => todo[r] \cap Drops = {},
         pc'[r] = "validate" => config'[r].volts = DecodeBlock(block),
         "volts" \in todo'[r] => proposal'[r] = Proposal(body'[r], DecodeBlock(block))
  PROVE  CacheInv'
  <1>1. ASSUME \A q \in Requests : todo'[q] \cap Drops = {} PROVE Fresh'
    <2>1. CASE UNCHANGED <<cacheHit, cache>> /\ todo[r] \cap Drops = {}
      <3>1. \A q \in Requests : todo[q] \cap Drops = {}
        BY <1>1, <2>1
      <3> QED
        BY <2>1, <3>1 DEF CacheInv, Fresh, DeviceConfig
    <2> QED
      BY <1>1, <2>1
  <1>2. \A q \in Requests : pc'[q] = "validate" => config'[q].volts = DecodeBlock(block)'
    BY DEF CacheInv, DecodeBlock
  <1>3. \A q \in Requests :
          "volts" \in todo'[q] => proposal'[q] = Proposal(body'[q], DecodeBlock(block)')
    BY DEF CacheInv, DecodeBlock
  <1> QED
    BY <1>1, <1>2, <1>3 DEF CacheInv

\* A handler that has nothing to write leaves the cache as fresh as it was.
LEMMA LeaveCache ==
  ASSUME Known, CacheInv, NEW r \in Requests, todo[r] = {}, todo'[r] = {},
         \A q \in Requests \ {r} :
           /\ pc'[q] = pc[q] /\ config'[q] = config[q] /\ proposal'[q] = proposal[q]
           /\ body'[q] = body[q] /\ todo'[q] = todo[q],
         UNCHANGED <<device, cacheVars>>, pc'[r] # "validate"
  PROVE  CacheInv'
  BY LocalCache DEF device, cacheVars

LEMMA QuietAnswerCache ==
  ASSUME Known, CacheInv, NEW r \in Requests, NEW status, NEW reply, todo[r] = {},
         Answer(r, status, reply), UNCHANGED <<device, cacheVars>>
  PROVE  CacheInv'
  <1>1. /\ pc'[r] = "done" /\ todo'[r] = {}
        /\ \A q \in Requests \ {r} :
             /\ pc'[q] = pc[q] /\ config'[q] = config[q] /\ proposal'[q] = proposal[q]
             /\ body'[q] = body[q] /\ todo'[q] = todo[q]
    BY DEF Answer, Goto, Known, TypeInv, TypeOK
  <1> QED
    BY <1>1, LeaveCache

LEMMA ReadingCache ==
  ASSUME MaxFaults = 0, Known, CacheInv, NEW r \in Requests, Lookup(r) \/ Fill(r) \/ Store(r)
  PROVE  CacheInv'
  <1>0. ~Fault
    BY NoFault DEF Known
  <1>1. /\ UNCHANGED <<regs, block, body, proposal, todo>>
        /\ \A q \in Requests \ {r} : pc'[q] = pc[q] /\ config'[q] = config[q]
        /\ Alone(r)
    BY <1>0, Sole DEF Lookup, Fill, Store, Goto, device, plans, Known, TypeInv, TypeOK
  <1>2. "volts" \in todo'[r] => proposal'[r] = Proposal(body'[r], DecodeBlock(block))
    BY <1>1 DEF CacheInv
  <1>3. CASE Lookup(r)
    <2>1. /\ pc[r] = "lookup" /\ UNCHANGED <<cacheHit, cache>>
          /\ after[r] \in {"validate", "block", "reply"}
      BY <1>3 DEF Lookup, cacheVars, Known, TypeInv, TypeOK
    <2>2. ASSUME pc'[r] = "validate" PROVE config'[r].volts = DecodeBlock(block)
      <3>1. cacheHit /\ after[r] = "validate" /\ config'[r] = cache
        BY <1>3, <2>2 DEF Lookup, Goto, Known, TypeInv, TypeOK
      <3>2. todo[r] = {}
        BY <1>1, <2>1, <3>1 DEF Alone, DropsPlanned, For
      <3>3. \A q \in Requests \ {r} : todo[q] = {}
        BY <2>1, Sole DEF Known, LoneInv, InFlight
      <3>4. cache = DeviceConfig
        BY <3>1, <3>2, <3>3 DEF CacheInv, Fresh
      <3> QED
        BY <3>1, <3>4 DEF DeviceConfig
    <2> QED
      BY <1>1, <1>2, <2>1, <2>2, LocalCache
  <1>4. CASE Fill(r)
    <2>1. pc'[r] # "validate" /\ UNCHANGED <<cacheHit, cache>>
      BY <1>0, <1>4 DEF Fill, Goto, cacheVars, Known, TypeInv, TypeOK
    <2> QED
      BY <1>1, <1>2, <2>1, LocalCache
  <1>5. CASE Store(r)
    <2>1. config[r] = DeviceConfig /\ cache' = config[r] /\ config' = config
      BY <1>1, <1>5 DEF Store, Alone, ReadsFollow
    <2>2. Fresh' /\ config[r].volts = DecodeBlock(block)
      BY <1>1, <2>1 DEF Fresh, DeviceConfig
    <2> QED
      BY <1>1, <1>2, <2>1, <2>2, LocalCache
  <1> QED
    BY <1>3, <1>4, <1>5

LEMMA ValidateCache ==
  ASSUME Known, CacheInv, NEW r \in Requests, Validate(r)
  PROVE  CacheInv'
  <1>1. pc[r] = "validate" /\ todo[r] = {} /\ UNCHANGED <<device, cacheVars>>
    BY Sole DEF Validate, Known, Alone, DropsPlanned, For
  <1>2. CASE Answer(r, "rejected", Blank)
    BY <1>1, <1>2, QuietAnswerCache
  <1>3. CASE ~Answer(r, "rejected", Blank)
    <2>1. /\ pc'[r] = "work" /\ body' = body
          /\ proposal'[r] = Proposal(body[r], config[r].volts)
          /\ \A q \in Requests \ {r} :
               /\ pc'[q] = pc[q] /\ config'[q] = config[q] /\ proposal'[q] = proposal[q]
               /\ todo'[q] = todo[q]
      BY <1>3 DEF Validate, Goto, Known, TypeInv, TypeOK
    <2>2. config[r].volts = DecodeBlock(block)
      BY <1>1 DEF CacheInv
    <2> QED
      BY <1>1, <2>1, <2>2, LocalCache DEF device, cacheVars
  <1> QED
    BY <1>2, <1>3

LEMMA WriteSingleCache ==
  ASSUME MaxFaults = 0, Known, CacheInv, NEW r \in Requests, NEW reg \in SingleRegs,
         WriteSingle(r, reg)
  PROVE  CacheInv'
  <1>1. /\ pc[r] = "work" /\ reg \in todo[r] /\ Alone(r)
        /\ UNCHANGED <<block, pc, body, config, proposal>>
        /\ todo' = [todo EXCEPT ![r] = todo[r] \ {reg}]
    BY NoFault, Sole DEF Known, WriteSingle, IsNext, Done
  <1>2. /\ todo'[r] = todo[r] \ {reg} /\ \A q \in Requests : todo'[q] \subseteq todo[q]
        /\ reg \notin Drops
    BY <1>1 DEF Known, TypeInv, TypeOK, SingleRegs, Drops
  <1>3. todo'[r] \cap Drops # {}
    BY <1>1, <1>2 DEF Alone, DropsPlanned, Drops
  <1> QED
    BY <1>1, <1>2, <1>3 DEF CacheInv, DecodeBlock

LEMMA WriteBlockCache ==
  ASSUME MaxFaults = 0, Known, CacheInv, NEW r \in Requests, WriteBlock(r)
  PROVE  CacheInv'
  <1>1. pc[r] = "block" /\ "volts" \in todo[r] /\ Alone(r)
    BY SendsProposal, Sole DEF Known, WriteBlock
  <1>2. /\ pc' = [pc EXCEPT ![r] = "work"]
        /\ todo' = [todo EXCEPT ![r] = todo[r] \ {"volts"}]
        /\ UNCHANGED <<body, proposal>>
    BY NoFault, SendsProposal DEF Known, WriteBlock, Goto, Done
  <1>3. /\ pc'[r] = "work" /\ todo'[r] = todo[r] \ {"volts"}
        /\ \A q \in Requests \ {r} : pc'[q] = pc[q] /\ todo'[q] = todo[q]
    BY <1>2 DEF Known, TypeInv, TypeOK
  <1>4. todo'[r] \cap Drops # {}
    BY <1>1, <1>3 DEF Alone, DropsPlanned, Drops
  <1>5. \A q \in Requests \ {r} : pc[q] \in {"idle", "done"} /\ todo[q] = {}
    BY <1>1, Sole DEF Known, LoneInv, InFlight
  <1> QED
    BY <1>3, <1>4, <1>5 DEF CacheInv

LEMMA StepCache ==
  ASSUME MaxFaults = 0, Known, CacheInv, NEW r \in Requests, Step(r)
  PROVE  CacheInv'
  <1>1. CASE \E job \in {"drop", "dropType"} : Invalidate(r, job)
    <2>1. /\ pc[r] = "work" /\ cacheHit' = FALSE
          /\ UNCHANGED <<regs, block, pc, body, config, proposal>>
          /\ \A q \in Requests \ {r} : todo'[q] = todo[q]
          /\ todo'[r] \subseteq todo[r]
      BY <1>1 DEF Invalidate, IsNext, Done, device, Known, TypeInv, TypeOK
    <2>2. Fresh'
      BY <2>1 DEF Fresh
    <2>3. "volts" \in todo'[r] => proposal'[r] = Proposal(body'[r], DecodeBlock(block))
      BY <2>1 DEF CacheInv
    <2> QED
      BY <2>1, <2>2, <2>3, LocalCache
  <1>2. CASE StartBlock(r) \/ ReadBack(r)
    <2>1. /\ pc'[r] # "validate"
          /\ UNCHANGED <<regs, block, cacheHit, cache, body, config, proposal, todo>>
          /\ \A q \in Requests \ {r} : pc'[q] = pc[q]
      BY <1>2 DEF StartBlock, ReadBack, CallCached, Goto, device, cacheVars, plans, Known,
                  TypeInv, TypeOK
    <2>2. "volts" \in todo'[r] => proposal'[r] = Proposal(body'[r], DecodeBlock(block))
      BY <2>1 DEF CacheInv
    <2> QED
      BY <2>1, <2>2, LocalCache
  <1>3. CASE ReadType(r) \/ ReadClock(r) \/ Reply(r)
    <2>1. todo[r] = {} /\ UNCHANGED <<device, cacheVars>>
      BY <1>3, Sole
      DEF ReadType, ReadClock, Reply, Known, Alone, DropsPlanned, For
    <2>2. CASE \E status, reply : Answer(r, status, reply)
      BY <2>1, <2>2, QuietAnswerCache
    <2>3. CASE ~\E status, reply : Answer(r, status, reply)
      <3>1. /\ UNCHANGED <<body, config, proposal, todo>> /\ pc'[r] # "validate"
            /\ \A q \in Requests \ {r} : pc'[q] = pc[q]
        BY <1>3, <2>3 DEF ReadType, ReadClock, Reply, CallCached, Goto, Known, TypeInv, TypeOK
      <3> QED
        BY <2>1, <3>1, LeaveCache
    <2> QED
      BY <2>2, <2>3
  <1> QED
    BY <1>1, <1>2, <1>3, ReadingCache, ValidateCache, WriteSingleCache, WriteBlockCache
    DEF Step

LEMMA ArriveCache ==
  ASSUME Known, CacheInv, NEW r \in Requests, NEW b \in Bodies, Arrive(r, b)
  PROVE  CacheInv'
  <1>1. pc[r] = "idle" /\ (Accept(r, b) \/ Reject(r, b)) /\ todo[r] = {}
    BY ArriveShape DEF Known, TypeInv, IdleIsClean
  <1>2. /\ UNCHANGED <<regs, block, cacheHit, cache, config, proposal>>
        /\ \A q \in Requests \ {r} :
             pc'[q] = pc[q] /\ body'[q] = body[q] /\ todo'[q] = todo[q]
        /\ pc'[r] # "validate" /\ "volts" \notin todo'[r]
    <2>1. /\ "volts" \notin WithDrop(Asked(b)) /\ "volts" \notin WithDrop({"clock"})
          /\ "volts" \notin ConfigJobs(b, FALSE)
      BY DEF WithDrop, Asked, FieldsOf, Durations, ConfigJobs
    <2>2. UNCHANGED <<regs, block, cacheHit, cache, config>>
      BY <1>1 DEF Accept, Reject, device, cacheVars
    <2>3. \A q \in Requests \ {r} : body'[q] = body[q]
      BY <1>1 DEF Accept, Reject, Known, TypeInv, TypeOK
    <2>4. proposal' = proposal
      BY DEF Arrive, CachedGet, ConfigGet, TimeGet, ChargingPatch, ProfilePatch,
             ConfigPatch, TimePatch, Reject, plans
    <2>5. \E place \in Places \ {"validate"} : Goto(r, place)
      BY DEF Arrive, CachedGet, ConfigGet, TimeGet, ChargingPatch, ProfilePatch,
             ConfigPatch, TimePatch, Reject, CallCached, Places
    <2>6. \/ todo' = todo
          \/ \E left : "volts" \notin left /\ todo' = [todo EXCEPT ![r] = left]
      BY <2>1 DEF Arrive, CachedGet, ConfigGet, TimeGet, ChargingPatch, ProfilePatch,
             ConfigPatch, TimePatch, Reject, plans
    <2> QED
      BY <1>1, <2>2, <2>3, <2>4, <2>5, <2>6 DEF Goto, Known, TypeInv, TypeOK
  <1> QED
    BY <1>1, <1>2, LocalCache

LEMMA CacheInvariant ==
  ASSUME MaxInFlight = 1, MaxFaults = 0
  PROVE  Spec => []CacheInv
  <1>1. Init => CacheInv
    BY DEF Init, CacheInv, Fresh
  <1>2. Known /\ CacheInv /\ [Next]_vars => CacheInv'
    <2> SUFFICES ASSUME Known, CacheInv, [Next]_vars PROVE CacheInv'
      OBVIOUS
    <2>1. CASE \E r \in Requests : Step(r)
      BY <2>1, StepCache
    <2>2. CASE \E r \in Requests, b \in Bodies : Arrive(r, b)
      BY <2>2, ArriveCache
    <2>3. CASE Expire
      <3>1. Fresh' /\ UNCHANGED <<block, pc, config, proposal, body, todo>>
        BY <2>3 DEF Expire, Fresh, device, plans
      <3> QED
        BY <3>1 DEF CacheInv, DecodeBlock
    <2>4. CASE UNCHANGED vars
      BY <2>4 DEF vars, CacheInv, Fresh, DeviceConfig, DecodeBlock
    <2> QED
      BY <2>1, <2>2, <2>3, <2>4 DEF Next, AllAnswered
  <1> QED
    BY <1>1, <1>2, LoneInvariant, PTL DEF Spec

\* Between requests that come one at a time, over a bus that does not fail, the
\* cache holds what the device holds (getCachedConfig and invalidateCache,
\* configurer_cache.go:15-53).
THEOREM CacheFresh ==
  ASSUME MaxInFlight = 1, MaxFaults = 0
  PROVE  Spec => []CacheFreshWhenQuiet
  <1>1. Known /\ CacheInv => CacheFreshWhenQuiet
    <2> SUFFICES ASSUME Known, CacheInv, InFlight = {} PROVE Fresh
      BY DEF CacheFreshWhenQuiet, Fresh
    <2>1. \A r \in Requests : todo[r] = {}
      BY DEF Known, LoneInv, InFlight
    <2> QED
      BY <2>1 DEF CacheInv
  <1> QED
    BY <1>1, LoneInvariant, CacheInvariant, PTL

-----------------------------------------------------------------------------
\* A block write changes a voltage the request does not name only to what the
\* conversion makes of it.
UnrequestedOnlyConverted ==
  [][\A r \in Requests, p \in VoltageParams :
       "volts" \in wrote'[r] \ wrote[r] /\ p \notin Overrides(body[r])
         => block'[p] = Encode[Decode[block[p]]]]_vars

LEMMA WritesProposal ==
  ASSUME Known, CacheInv, [Next]_vars, NEW r \in Requests, NEW p \in VoltageParams,
         "volts" \in wrote'[r] \ wrote[r], p \notin Overrides(body[r])
  PROVE  Decode[block[p]] \in Settable /\ block'[p] = Encode[Decode[block[p]]]
  <1>1. WriteBlock(r)
    <2>1. ASSUME NEW q \in Requests, NEW reg \in SingleRegs, WriteSingle(q, reg)
          PROVE  FALSE
      <3>1. wrote' = wrote \/ wrote' = [wrote EXCEPT ![q] = wrote[q] \cup {reg}]
        BY <2>1 DEF WriteSingle, Written
      <3>2. reg # "volts"
        BY DEF SingleRegs
      <3>3. wrote'[r] \subseteq wrote[r] \cup {reg}
        BY <3>1 DEF Known, TypeInv, TypeOK
      <3> QED
        BY <3>2, <3>3
    <2>2. PICK q \in Requests : WriteBlock(q)
      BY <2>1, DeviceChanges
    <2>3. q = r
      BY <2>2 DEF WriteBlock, Written, Known, TypeInv, TypeOK
    <2> QED
      BY <2>2, <2>3
  <1>2. "volts" \in todo[r] /\ block' = EncodeBlock(proposal[r])
    BY <1>1, SendsProposal DEF WriteBlock, Sent
  <1>3. proposal[r][p] = Decode[block[p]]
    <2>1. proposal[r] = Proposal(body[r], DecodeBlock(block))
      BY <1>2 DEF CacheInv
    <2>2. Proposal(body[r], DecodeBlock(block))[p] = DecodeBlock(block)[p]
      BY DEF Proposal
    <2> QED
      BY <2>1, <2>2 DEF DecodeBlock
  <1>4. proposal[r][p] \in Settable
    BY <1>2 DEF Known, OrderInv, ProposalsValid, ValidVoltages, Settable, TypeInv, TypeOK
  <1> QED
    BY <1>2, <1>3, <1>4 DEF EncodeBlock

\* Over a bus that does not fail, a PATCH of a lone client rewrites the voltages
\* it does not name with what they convert to and back, and nothing else: its
\* base is the device, never a stale cache (configurer_charging.go:71).
THEOREM UnrequestedConverted ==
  ASSUME MaxInFlight = 1, MaxFaults = 0
  PROVE  Spec => UnrequestedOnlyConverted
  <1>1. Known /\ CacheInv /\ [Next]_vars =>
          \A r \in Requests, p \in VoltageParams :
            "volts" \in wrote'[r] \ wrote[r] /\ p \notin Overrides(body[r])
              => block'[p] = Encode[Decode[block[p]]]
    BY WritesProposal
  <1> QED
    BY <1>1, LoneInvariant, CacheInvariant, PTL DEF Spec, UnrequestedOnlyConverted

\* Where the conversion gives every register its value back, it changes none of
\* them (OnlyRequestedFields).
THEOREM OnlyRequested ==
  ASSUME MaxInFlight = 1, MaxFaults = 0,
         \A c \in Registers : Decode[c] \in Settable => Encode[Decode[c]] = c
  PROVE  Spec => OnlyRequestedFields
  <1>1. Known /\ CacheInv /\ [Next]_vars =>
          \A r \in Requests, p \in VoltageParams :
            "volts" \in wrote'[r] \ wrote[r] /\ block'[p] # block[p]
              => p \in Overrides(body[r])
    <2> SUFFICES ASSUME Known, CacheInv, [Next]_vars, NEW r \in Requests,
                        NEW p \in VoltageParams, "volts" \in wrote'[r] \ wrote[r],
                        p \notin Overrides(body[r])
                 PROVE  block'[p] = block[p]
      OBVIOUS
    <2>1. block[p] \in Registers
      BY DEF Known, TypeInv, TypeOK
    <2> QED
      BY <2>1, WritesProposal
  <1> QED
    BY <1>1, LoneInvariant, CacheInvariant, PTL DEF Spec, OnlyRequestedFields
-----------------------------------------------------------------------------
(***************************************************************************)
(* The store a lone client sees.  Nothing that the mapping of              *)
(* ImplementsStore says of the handlers depends on more than the one that  *)
(* is in flight.                                                           *)
(***************************************************************************)
\* What an answer is made of: the device, and its clock only for those who ask.
\* A ConfigPatch that was not rejected when it arrived is well-formed.
Served(r) ==
  /\ pc[r] = "reply" => config[r] = DeviceConfig
  /\ pc[r] = "reply" \/ For(r, "reply") => body[r].op \notin {"TimeGet", "TimePatch"}
  /\ body[r].op = "TimeGet" => pc[r] \in {"clock", "done"}
  /\ body[r].op = "ConfigPatch" => pc[r] = "done" \/ ~Malformed(body[r])

ServedInv == \A r \in Requests : Served(r)

LEMMA LocalServed ==
  ASSUME Known, ServedInv, NEW r \in Requests, InFlight \subseteq {r},
         \A q \in Requests \ {r} : pc'[q] = pc[q] /\ body'[q] = body[q],
         Served(r)'
  PROVE  ServedInv'
  <1> SUFFICES ASSUME NEW q \in Requests \ {r} PROVE Served(q)'
    BY DEF ServedInv
  <1>1. pc[q] \in {"idle", "done"} /\ Served(q)
    BY DEF ServedInv, InFlight
  <1> QED
    BY <1>1 DEF Served, For

LEMMA ReadingServed ==
  ASSUME MaxFaults = 0, Known, CacheInv, ServedInv, NEW r \in Requests,
         Lookup(r) \/ Fill(r) \/ Store(r)
  PROVE  ServedInv'
  <1>0. ~Fault
    BY NoFault DEF Known
  <1>1. /\ pc[r] \in {"lookup", "fill", "store"} /\ Alone(r) /\ InFlight \subseteq {r}
        /\ UNCHANGED <<regs, block, body, after>>
        /\ \A q \in Requests \ {r} : pc'[q] = pc[q] /\ body'[q] = body[q]
    BY <1>0, Sole DEF Lookup, Fill, Store, Goto, device, plans, Known, TypeInv, TypeOK
  <1>2. /\ body[r].op # "TimeGet" /\ after[r] \in {"validate", "block", "reply"}
        /\ after[r] = "reply" => body[r].op # "TimePatch"
        /\ body[r].op = "ConfigGet" => after[r] = "reply"
        /\ body[r].op = "ConfigPatch" => ~Malformed(body[r])
    BY <1>1, OwnKept DEF ServedInv, Served, For, Known, TypeInv, TypeOK, Kept
  <1>3. pc'[r] \in {"fill", "store", after[r]}
    BY <1>0, <1>1, <1>2 DEF Lookup, Fill, Store, Goto, Known, TypeInv, TypeOK
  <1>4. ASSUME pc'[r] = "reply" PROVE config'[r] = DeviceConfig
    <2>1. CASE Lookup(r)
      <3>1. cacheHit /\ after[r] = "reply" /\ config'[r] = cache
        BY <1>4, <2>1 DEF Lookup, Goto, Known, TypeInv, TypeOK
      <3>2. todo[r] = {}
        BY <1>1, <2>1, <3>1 DEF Lookup, Alone, DropsPlanned, For
      <3>3. \A q \in Requests \ {r} : todo[q] = {}
        BY <1>1 DEF Known, LoneInv, InFlight
      <3> QED
        BY <3>1, <3>2, <3>3 DEF CacheInv, Fresh
    <2>2. CASE Fill(r)
      <3>1. /\ pc[r] = "fill" /\ reads[r] = 5 /\ config[r] \in Config
            /\ config'[r] = ReadInto(config[r], ReadOrder[reads[r] + 1])
        BY <1>0, <1>4, <2>2 DEF Fill, Known, TypeInv, TypeOK
      <3>2. Follows(ReadInto(config[r], ReadOrder[reads[r] + 1]), 6)
        BY <1>1, <3>1, ReadsNext DEF Known, Alone, ReadsFollow
      <3>3. ReadInto(config[r], ReadOrder[reads[r] + 1]) \in Config
        BY <3>1, ReadIntoType DEF Known, TypeInv
      <3> QED
        BY <3>1, <3>2, <3>3, AllRead DEF Known
    <2>3. CASE Store(r)
      BY <1>1, <2>3 DEF Store, Alone, ReadsFollow
    <2> QED
      BY <2>1, <2>2, <2>3, <1>1
  <1>5. body'[r].op = "ConfigPatch" => ~Malformed(body'[r])
    BY <1>1, <1>2
  <1>6. Served(r)'
    BY <1>1, <1>2, <1>3, <1>4, <1>5 DEF Served, For, DeviceConfig
  <1> QED
    BY <1>1, <1>6, LocalServed

LEMMA StepServed ==
  ASSUME MaxFaults = 0, Known, CacheInv, ServedInv, NEW r \in Requests, Step(r)
  PROVE  ServedInv'
  <1>1. CASE \E status, reply : Answer(r, status, reply)
    <2>1. pc[r] \notin {"idle", "done"}
      BY DEF Step, Lookup, Fill, Store, ReadType, Validate, WriteSingle, StartBlock,
             WriteBlock, Invalidate, ReadBack, ReadClock, Reply, IsNext
    <2>2. /\ pc'[r] = "done" /\ body' = body
          /\ \A q \in Requests \ {r} : pc'[q] = pc[q]
      BY <1>1 DEF Answer, Goto, Known, TypeInv, TypeOK
    <2>3. Served(r)'
      BY <2>2 DEF Served, For
    <2> QED
      BY <2>1, <2>2, <2>3, Sole, LocalServed DEF Known
  <1>2. CASE ReadType(r) \/ Validate(r) \/ WriteBlock(r) \/ ReadBack(r) \/ StartBlock(r)
             \/ (\E reg \in SingleRegs : WriteSingle(r, reg))
             \/ (\E job \in {"drop", "dropType"} : Invalidate(r, job))
    <2> SUFFICES ASSUME ~\E status, reply : Answer(r, status, reply) PROVE ServedInv'
      BY <1>1
    <2>1. /\ pc[r] \in {"readType", "validate", "block", "work"} /\ InFlight \subseteq {r}
          /\ body' = body
          /\ \A q \in Requests \ {r} : pc'[q] = pc[q]
      BY <1>2, Sole
      DEF ReadType, Validate, WriteBlock, ReadBack, StartBlock, WriteSingle, Invalidate, Goto,
          CallCached, IsNext, Known, TypeInv, TypeOK
    <2>2. body[r].op # "TimeGet" /\ (body[r].op = "ConfigPatch" => ~Malformed(body[r]))
      BY <2>1 DEF ServedInv, Served
    <2>3. \/ pc'[r] \in {"work", "clock"}
          \/ pc'[r] = "lookup" /\ after'[r] \in {"validate", "block"}
          \/ pc'[r] = "lookup" /\ body[r].op # "TimePatch"
      BY <1>2, <2>1
      DEF ReadType, Validate, WriteBlock, ReadBack, StartBlock, WriteSingle, Invalidate, Goto,
          CallCached, IsNext, Known, TypeInv, TypeOK
    <2>4. Served(r)'
      BY <2>1, <2>2, <2>3 DEF Served, For
    <2> QED
      BY <2>1, <2>4, LocalServed
  <1> QED
    BY <1>1, <1>2, ReadingServed DEF Step, ReadClock, Reply

LEMMA ArriveServed ==
  ASSUME MaxInFlight = 1, Known, ServedInv, NEW r \in Requests, NEW b \in Bodies, Arrive(r, b)
  PROVE  ServedInv'
  <1>1. pc[r] = "idle" /\ InFlight = {} /\ after[r] = "reply"
    <2>1. \E op : Receive(r, b, op)
      BY DEF Arrive, CachedGet, ConfigGet, TimeGet, ChargingPatch, ProfilePatch,
             ConfigPatch, TimePatch
    <2> QED
      BY <2>1, ReceiveQuiet DEF Known, Receive, TypeInv, IdleIsClean
  <1>2. /\ body'[r] = b
        /\ \A q \in Requests \ {r} : pc'[q] = pc[q] /\ body'[q] = body[q]
    <2>1. body' = [body EXCEPT ![r] = b]
      BY ArriveShape DEF Accept, Reject
    <2>2. \E place : Goto(r, place)
      BY DEF Arrive, CachedGet, ConfigGet, TimeGet, ChargingPatch, ProfilePatch,
             ConfigPatch, TimePatch, Reject, CallCached
    <2> QED
      BY <2>1, <2>2 DEF Goto, Known, TypeInv, TypeOK
  <1>3. /\ pc'[r] # "reply"
        /\ b.op = "TimeGet" => pc'[r] = "clock"
        /\ b.op = "TimePatch" => pc'[r] \in {"work", "done"}
        /\ b.op = "ConfigPatch" => pc'[r] = "done" \/ ~Malformed(b)
    BY DEF Arrive, CachedGet, ConfigGet, TimeGet, ChargingPatch, ProfilePatch, Receive,
           ConfigPatch, TimePatch, Reject, CallCached, Goto, Known, TypeInv, TypeOK
  <1>4. Served(r)'
    BY <1>2, <1>3 DEF Served, For
  <1> QED
    BY <1>1, <1>2, <1>4, LocalServed

LEMMA ServedInvariant ==
  ASSUME MaxInFlight = 1, MaxFaults = 0
  PROVE  Spec => []ServedInv
  <1>1. Init => ServedInv
    BY DEF Init, ServedInv, Served, For, NoBody
  <1>2. Known /\ CacheInv /\ ServedInv /\ [Next]_vars => ServedInv'
    <2> SUFFICES ASSUME Known, CacheInv, ServedInv, [Next]_vars PROVE ServedInv'
      OBVIOUS
    <2>1. CASE \E r \in Requests : Step(r)
      BY <2>1, StepServed
    <2>2. CASE \E r \in Requests, b \in Bodies : Arrive(r, b)
      BY <2>2, ArriveServed
    <2>3. CASE Expire \/ UNCHANGED vars
      BY <2>3 DEF Expire, vars, device, plans, ServedInv, Served, For, DeviceConfig
    <2> QED
      BY <2>1, <2>2, <2>3 DEF Next, AllAnswered
  <1> QED
    BY <1>1, <1>2, LoneInvariant, CacheInvariant, PTL DEF Spec

-----------------------------------------------------------------------------
\* The mapping of ImplementsStore, for one handler alone.
PhaseAt(place, resume) ==
  IF place = "done" THEN "done"
  ELSE IF \/ place \in {"work", "block", "clock", "reply"}
          \/ place \in {"lookup", "fill", "store"} /\ resume # "validate"
       THEN "accepted" ELSE "waiting"

JudgedAt(place, resume, b) == IF PhaseAt(place, resume) = "waiting" THEN NoBody ELSE b

StoreWith(left, b, proposed, rs, v) ==
  [ regs  |-> [x \in SingleRegs |-> IF x \in left THEN b.regs[x] ELSE rs[x]],
    block |-> IF "volts" \in left THEN EncodeBlock(proposed) ELSE v ]

\* The mapping itself, with the variables it reads as parameters.
StoreBy(left, bodies, proposals, rs, v) ==
  LET planned == UNION {left[q] : q \in Requests}
      writing(job) == CHOOSE q \in Requests : job \in left[q]
  IN  [ regs  |-> [x \in SingleRegs |-> IF x \in planned THEN bodies[writing(x)].regs[x]
                                                          ELSE rs[x]],
        block |-> IF "volts" \in planned THEN EncodeBlock(proposals[writing("volts")])
                                           ELSE v ]

LEMMA SettledBy ==
  /\ settled = StoreBy(todo, body, proposal, regs, block)
  /\ settled' = StoreBy(todo', body', proposal', regs', block')
  BY DEF settled, Writing, StoreBy, EncodeBlock

\* With one handler that has something left to write, the mapping names it.
LEMMA StoreAlone ==
  ASSUME NEW r \in Requests, NEW left, \A q \in Requests \ {r} : left[q] = {},
         NEW bodies, NEW proposals, NEW rs, NEW v
  PROVE  StoreBy(left, bodies, proposals, rs, v)
           = StoreWith(left[r], bodies[r], proposals[r], rs, v)
  <1>1. UNION {left[q] : q \in Requests} = left[r]
    OBVIOUS
  <1>2. ASSUME NEW job \in left[r] PROVE (CHOOSE q \in Requests : job \in left[q]) = r
    <2>1. \A q \in Requests : job \in left[q] <=> q = r
      BY <1>2
    <2> QED
      BY <2>1
  <1> QED
    BY <1>1, <1>2 DEF StoreBy, StoreWith

LEMMA NothingLeft ==
  ASSUME NEW b, NEW proposed, NEW rs \in [SingleRegs -> Nat], NEW v
  PROVE  StoreWith({}, b, proposed, rs, v) = [regs |-> rs, block |-> v]
  BY DEF StoreWith

\* What a step of the only handler does to the mapping.
LEMMA MappedStep ==
  ASSUME Known, NEW r \in Requests, InFlight \subseteq {r},
         \A q \in Requests \ {r} :
           /\ pc'[q] = pc[q] /\ after'[q] = after[q] /\ body'[q] = body[q]
           /\ todo'[q] = todo[q]
  PROVE  /\ settled = StoreWith(todo[r], body[r], proposal[r], regs, block)
         /\ settled' = StoreWith(todo'[r], body'[r], proposal'[r], regs', block')
         /\ phase[r] = PhaseAt(pc[r], after[r])
         /\ phase' = [phase EXCEPT ![r] = PhaseAt(pc'[r], after'[r])]
         /\ judged[r] = JudgedAt(pc[r], after[r], body[r])
         /\ judged' = [judged EXCEPT ![r] = JudgedAt(pc'[r], after'[r], body'[r])]
         /\ \A q \in Requests \ {r} : phase[q] # "accepted"
  <1>1. \A q \in Requests \ {r} : pc[q] \in {"idle", "done"} /\ todo[q] = {}
    BY DEF Known, LoneInv, InFlight
  <1>2. \A q \in Requests \ {r} : todo'[q] = {}
    BY <1>1
  <1>3. /\ phase = [q \in Requests |-> PhaseAt(pc[q], after[q])]
        /\ phase' = [q \in Requests |-> PhaseAt(pc'[q], after'[q])]
    BY DEF phase, Accepted, PhaseAt
  <1>4. /\ judged = [q \in Requests |-> JudgedAt(pc[q], after[q], body[q])]
        /\ judged' = [q \in Requests |-> JudgedAt(pc'[q], after'[q], body'[q])]
    BY <1>3 DEF judged, JudgedAt
  <1>5. \A q \in Requests \ {r} : phase[q] # "accepted"
    BY <1>1, <1>3 DEF PhaseAt
  <1>6. settled = StoreWith(todo[r], body[r], proposal[r], regs, block)
    BY <1>1, SettledBy, StoreAlone
  <1>7. settled' = StoreWith(todo'[r], body'[r], proposal'[r], regs', block')
    BY <1>2, SettledBy, StoreAlone
  <1>8. /\ phase[r] = PhaseAt(pc[r], after[r])
        /\ phase' = [phase EXCEPT ![r] = PhaseAt(pc'[r], after'[r])]
    BY <1>3
  <1>9. /\ judged[r] = JudgedAt(pc[r], after[r], body[r])
        /\ judged' = [judged EXCEPT ![r] = JudgedAt(pc'[r], after'[r], body'[r])]
    BY <1>4
  <1> QED
    BY <1>5, <1>6, <1>7, <1>8, <1>9

-----------------------------------------------------------------------------
(***************************************************************************)
(* The four ways a step of a handler looks like to its client.             *)
(***************************************************************************)
Unseen(r) ==
  /\ PhaseAt(pc'[r], after'[r]) = PhaseAt(pc[r], after[r])
  /\ body'[r] = body[r] \/ PhaseAt(pc[r], after[r]) = "waiting"
  /\ answer' = answer
  /\ StoreWith(todo'[r], body'[r], proposal'[r], regs', block')
       = StoreWith(todo[r], body[r], proposal[r], regs, block)

\* The handler's turn comes: todo is still empty, so the store is the device.
Judges(r, b) ==
  /\ b \in Bodies /\ body'[r] = b
  /\ todo[r] = {} /\ UNCHANGED <<regs, block>>
  /\ PhaseAt(pc[r], after[r]) = "waiting"

Accepts(r, b) ==
  /\ Judges(r, b)
  /\ PhaseAt(pc'[r], after'[r]) = "accepted"
  /\ Admissible(b, [regs |-> regs, block |-> block])
  /\ StoreWith(todo'[r], b, proposal'[r], regs, block)
       = Updated(b, [regs |-> regs, block |-> block])
  /\ answer' = answer

Refuses(r, b) ==
  /\ Judges(r, b)
  /\ pc'[r] = "done" /\ todo'[r] = {}
  /\ ~Admissible(b, [regs |-> regs, block |-> block])
  /\ answer' = [answer EXCEPT ![r] = Without("rejected")]

Replies(r) ==
  /\ PhaseAt(pc[r], after[r]) = "accepted" /\ pc'[r] = "done"
  /\ todo[r] = {} /\ todo'[r] = {}
  /\ UNCHANGED <<regs, block>> /\ body'[r] = body[r]
  /\ answer' = [answer EXCEPT ![r] = View(body[r], [regs |-> regs, block |-> block])]

LEMMA SeenAsStore ==
  ASSUME Known, NEW r \in Requests, InFlight \subseteq {r},
         \A q \in Requests \ {r} :
           /\ pc'[q] = pc[q] /\ after'[q] = after[q] /\ body'[q] = body[q]
           /\ todo'[q] = todo[q],
         Unseen(r) \/ Replies(r) \/ \E b : Accepts(r, b) \/ Refuses(r, b)
  PROVE  [Settings!Next]_Settings!vars
  <1> DEFINE st == [regs |-> regs, block |-> block]
  <1>1. /\ settled = StoreWith(todo[r], body[r], proposal[r], regs, block)
        /\ settled' = StoreWith(todo'[r], body'[r], proposal'[r], regs', block')
        /\ phase[r] = PhaseAt(pc[r], after[r])
        /\ phase' = [phase EXCEPT ![r] = PhaseAt(pc'[r], after'[r])]
        /\ judged[r] = JudgedAt(pc[r], after[r], body[r])
        /\ judged' = [judged EXCEPT ![r] = JudgedAt(pc'[r], after'[r], body'[r])]
        /\ \A q \in Requests \ {r} : phase[q] # "accepted"
    BY MappedStep
  <1>2. regs \in [SingleRegs -> Nat]
    BY DEF Known, TypeInv, TypeOK
  <1>3. phase = [phase EXCEPT ![r] = phase[r]] /\ judged = [judged EXCEPT ![r] = judged[r]]
    BY DEF phase, judged
  <1>4. todo[r] = {} => settled = st
    BY <1>1, <1>2, NothingLeft
  <1>5. CASE Unseen(r)
    <2>1. settled' = settled /\ phase' = phase /\ answer' = answer
      BY <1>1, <1>3, <1>5 DEF Unseen
    <2>2. judged' = judged
      BY <1>1, <1>3, <1>5 DEF Unseen, JudgedAt
    <2> QED
      BY <2>1, <2>2 DEF Settings!vars
  <1>6. CASE Replies(r)
    <2>1. /\ phase[r] = "accepted" /\ phase' = [phase EXCEPT ![r] = "done"]
          /\ judged[r] = body[r] /\ judged' = [judged EXCEPT ![r] = body[r]]
      BY <1>1, <1>6 DEF Replies, PhaseAt, JudgedAt
    <2>2. settled = st /\ settled' = st
      BY <1>1, <1>2, <1>6, NothingLeft DEF Replies
    <2>3. judged' = judged
      BY <1>3, <2>1
    <2>4. answer' = [answer EXCEPT ![r] = View(judged[r], settled)]
      BY <1>6, <2>1, <2>2 DEF Replies
    <2>5. Settings!Reply(r)
      BY <2>1, <2>2, <2>3, <2>4 DEF Settings!Reply
    <2> QED
      BY <2>5 DEF Settings!Next
  <1>7. ASSUME NEW b, Judges(r, b), NEW place \in {"accepted", "done"},
               PhaseAt(pc'[r], after'[r]) = place
        PROVE  /\ Settings!Judge(r, b, place)
               /\ b \in Bodies /\ settled = st
    <2>1. phase[r] = "waiting" /\ phase' = [phase EXCEPT ![r] = place]
          /\ judged' = [judged EXCEPT ![r] = b]
      BY <1>1, <1>7 DEF Judges, JudgedAt
    <2>2. \A q \in Requests : phase[q] # "accepted"
      BY <1>1, <2>1
    <2> QED
      BY <1>4, <1>7, <2>1, <2>2 DEF Judges, Settings!Judge
  <1>8. ASSUME NEW b, Accepts(r, b) PROVE Settings!Next
    <2>1. Settings!Judge(r, b, "accepted") /\ b \in Bodies /\ settled = st
      BY <1>7, <1>8 DEF Accepts
    <2>2. settled' = Updated(b, settled)
      BY <1>1, <1>8, <2>1 DEF Accepts, Judges
    <2>3. Settings!Accept(r, b)
      BY <1>8, <2>1, <2>2 DEF Accepts, Settings!Accept
    <2> QED
      BY <2>1, <2>3 DEF Settings!Next
  <1>9. ASSUME NEW b, Refuses(r, b) PROVE Settings!Next
    <2>1. Settings!Judge(r, b, "done") /\ b \in Bodies /\ settled = st
      BY <1>7, <1>9 DEF Refuses, PhaseAt
    <2>2. settled' = settled
      BY <1>1, <1>2, <1>9, <2>1, NothingLeft DEF Refuses, Judges
    <2>3. Settings!Refuse(r, b)
      BY <1>9, <2>1, <2>2 DEF Refuses, Settings!Refuse
    <2> QED
      BY <2>1, <2>3 DEF Settings!Next
  <1> QED
    BY <1>5, <1>6, <1>8, <1>9

-----------------------------------------------------------------------------
(***************************************************************************)
(* Which step looks like which.                                            *)
(***************************************************************************)
Seen(r) == Unseen(r) \/ Replies(r) \/ \E b : Accepts(r, b) \/ Refuses(r, b)

LEMMA ReadingSeen ==
  ASSUME MaxFaults = 0, Known, NEW r \in Requests, Lookup(r) \/ Fill(r) \/ Store(r)
  PROVE  Unseen(r)
  <1>1. ~Fault
    BY NoFault DEF Known
  <1>2. /\ UNCHANGED <<regs, block, body, proposal, todo, answer, after>>
        /\ pc[r] \in {"lookup", "fill", "store"} /\ after[r] \in {"validate", "block", "reply"}
    BY <1>1 DEF Lookup, Fill, Store, device, plans, Known, TypeInv, TypeOK
  <1>3. \/ pc'[r] \in {"fill", "store", after[r]}
        \/ pc'[r] = "reply" /\ after[r] = "reply"
    BY <1>1, <1>2, OwnKept DEF Lookup, Fill, Store, Goto, Known, TypeInv, TypeOK, Kept
  <1> QED
    BY <1>2, <1>3 DEF Unseen, PhaseAt

LEMMA Judging ==
  ASSUME Known, NEW r \in Requests, pc[r] \in {"readType", "validate"}
  PROVE  /\ body[r] \in Bodies /\ body[r].op \in {"ChargingPatch", "ConfigPatch"}
         /\ todo[r] = {} /\ PhaseAt(pc[r], after[r]) = "waiting"
         /\ pc[r] = "readType" /\ body[r].op = "ConfigPatch" => "type" \notin Asked(body[r])
  <1>1. /\ body[r].op \in {"ChargingPatch", "ConfigPatch"} /\ Alone(r)
        /\ pc[r] = "readType" /\ body[r].op = "ConfigPatch" => "type" \notin Asked(body[r])
    BY Sole, OwnKept DEF Known, Kept
  <1>2. body[r] \in Bodies
    BY <1>1 DEF Known, TypeInv, TypeOK, NoBody
  <1>3. todo[r] = {}
    BY <1>1 DEF Alone, DropsPlanned, For
  <1> QED
    BY <1>1, <1>2, <1>3 DEF PhaseAt

\* What the jobs of a handler amount to, as changes of the store.
LEMMA JobsChange ==
  ASSUME NEW b, NEW s
  PROVE  /\ b.op = "ChargingPatch" => Changes(b, s) = ChargingJobs(b) \ Drops
         /\ b.op = "ConfigPatch" => Changes(b, s) = ConfigJobs(b, Charges(b, s)) \ Drops
         /\ b.op \in {"ProfilePatch", "TimePatch"} =>
              Changes(b, s) = WithDrop(Asked(b)) \ Drops
  <1>1. Asked(b) \cap Drops = {} /\ VoltsJob(b) \cap Drops = {}
    BY DEF Asked, FieldsOf, Durations, VoltsJob, Drops
  <1>2. \A writes : writes \cap Drops = {} => WithDrop(writes) \ Drops = writes
    BY DEF WithDrop, Drops
  <1>3. b.op = "ChargingPatch" => Changes(b, s) = ChargingJobs(b) \ Drops
    BY <1>1, <1>2 DEF Changes, ChargingJobs
  <1>4. b.op = "ConfigPatch" => Changes(b, s) = ConfigJobs(b, Charges(b, s)) \ Drops
    BY DEF Changes, Drops
  <1>5. b.op \in {"ProfilePatch", "TimePatch"} => Changes(b, s) = WithDrop(Asked(b)) \ Drops
    BY <1>1, <1>2 DEF Changes
  <1> QED
    BY <1>3, <1>4, <1>5

LEMMA Judgement ==
  ASSUME NEW b, NEW s
  PROVE  /\ b.op = "ChargingPatch" =>
              (Admissible(b, s) <=> /\ Charges(b, s) /\ ~Malformed(b)
                                    /\ ValidVoltages(Proposal(b, DecodeBlock(s.block))))
         /\ b.op = "ConfigPatch" =>
              (Admissible(b, s) <=>
                 /\ ~Malformed(b)
                 /\ Charges(b, s) => ValidVoltages(Proposal(b, DecodeBlock(s.block))))
         /\ b.op \in {"ProfilePatch", "TimePatch"} => (Admissible(b, s) <=> ~Malformed(b))
         /\ b.op \in {"CachedGet", "ConfigGet", "TimeGet"} => Admissible(b, s)
  <1> DEFINE valid == ValidVoltages(Proposal(b, DecodeBlock(s.block)))
  <1>1. Admissible(b, s) <=>
          CASE b.op = "ChargingPatch" -> Charges(b, s) /\ ~Malformed(b) /\ valid
            [] b.op = "ConfigPatch"   -> ~Malformed(b) /\ (Charges(b, s) => valid)
            [] b.op \in {"ProfilePatch", "TimePatch"} -> ~Malformed(b)
            [] OTHER                  -> TRUE
    BY DEF Admissible
  <1> HIDE DEF valid
  <1>2. /\ b.op = "ChargingPatch" =>
             (Admissible(b, s) <=> Charges(b, s) /\ ~Malformed(b) /\ valid)
        /\ b.op = "ConfigPatch" =>
             (Admissible(b, s) <=> ~Malformed(b) /\ (Charges(b, s) => valid))
        /\ b.op \in {"ProfilePatch", "TimePatch"} => (Admissible(b, s) <=> ~Malformed(b))
        /\ b.op \in {"CachedGet", "ConfigGet", "TimeGet"} => Admissible(b, s)
    BY <1>1
  <1> QED
    BY <1>2 DEF valid

LEMMA PlanUpdates ==
  ASSUME NEW b, NEW s, NEW jobs, Changes(b, s) = jobs \ Drops, NEW proposed,
         "volts" \in jobs => proposed = Proposal(b, DecodeBlock(s.block))
  PROVE  StoreWith(jobs, b, proposed, s.regs, s.block) = Updated(b, s)
  <1>1. "volts" \in jobs <=> "volts" \in Changes(b, s)
    BY DEF Drops
  <1>2. \A x \in SingleRegs : x \in jobs <=> x \in Changes(b, s)
    BY DEF Drops, SingleRegs
  <1>3. [x \in SingleRegs |-> IF x \in jobs THEN b.regs[x] ELSE s.regs[x]]
          = [x \in SingleRegs |-> IF x \in Changes(b, s) THEN b.regs[x] ELSE s.regs[x]]
    BY <1>2
  <1> QED
    BY <1>1, <1>3 DEF StoreWith, Updated

LEMMA ReadTypeSeen ==
  ASSUME MaxFaults = 0, Known, ServedInv, NEW r \in Requests, ReadType(r)
  PROVE  Seen(r)
  <1> DEFINE b == body[r]
             st == [regs |-> regs, block |-> block]
  <1>1. /\ ~Fault /\ pc[r] = "readType" /\ UNCHANGED <<regs, block>>
    BY NoFault DEF Known, ReadType, device
  <1>2. /\ b \in Bodies /\ b.op \in {"ChargingPatch", "ConfigPatch"}
        /\ todo[r] = {} /\ PhaseAt(pc[r], after[r]) = "waiting"
        /\ b.op = "ConfigPatch" => "type" \notin Asked(b)
    BY <1>1, Judging
  <1>3. b.op = "ChargingPatch" => "type" \notin Asked(b)
    BY DEF Asked, FieldsOf, Durations
  <1>4. Charges(b, st) = (regs["type"] = UserDefined)
    BY <1>2, <1>3 DEF Charges
  <1>5. CASE /\ b.op = "ChargingPatch"
             /\ regs["type"] # UserDefined \/ ~b.json
             /\ Answer(r, "rejected", Blank)
    <2>1. ~Admissible(b, st)
      <3>1. ~b.json => Malformed(b)
        BY DEF Malformed
      <3> QED
        BY <1>4, <1>5, <3>1, Judgement
    <2>2. /\ body'[r] = b /\ pc'[r] = "done" /\ todo'[r] = {}
          /\ answer' = [answer EXCEPT ![r] = Without("rejected")]
      BY <1>5 DEF Answer, Goto, Without, Known, TypeInv, TypeOK
    <2>3. Refuses(r, b)
      BY <1>1, <1>2, <2>1, <2>2 DEF Refuses, Judges
    <2> QED
      BY <2>3 DEF Seen
  <1>6. CASE CallCached(r, "validate") /\ UNCHANGED <<body, proposal, todo, answer>>
    <2>1. pc'[r] = "lookup" /\ after'[r] = "validate"
      BY <1>6 DEF CallCached, Goto, Known, TypeInv, TypeOK
    <2>2. Unseen(r)
      BY <1>1, <1>2, <1>6, <2>1 DEF Unseen, PhaseAt
    <2> QED
      BY <2>2 DEF Seen
  <1>7. CASE /\ b.op = "ConfigPatch" /\ regs["type"] # UserDefined /\ Goto(r, "work")
             /\ UNCHANGED <<body, proposal, todo, answer>>
    <2>1. ~Malformed(b)
      BY <1>1, <1>7 DEF ServedInv, Served
    <2>2. Admissible(b, st)
      BY <1>4, <1>7, <2>1, Judgement
    <2>3. Changes(b, st) = {} \ Drops
      <3>1. ConfigJobs(b, FALSE) = {}
        BY <1>2, <1>7 DEF ConfigJobs
      <3>2. Charges(b, st) = FALSE
        BY <1>4, <1>7
      <3> QED
        BY <1>7, <3>1, <3>2, JobsChange
    <2>4. StoreWith({}, b, proposal[r], st.regs, st.block) = Updated(b, st)
      BY <2>3, PlanUpdates
    <2>5. pc'[r] = "work"
      BY <1>7 DEF Goto, Known, TypeInv, TypeOK
    <2>6. Accepts(r, b)
      BY <1>1, <1>2, <1>7, <2>2, <2>4, <2>5 DEF Accepts, Judges, PhaseAt
    <2> QED
      BY <2>6 DEF Seen
  <1> QED
    BY <1>1, <1>5, <1>6, <1>7 DEF ReadType

LEMMA ValidateSeen ==
  ASSUME Known, CacheInv, NEW r \in Requests, Validate(r)
  PROVE  Seen(r)
  <1> DEFINE b == body[r]
             st == [regs |-> regs, block |-> block]
             proposed == Proposal(b, DecodeBlock(block))
             jobs == IF b.op = "ChargingPatch" THEN ChargingJobs(b) ELSE ConfigJobs(b, TRUE)
  <1>1. /\ pc[r] = "validate" /\ UNCHANGED <<regs, block>>
        /\ proposed = Proposal(b, config[r].volts)
    BY DEF Validate, device, CacheInv
  <1>2. /\ b \in Bodies /\ b.op \in {"ChargingPatch", "ConfigPatch"}
        /\ todo[r] = {} /\ PhaseAt(pc[r], after[r]) = "waiting"
    BY <1>1, Judging
  <1>3. Charges(b, st) = TRUE
    <2>1. IF SetsType(b) THEN b.regs["type"] = UserDefined ELSE regs["type"] = UserDefined
      BY <1>1, Sole DEF Known, Alone, TypeFirst
    <2>2. SetsType(b) <=> "type" \in Asked(b)
      BY <1>2 DEF SetsType, Asked, FieldsOf, Durations
    <2> QED
      BY <2>1, <2>2 DEF Charges
  <1> HIDE DEF proposed
  <1>4. Admissible(b, st) <=> ~Malformed(b) /\ ValidVoltages(proposed)
    BY <1>2, <1>3, Judgement DEF proposed
  <1>5. CASE ~(~Malformed(b) /\ ValidVoltages(proposed))
    <2>1. Answer(r, "rejected", Blank)
      BY <1>1, <1>5 DEF Validate
    <2>2. /\ body'[r] = b /\ pc'[r] = "done" /\ todo'[r] = {}
          /\ answer' = [answer EXCEPT ![r] = Without("rejected")]
      BY <2>1 DEF Answer, Goto, Without, Known, TypeInv, TypeOK
    <2>3. Refuses(r, b)
      BY <1>1, <1>2, <1>4, <1>5, <2>2 DEF Refuses, Judges
    <2> QED
      BY <2>3 DEF Seen
  <1>6. CASE ~Malformed(b) /\ ValidVoltages(proposed)
    <2>1. /\ Goto(r, "work") /\ proposal' = [proposal EXCEPT ![r] = proposed]
          /\ todo' = [todo EXCEPT ![r] = jobs]
          /\ UNCHANGED <<body, answer>>
      BY <1>1, <1>6 DEF Validate
    <2>2. pc'[r] = "work" /\ proposal'[r] = proposed /\ todo'[r] = jobs
      BY <2>1 DEF Goto, Known, TypeInv, TypeOK
    <2>3. Changes(b, st) = jobs \ Drops
      <3>1. CASE b.op = "ChargingPatch"
        BY <3>1, JobsChange
      <3>2. CASE b.op = "ConfigPatch"
        <4>1. Changes(b, st) = ConfigJobs(b, TRUE) \ Drops
          BY <1>3, <3>2, JobsChange
        <4> QED
          BY <3>2, <4>1
      <3> QED
        BY <1>2, <3>1, <3>2
    <2> HIDE DEF jobs
    <2>4. StoreWith(jobs, b, proposed, st.regs, st.block) = Updated(b, st)
      BY <2>3, PlanUpdates DEF proposed
    <2>5. Accepts(r, b)
      BY <1>1, <1>2, <1>4, <1>6, <2>1, <2>2, <2>4 DEF Accepts, Judges, PhaseAt
    <2> QED
      BY <2>5 DEF Seen
  <1> QED
    BY <1>5, <1>6

\* A write that is made no longer has to be counted as made.
LEMMA WriteSingleSeen ==
  ASSUME MaxFaults = 0, Known, NEW r \in Requests, NEW reg \in SingleRegs, WriteSingle(r, reg)
  PROVE  Unseen(r)
  <1>1. /\ reg \in todo[r] /\ UNCHANGED <<block, pc, after, body, proposal, answer>>
        /\ regs' = [regs EXCEPT ![reg] = body[r].regs[reg]]
        /\ todo' = [todo EXCEPT ![r] = todo[r] \ {reg}]
    BY NoFault DEF Known, WriteSingle, IsNext, Done
  <1>2. /\ todo'[r] = todo[r] \ {reg} /\ reg # "volts"
        /\ regs'[reg] = body[r].regs[reg]
        /\ \A x \in SingleRegs \ {reg} : regs'[x] = regs[x]
    BY <1>1 DEF Known, TypeInv, TypeOK, SingleRegs
  <1>3. \A x \in SingleRegs : (IF x \in todo'[r] THEN body[r].regs[x] ELSE regs'[x])
                              = (IF x \in todo[r] THEN body[r].regs[x] ELSE regs[x])
    BY <1>1, <1>2
  <1>4. StoreWith(todo'[r], body[r], proposal[r], regs', block)
          = StoreWith(todo[r], body[r], proposal[r], regs, block)
    BY <1>2, <1>3 DEF StoreWith
  <1> QED
    BY <1>1, <1>4 DEF Unseen

LEMMA WriteBlockSeen ==
  ASSUME MaxFaults = 0, Known, NEW r \in Requests, WriteBlock(r)
  PROVE  Unseen(r)
  <1>1. /\ pc[r] = "block" /\ "volts" \in todo[r]
        /\ todo' = [todo EXCEPT ![r] = todo[r] \ {"volts"}]
        /\ pc' = [pc EXCEPT ![r] = "work"]
        /\ block' = EncodeBlock(proposal[r])
        /\ UNCHANGED <<regs, after, body, proposal, answer>>
    BY NoFault, SendsProposal DEF Known, WriteBlock, Done, Goto, Sent
  <1>2. todo'[r] = todo[r] \ {"volts"} /\ pc'[r] = "work" /\ "volts" \notin SingleRegs
    BY <1>1 DEF Known, TypeInv, TypeOK, SingleRegs
  <1>3. StoreWith(todo'[r], body[r], proposal[r], regs, block')
          = StoreWith(todo[r], body[r], proposal[r], regs, block)
    BY <1>1, <1>2 DEF StoreWith
  <1> QED
    BY <1>1, <1>2, <1>3 DEF Unseen, PhaseAt

LEMMA PassingSeen ==
  ASSUME Known, NEW r \in Requests,
         \/ StartBlock(r) \/ ReadBack(r)
         \/ \E job \in {"drop", "dropType"} : Invalidate(r, job)
  PROVE  Unseen(r)
  <1>1. /\ pc[r] = "work" /\ UNCHANGED <<regs, block, body, proposal, answer>>
        /\ \/ todo' = todo
           \/ \E job \in {"drop", "dropType"} : todo' = [todo EXCEPT ![r] = todo[r] \ {job}]
    BY DEF StartBlock, ReadBack, Invalidate, IsNext, Done, device, plans
  <1>2. \/ pc'[r] \in {"work", "clock"}
        \/ pc'[r] = "lookup" /\ after'[r] # "validate"
    BY <1>1
    DEF StartBlock, ReadBack, Invalidate, CallCached, Goto, Known, TypeInv, TypeOK
  <1>3. \A x \in SingleRegs \cup {"volts"} : x \in todo'[r] <=> x \in todo[r]
    BY <1>1 DEF SingleRegs, Known, TypeInv, TypeOK
  <1>4. StoreWith(todo'[r], body[r], proposal[r], regs, block)
          = StoreWith(todo[r], body[r], proposal[r], regs, block)
    BY <1>3 DEF StoreWith
  <1> QED
    BY <1>1, <1>2, <1>4 DEF Unseen, PhaseAt

LEMMA LastSeen ==
  ASSUME MaxFaults = 0, Known, ServedInv, NEW r \in Requests, ReadClock(r) \/ Reply(r)
  PROVE  Replies(r)
  <1> DEFINE st == [regs |-> regs, block |-> block]
  <1>1. /\ pc[r] \in {"clock", "reply"} /\ Alone(r) /\ ~Fault
        /\ UNCHANGED <<regs, block>>
    BY NoFault, Sole DEF Known, ReadClock, Reply, device
  <1>2. todo[r] = {}
    BY <1>1 DEF Alone, DropsPlanned, For
  <1>3. Answer(r, "ok", View(body[r], st).config)
    <2>1. CASE ReadClock(r)
      <3>1. body[r].op \in {"TimeGet", "TimePatch"}
        BY <1>1, <2>1 DEF ReadClock, Alone, ShowsDevice
      <3>2. View(body[r], st).config = [Blank EXCEPT !.regs["clock"] = regs["clock"]]
        BY <3>1 DEF View
      <3> QED
        BY <1>1, <2>1, <3>2 DEF ReadClock
    <2>2. CASE Reply(r)
      <3>1. config[r] = DeviceConfig /\ body[r].op \notin {"TimeGet", "TimePatch"}
        BY <2>2 DEF Reply, ServedInv, Served
      <3>2. View(body[r], st).config = DeviceConfig
        BY <3>1 DEF View, DeviceConfig
      <3> QED
        BY <2>2, <3>1, <3>2 DEF Reply
    <2> QED
      BY <2>1, <2>2
  <1>4. View(body[r], st) = [status |-> "ok", config |-> View(body[r], st).config]
    BY DEF View
  <1>5. /\ pc'[r] = "done" /\ todo'[r] = {} /\ body' = body
        /\ answer' = [answer EXCEPT ![r] = View(body[r], st)]
    BY <1>3, <1>4 DEF Answer, Goto, Known, TypeInv, TypeOK
  <1> QED
    BY <1>1, <1>2, <1>5 DEF Replies, PhaseAt

\* A request that is neither rejected nor kept waiting when it arrives.
LEMMA AcceptSeen ==
  ASSUME Known, NEW r \in Requests, NEW b \in Bodies, pc[r] = "idle", Accept(r, b),
         UNCHANGED proposal,
         NEW jobs, todo' = [todo EXCEPT ![r] = jobs], "volts" \notin jobs,
         PhaseAt(pc'[r], after'[r]) = "accepted",
         Changes(b, [regs |-> regs, block |-> block]) = jobs \ Drops,
         Admissible(b, [regs |-> regs, block |-> block])
  PROVE  Seen(r)
  <1> DEFINE st == [regs |-> regs, block |-> block]
  <1>1. /\ todo[r] = {} /\ todo'[r] = jobs /\ body'[r] = b
        /\ UNCHANGED <<regs, block, answer>>
    BY DEF Known, TypeInv, IdleIsClean, TypeOK, Accept, device
  <1>2. StoreWith(jobs, b, proposal[r], st.regs, st.block) = Updated(b, st)
    BY PlanUpdates
  <1>3. Accepts(r, b)
    BY <1>1, <1>2 DEF Accepts, Judges, PhaseAt
  <1> QED
    BY <1>3 DEF Seen

\* A request whose turn has not come.
LEMMA WaitSeen ==
  ASSUME Known, NEW r \in Requests, NEW b, pc[r] = "idle", Accept(r, b),
         UNCHANGED <<proposal, todo>>,
         PhaseAt(pc'[r], after'[r]) = "waiting"
  PROVE  Seen(r)
  <1>1. todo[r] = {} /\ todo'[r] = {} /\ UNCHANGED <<regs, block, answer>>
    BY DEF Known, TypeInv, IdleIsClean, Accept, device
  <1>2. StoreWith({}, body'[r], proposal'[r], regs, block)
          = StoreWith({}, body[r], proposal[r], regs, block)
    BY DEF StoreWith
  <1>3. Unseen(r)
    BY <1>1, <1>2 DEF Unseen, PhaseAt
  <1> QED
    BY <1>3 DEF Seen

LEMMA RejectSeen ==
  ASSUME Known, NEW r \in Requests, NEW b \in Bodies, pc[r] = "idle", Reject(r, b),
         ~Admissible(b, [regs |-> regs, block |-> block])
  PROVE  Seen(r)
  <1>1. /\ todo[r] = {} /\ todo'[r] = {} /\ body'[r] = b /\ pc'[r] = "done"
        /\ UNCHANGED <<regs, block>>
        /\ answer' = [answer EXCEPT ![r] = Without("rejected")]
    BY DEF Known, TypeInv, IdleIsClean, TypeOK, Reject, Goto, Without, device, plans
  <1>2. Refuses(r, b)
    BY <1>1 DEF Refuses, Judges, PhaseAt
  <1> QED
    BY <1>2 DEF Seen

LEMMA ArriveSeen ==
  ASSUME Known, NEW r \in Requests, NEW b \in Bodies, Arrive(r, b)
  PROVE  Seen(r)
  <1> DEFINE st == [regs |-> regs, block |-> block]
  <1>1. /\ pc[r] = "idle" /\ todo[r] = {} /\ after[r] = "reply"
        /\ todo = [todo EXCEPT ![r] = {}]
    BY ArriveShape, Same DEF Known, TypeInv, IdleIsClean
  <1>2. CASE CachedGet(r, b) \/ ConfigGet(r, b) \/ TimeGet(r, b)
    <2>1. b.op \in {"CachedGet", "ConfigGet", "TimeGet"} /\ Accept(r, b)
          /\ UNCHANGED <<proposal, todo>>
      BY <1>2 DEF CachedGet, ConfigGet, TimeGet, Receive
    <2>2. PhaseAt(pc'[r], after'[r]) = "accepted"
      BY <1>1, <1>2
      DEF CachedGet, ConfigGet, TimeGet, CallCached, Goto, PhaseAt, Known, TypeInv, TypeOK
    <2>3. Changes(b, st) = {} \ Drops
      <3>1. Asked(b) = {}
        BY <2>1 DEF Asked, FieldsOf
      <3> QED
        BY <2>1, <3>1 DEF Changes
    <2>4. Admissible(b, st)
      BY <2>1, Judgement
    <2> QED
      BY <1>1, <2>1, <2>2, <2>3, <2>4, AcceptSeen
  <1>3. CASE ChargingPatch(r, b)
    <2>1. PhaseAt(pc'[r], after'[r]) = "waiting"
      BY <1>3 DEF ChargingPatch, Goto, PhaseAt, Known, TypeInv, TypeOK
    <2> QED
      BY <1>1, <1>3, <2>1, WaitSeen DEF ChargingPatch
  <1>4. CASE ProfilePatch(r, b) \/ TimePatch(r, b)
    <2>1. b.op \in {"ProfilePatch", "TimePatch"} /\ (Admissible(b, st) <=> ~Malformed(b))
      BY <1>4, Judgement DEF ProfilePatch, TimePatch, Receive
    <2>2. CASE Malformed(b)
      BY <1>1, <1>4, <2>1, <2>2, RejectSeen DEF ProfilePatch, TimePatch
    <2>3. CASE ~Malformed(b)
      <3>1. /\ Goto(r, "work") /\ Accept(r, b) /\ UNCHANGED proposal
            /\ todo' = [todo EXCEPT ![r] = WithDrop(Asked(b))]
        <4>1. b.op = "TimePatch" => Asked(b) = {"clock"}
          BY <2>3 DEF Malformed, Asked, FieldsOf
        <4> QED
          BY <1>4, <2>3, <4>1 DEF ProfilePatch, TimePatch, Receive
      <3>2. PhaseAt(pc'[r], after'[r]) = "accepted"
        BY <3>1 DEF Goto, PhaseAt, Known, TypeInv, TypeOK
      <3>3. "volts" \notin WithDrop(Asked(b))
        BY <2>1 DEF WithDrop, Asked, FieldsOf
      <3>4. Changes(b, st) = WithDrop(Asked(b)) \ Drops
        BY <2>1, JobsChange
      <3> QED
        BY <1>1, <2>1, <2>3, <3>1, <3>2, <3>3, <3>4, AcceptSeen
    <2> QED
      BY <2>2, <2>3
  <1>5. CASE ConfigPatch(r, b)
    <2>1. b.op = "ConfigPatch"
      BY <1>5 DEF ConfigPatch, Receive
    <2>2. CASE Malformed(b) /\ Reject(r, b)
      <3>1. ~Admissible(b, st)
        BY <2>1, <2>2, Judgement
      <3> QED
        BY <1>1, <2>2, <3>1, RejectSeen
    <2>3. CASE /\ Accept(r, b) /\ UNCHANGED <<proposal, todo>>
               /\ (Goto(r, "readType") \/ CallCached(r, "validate"))
      <3>1. PhaseAt(pc'[r], after'[r]) = "waiting"
        BY <2>3 DEF CallCached, Goto, PhaseAt, Known, TypeInv, TypeOK
      <3> QED
        BY <1>1, <2>3, <3>1, WaitSeen
    <2>4. CASE /\ ~Malformed(b) /\ "type" \in Asked(b) /\ b.regs["type"] # UserDefined
               /\ Goto(r, "work") /\ Accept(r, b) /\ UNCHANGED proposal
               /\ todo' = [todo EXCEPT ![r] = ConfigJobs(b, FALSE)]
      <3>1. Charges(b, st) = FALSE
        BY <2>4 DEF Charges
      <3>2. Admissible(b, st) /\ Changes(b, st) = ConfigJobs(b, FALSE) \ Drops
        BY <2>1, <2>4, <3>1, Judgement, JobsChange
      <3>3. "volts" \notin ConfigJobs(b, FALSE)
        BY DEF ConfigJobs
      <3>4. PhaseAt(pc'[r], after'[r]) = "accepted"
        BY <2>4 DEF Goto, PhaseAt, Known, TypeInv, TypeOK
      <3> QED
        BY <1>1, <2>4, <3>2, <3>3, <3>4, AcceptSeen
    <2> QED
      BY <1>5, <2>2, <2>3, <2>4 DEF ConfigPatch
  <1> QED
    BY <1>2, <1>3, <1>4, <1>5 DEF Arrive

LEMMA StepSeen ==
  ASSUME MaxFaults = 0, Known, CacheInv, ServedInv, NEW r \in Requests, Step(r)
  PROVE  Seen(r)
  BY ReadingSeen, ReadTypeSeen, ValidateSeen, WriteSingleSeen, WriteBlockSeen, PassingSeen,
     LastSeen
  DEF Step, Seen

\* A step of a handler changes nothing of the others.
LEMMA StepFrame ==
  ASSUME Known, NEW r \in Requests, Step(r)
  PROVE  /\ InFlight \subseteq {r}
         /\ \A q \in Requests \ {r} :
              /\ pc'[q] = pc[q] /\ after'[q] = after[q] /\ body'[q] = body[q]
              /\ todo'[q] = todo[q]
  <1>1. pc[r] \notin {"idle", "done"} /\ UNCHANGED body
    BY DEF Step, Lookup, Fill, Store, ReadType, Validate, WriteSingle, StartBlock,
           WriteBlock, Invalidate, ReadBack, ReadClock, Reply, IsNext, Answer, plans
  <1>2. InFlight \subseteq {r}
    BY <1>1, Sole DEF Known
  <1>3. CASE \E status, reply : Answer(r, status, reply)
    BY <1>1, <1>2, <1>3 DEF Answer, Goto, Known, TypeInv, TypeOK
  <1>4. CASE ~\E status, reply : Answer(r, status, reply)
    <2>1. /\ UNCHANGED pc \/ \E place : Goto(r, place)
          /\ UNCHANGED after \/ \E aim : after' = [after EXCEPT ![r] = aim]
          /\ UNCHANGED todo \/ \E left : todo' = [todo EXCEPT ![r] = left]
      BY <1>4
      DEF Step, Lookup, Fill, Store, ReadType, Validate, WriteSingle, StartBlock, WriteBlock,
          Invalidate, ReadBack, ReadClock, Reply, CallCached, Done, plans
    <2> QED
      BY <1>1, <1>2, <2>1 DEF Goto, Known, TypeInv, TypeOK
  <1> QED
    BY <1>3, <1>4

LEMMA ArriveFrame ==
  ASSUME MaxInFlight = 1, Known, NEW r \in Requests, NEW b \in Bodies, Arrive(r, b)
  PROVE  /\ InFlight \subseteq {r}
         /\ \A q \in Requests \ {r} :
              /\ pc'[q] = pc[q] /\ after'[q] = after[q] /\ body'[q] = body[q]
              /\ todo'[q] = todo[q]
  <1>1. InFlight = {}
    <2>1. \E op : Receive(r, b, op)
      BY DEF Arrive, CachedGet, ConfigGet, TimeGet, ChargingPatch, ProfilePatch,
             ConfigPatch, TimePatch
    <2> QED
      BY <2>1, ReceiveQuiet DEF Known
  <1>2. body' = [body EXCEPT ![r] = b]
    BY ArriveShape DEF Accept, Reject
  <1>3. /\ \E place : Goto(r, place)
        /\ UNCHANGED after \/ \E aim : after' = [after EXCEPT ![r] = aim]
        /\ UNCHANGED todo \/ \E left : todo' = [todo EXCEPT ![r] = left]
    BY DEF Arrive, CachedGet, ConfigGet, TimeGet, ChargingPatch, ProfilePatch,
           ConfigPatch, TimePatch, Reject, CallCached, plans
  <1> QED
    BY <1>1, <1>2, <1>3 DEF Goto, Known, TypeInv, TypeOK

\* The settings as a lone client sees them over a bus that does not fail: every
\* step of a handler is a step of SettingsStore or none.  A PATCH is judged by
\* what the device holds and takes effect as a whole or not at all, and its
\* answer shows the outcome (the handlers of configurer*.go).
THEOREM ConfigurerImplementsStore ==
  ASSUME MaxInFlight = 1, MaxFaults = 0
  PROVE  Spec => ImplementsStore
  <1>1. Init => Settings!Init
    <2> SUFFICES ASSUME Init PROVE Settings!Init
      OBVIOUS
    <2>1. settled = [regs |-> InitialRegs, block |-> InitialBlock]
      <3>1. UNION {todo[r] : r \in Requests} = {}
        BY DEF Init
      <3> QED
        BY <3>1, DeviceAssumption DEF Init, settled
    <2>2. phase = [r \in Requests |-> "waiting"]
      BY DEF Init, phase, Accepted
    <2>3. judged = [r \in Requests |-> NoBody]
      BY <2>2 DEF judged
    <2>4. answer = [r \in Requests |-> Without("none")]
      BY DEF Init, Without
    <2> QED
      BY <2>1, <2>2, <2>3, <2>4 DEF Settings!Init
  <1>2. Known /\ CacheInv /\ ServedInv /\ [Next]_vars => [Settings!Next]_Settings!vars
    <2> SUFFICES ASSUME Known, CacheInv, ServedInv, [Next]_vars
                 PROVE  [Settings!Next]_Settings!vars
      OBVIOUS
    <2>1. ASSUME NEW r \in Requests, Step(r) PROVE [Settings!Next]_Settings!vars
      BY <2>1, StepSeen, StepFrame, SeenAsStore DEF Seen
    <2>2. ASSUME NEW r \in Requests, NEW b \in Bodies, Arrive(r, b)
          PROVE  [Settings!Next]_Settings!vars
      BY <2>2, ArriveSeen, ArriveFrame, SeenAsStore DEF Seen
    <2>3. CASE Expire \/ UNCHANGED vars
      <3>1. UNCHANGED <<regs, block, pc, after, body, proposal, todo, answer>>
        BY <2>3 DEF Expire, vars, device, plans
      <3>2. settled' = settled
        BY <3>1 DEF settled, Writing, EncodeBlock
      <3>3. phase' = phase /\ judged' = judged
        BY <3>1 DEF phase, judged, Accepted
      <3> QED
        BY <3>1, <3>2, <3>3 DEF Settings!vars
    <2> QED
      BY <2>1, <2>2, <2>3 DEF Next, AllAnswered
  <1> QED
    BY <1>1, <1>2, LoneInvariant, CacheInvariant, ServedInvariant, PTL
    DEF Spec, ImplementsStore, Settings!Spec
=============================================================================
