-------------------------- MODULE Telemetry_proof --------------------------
(***************************************************************************)
(* Proofs about Telemetry, for any controllers, sizes, periods and bounds. *)
(***************************************************************************)
EXTENDS Telemetry, TLAPS, FiniteSetTheorems

\* A run that is collecting or publishing has set its controller's flag, and
\* has seen no status newer than its own.
BusyHoldsFlag == \A g \in Runs : pc[g] \in Busy => inProgress[g[1]]

StatusIsOlder ==
  \A g \in Runs :
    pc[g] \in Busy => lastStatus[g[1]] <= started[g] /\ started[g] <= now

StatusIsPast == \A c \in Controllers : lastStatus[c] <= now

\* The inductive invariant.
Inv == /\ TypeOK /\ BufferBounded
       /\ BusyHoldsFlag /\ FlagHasOwner /\ OneCycleAtATime
       /\ StatusIsOlder /\ StatusIsPast

LEMMA RunsType == ASSUME NEW g \in Runs PROVE g[1] \in Controllers /\ g[2] \in Nat
  BY ControllersAssumption DEF Runs

LEMMA InitInv == Init => Inv
  <1> SUFFICES ASSUME Init PROVE Inv
    OBVIOUS
  <1> USE DEF Init, InitPublisher
  <1>1. TypeOK
    <2>1. \A g \in Runs : next[g] <= CycleSize[g[1]]
      BY RunsType, ControllersAssumption
    <2>2. buffer \in Seq(Samples)
      OBVIOUS
    <2>3. pc \in [Runs -> Busy \cup {"new", "done"}]
      OBVIOUS
    <2>4. now \in Nat \ {0} /\ lastPublish \in 1..now /\ published \in Nat
      OBVIOUS
    <2> QED
      BY <2>1, <2>2, <2>3, <2>4 DEF TypeOK
  <1>2. BufferBounded
    BY BatchAssumption DEF BufferBounded
  <1>3. BusyHoldsFlag /\ OneCycleAtATime /\ StatusIsOlder
    BY DEF BusyHoldsFlag, OneCycleAtATime, StatusIsOlder, Busy
  <1>4. StatusIsPast /\ FlagHasOwner
    BY DEF StatusIsPast, FlagHasOwner
  <1> QED
    BY <1>1, <1>2, <1>3, <1>4 DEF Inv

\* A sample is what the buffer holds.
LEMMA SampleType ==
  ASSUME TypeOK, NEW g \in Runs
  PROVE  Sample(g) \in Samples
  <1>1. next[g] \in Nat /\ next[g] <= CycleSize[g[1]] /\ now \in Nat /\ started[g] \in Nat
    BY DEF TypeOK
  <1>2. <<g[1], next[g]>> \in {s \in Controllers \X Nat : s[2] <= CycleSize[s[1]]}
    BY <1>1, RunsType
  <1> QED
    BY <1>1, <1>2 DEF Sample, Samples

\* Publishing keeps the buffer a sequence of samples shorter than a batch.
LEMMA PublishBuffer ==
  ASSUME TypeOK, NEW sample \in Samples, Publish(sample), now' = now
  PROVE  /\ buffer' \in Seq(Samples) /\ Len(buffer') < BatchSize
         /\ lastPublish' \in 1..now' /\ published' \in Nat /\ closed' \in BOOLEAN
  <1> DEFINE batch == Append(buffer, sample)
  <1>1. batch \in Seq(Samples) /\ Len(batch) \in Nat
    BY DEF TypeOK
  <1>2. published' \in Nat /\ closed' \in BOOLEAN
    BY DEF Publish, TypeOK
  <1>3. CASE ShouldFlush(batch)
    <2>1. FlushBatch(batch)
      BY <1>3 DEF Publish
    <2>2. buffer' = <<>> /\ lastPublish' = now
      BY <2>1 DEF FlushBatch
    <2> QED
      BY <1>2, <2>2, BatchAssumption DEF TypeOK
  <1>4. CASE ~ShouldFlush(batch)
    <2>1. buffer' = batch /\ lastPublish' = lastPublish
      BY <1>4 DEF Publish
    <2>2. ~(Len(batch) >= BatchSize)
      BY <1>4 DEF ShouldFlush
    <2> QED
      BY <1>1, <1>2, <2>1, <2>2, BatchAssumption DEF TypeOK
  <1> QED
    BY <1>3, <1>4

\* Closing empties the buffer or leaves it alone.
LEMMA CloseBuffer ==
  ASSUME TypeOK, BufferBounded, ClosePublisher
  PROVE  /\ buffer' \in Seq(Samples) /\ Len(buffer') < BatchSize
         /\ now' = now /\ lastPublish' \in 1..now'
         /\ published' \in Nat /\ closed' \in BOOLEAN
  <1>1. now' = now /\ published' = published /\ closed' = TRUE
    BY DEF ClosePublisher
  <1>2. CASE buffer = <<>>
    BY <1>1, <1>2 DEF ClosePublisher, TypeOK, BufferBounded
  <1>3. CASE buffer # <<>>
    <2>1. FlushBatch(buffer)
      BY <1>3 DEF ClosePublisher
    <2>2. buffer' = <<>> /\ lastPublish' = now
      BY <2>1 DEF FlushBatch
    <2> QED
      BY <1>1, <2>2, BatchAssumption DEF TypeOK
  <1> QED
    BY <1>2, <1>3

\* A run that goes on keeps the flag its own.
LEMMA OwnerStays ==
  ASSUME Inv, UNCHANGED inProgress,
         \A h \in Runs : pc[h] \in Busy => pc'[h] \in Busy
  PROVE  FlagHasOwner'
  BY DEF Inv, FlagHasOwner

-----------------------------------------------------------------------------
LEMMA StartInv ==
  ASSUME Inv, NEW g \in Runs, Start(g)
  PROVE  Inv'
  <1>0. g[1] \in Controllers
    BY RunsType
  <1>1. /\ UNCHANGED <<now, buffer, lastPublish, published, closed, next, lastStatus, hasInfo>>
        /\ pc[g] = "new"
    BY DEF Start, publisher
  <1>2. BufferBounded' /\ StatusIsPast'
    BY <1>1 DEF Inv, BufferBounded, StatusIsPast
  <1>3. CASE inProgress[g[1]]
    <2>1. pc' = [pc EXCEPT ![g] = "done"] /\ UNCHANGED <<inProgress, started>>
      BY <1>3 DEF Start, Goto
    <2>2. \A h \in Runs : pc'[h] \in Busy => pc[h] \in Busy
      BY <2>1 DEF Inv, TypeOK, Busy
    <2>3. TypeOK'
      BY <1>1, <2>1 DEF Inv, TypeOK, Busy
    <2>4. BusyHoldsFlag' /\ OneCycleAtATime' /\ StatusIsOlder'
      BY <1>1, <2>1, <2>2 DEF Inv, BusyHoldsFlag, OneCycleAtATime, StatusIsOlder
    <2>5. \A h \in Runs : pc[h] \in Busy => pc'[h] \in Busy
      BY <1>1, <2>1 DEF Inv, TypeOK, Busy
    <2>6. FlagHasOwner'
      BY <2>1, <2>5 DEF Inv, FlagHasOwner
    <2> QED
      BY <1>2, <2>3, <2>4, <2>6 DEF Inv
  <1>4. CASE ~inProgress[g[1]]
    <2>1. /\ pc' = [pc EXCEPT ![g] = "reading"]
          /\ inProgress' = [inProgress EXCEPT ![g[1]] = TRUE]
          /\ started' = [started EXCEPT ![g] = now]
      BY <1>4 DEF Start, Goto
    <2>2. \A h \in Runs : pc'[h] \in Busy => h = g \/ (pc[h] \in Busy /\ h[1] # g[1])
      BY <1>4, <2>1 DEF Inv, TypeOK, BusyHoldsFlag
    <2>3. TypeOK'
      BY <1>0, <1>1, <2>1 DEF Inv, TypeOK, Busy
    <2>4. BusyHoldsFlag'
      BY <1>0, <2>1, <2>2, RunsType DEF Inv, TypeOK, BusyHoldsFlag
    <2>5. OneCycleAtATime'
      <3> SUFFICES ASSUME NEW h \in Runs, NEW k \in Runs, h[1] = k[1],
                          pc'[h] \in Busy, pc'[k] \in Busy
                   PROVE  h = k
        BY DEF OneCycleAtATime
      <3> QED
        BY <2>2 DEF Inv, OneCycleAtATime
    <2>6. StatusIsOlder'
      <3> SUFFICES ASSUME NEW h \in Runs, pc'[h] \in Busy
                   PROVE  lastStatus'[h[1]] <= started'[h] /\ started'[h] <= now'
        BY DEF StatusIsOlder
      <3>1. CASE h = g
        BY <1>0, <1>1, <2>1, <3>1 DEF Inv, TypeOK, StatusIsPast
      <3>2. CASE h # g
        BY <1>1, <2>1, <2>2, <3>2 DEF Inv, TypeOK, StatusIsOlder
      <3> QED
        BY <3>1, <3>2
    <2>7. FlagHasOwner'
      <3>1. pc'[g] \in Busy /\ \A h \in Runs : pc[h] \in Busy => pc'[h] \in Busy
        BY <2>1 DEF Inv, TypeOK, Busy
      <3>2. \A c \in Controllers : inProgress'[c] => c = g[1] \/ inProgress[c]
        BY <2>1 DEF Inv, TypeOK
      <3> QED
        BY <3>1, <3>2 DEF Inv, FlagHasOwner
    <2> QED
      BY <1>2, <2>3, <2>4, <2>5, <2>6, <2>7 DEF Inv
  <1> QED
    BY <1>3, <1>4

\* GetStatus returns to a run that has not seen a newer status.
LEMMA CollectNotOlder ==
  ASSUME Inv, NEW g \in Runs, Collect(g)
  PROVE  /\ lastStatus' \in [Controllers -> Nat]
         /\ \A c \in Controllers : lastStatus'[c] >= lastStatus[c] /\ lastStatus'[c] <= now
         /\ \A c \in Controllers : c # g[1] => lastStatus'[c] = lastStatus[c]
         /\ lastStatus'[g[1]] <= started[g]
  <1>0. g[1] \in Controllers /\ pc[g] \in Busy
    BY RunsType DEF Collect, Busy
  <1>1. /\ lastStatus[g[1]] <= started[g] /\ started[g] <= now
        /\ started[g] \in Nat /\ now \in Nat
    BY <1>0 DEF Inv, StatusIsOlder, TypeOK
  <1>2. lastStatus' = [lastStatus EXCEPT ![g[1]] = started[g]] \/ lastStatus' = lastStatus
    BY DEF Collect
  <1>3. lastStatus \in [Controllers -> Nat] /\ \A c \in Controllers : lastStatus[c] <= now
    BY DEF Inv, TypeOK, StatusIsPast
  <1>4. CASE lastStatus' = [lastStatus EXCEPT ![g[1]] = started[g]]
    BY <1>0, <1>1, <1>3, <1>4
  <1>5. CASE lastStatus' = lastStatus
    BY <1>0, <1>1, <1>3, <1>5
  <1> QED
    BY <1>2, <1>4, <1>5

LEMMA CollectInv ==
  ASSUME Inv, NEW g \in Runs, Collect(g)
  PROVE  Inv'
  <1>0. g[1] \in Controllers /\ pc[g] \in Busy
    BY RunsType DEF Collect, Busy
  <1>1. UNCHANGED <<now, buffer, lastPublish, published, closed, started, inProgress, hasInfo>>
    BY DEF Collect, publisher
  <1>2. \E place \in {"info", "publishing"}, m \in {1, Failure} :
           pc' = [pc EXCEPT ![g] = place] /\ next' = [next EXCEPT ![g] = m]
    BY DEF Collect, Goto
  <1>3. \A h \in Runs : pc'[h] \in Busy => pc[h] \in Busy
    BY <1>0, <1>2 DEF Inv, TypeOK
  <1>4. pc' \in [Runs -> Busy \cup {"new", "done"}]
    BY <1>2 DEF Inv, TypeOK, Busy
  <1>5. next' \in [Runs -> Nat] /\ \A h \in Runs : next'[h] <= CycleSize[h[1]]
    <2>1. \A h \in Runs : CycleSize[h[1]] \in Nat \ {0}
      BY RunsType, ControllersAssumption
    <2> QED
      BY <1>2, <2>1 DEF Inv, TypeOK, Failure
  <1>6. TypeOK'
    BY <1>1, <1>4, <1>5, CollectNotOlder DEF Inv, TypeOK
  <1>7. BufferBounded' /\ BusyHoldsFlag' /\ OneCycleAtATime'
    BY <1>1, <1>3 DEF Inv, BufferBounded, BusyHoldsFlag, OneCycleAtATime
  <1>8. StatusIsPast'
    BY <1>1, CollectNotOlder DEF StatusIsPast
  <1>9. StatusIsOlder'
    <2> SUFFICES ASSUME NEW h \in Runs, pc'[h] \in Busy
                 PROVE  lastStatus'[h[1]] <= started'[h] /\ started'[h] <= now'
      BY DEF StatusIsOlder
    <2>1. pc[h] \in Busy /\ h[1] \in Controllers
      BY <1>3, RunsType
    <2>2. lastStatus[h[1]] <= started[h] /\ started[h] <= now
      BY <2>1 DEF Inv, StatusIsOlder
    <2>3. CASE h[1] = g[1]
      <3>1. h = g
        BY <1>0, <2>1, <2>3 DEF Inv, OneCycleAtATime
      <3> QED
        BY <1>1, <2>2, <3>1, CollectNotOlder
    <2>4. CASE h[1] # g[1]
      BY <1>1, <2>1, <2>2, <2>4, CollectNotOlder
    <2> QED
      BY <2>3, <2>4
  <1>10. FlagHasOwner'
    <2>1. \A h \in Runs : pc[h] \in Busy => pc'[h] \in Busy
      BY <1>2 DEF Inv, TypeOK, Busy
    <2> QED
      BY <1>1, <2>1, OwnerStays
  <1> QED
    BY <1>6, <1>7, <1>8, <1>9, <1>10 DEF Inv

LEMMA FetchInfoInv ==
  ASSUME Inv, NEW g \in Runs, FetchInfo(g)
  PROVE  Inv'
  <1>0. g[1] \in Controllers /\ pc[g] \in Busy
    BY RunsType DEF FetchInfo, Busy
  <1>1. /\ UNCHANGED <<now, buffer, lastPublish, published, closed, started,
                       next, inProgress, lastStatus>>
        /\ pc' = [pc EXCEPT ![g] = "publishing"]
        /\ \E fetched \in BOOLEAN : hasInfo' = [hasInfo EXCEPT ![g[1]] = fetched]
    BY DEF FetchInfo, publisher, Goto
  <1>2. \A h \in Runs : pc'[h] \in Busy => pc[h] \in Busy
    BY <1>0, <1>1 DEF Inv, TypeOK
  <1>3. TypeOK'
    BY <1>0, <1>1 DEF Inv, TypeOK, Busy
  <1>4. FlagHasOwner'
    <2>1. \A h \in Runs : pc[h] \in Busy => pc'[h] \in Busy
      BY <1>1 DEF Inv, TypeOK, Busy
    <2> QED
      BY <1>1, <2>1, OwnerStays
  <1> QED
    BY <1>1, <1>2, <1>3, <1>4
    DEF Inv, BufferBounded, BusyHoldsFlag, OneCycleAtATime, StatusIsOlder, StatusIsPast

LEMMA PublishNextInv ==
  ASSUME Inv, NEW g \in Runs, PublishNext(g)
  PROVE  Inv'
  <1>0. g[1] \in Controllers /\ pc[g] \in Busy
    BY RunsType DEF PublishNext, Busy
  <1>1. /\ UNCHANGED <<now, started, inProgress, lastStatus, hasInfo>>
        /\ Publish(Sample(g))
    BY DEF PublishNext
  <1>2. /\ buffer' \in Seq(Samples) /\ Len(buffer') < BatchSize
        /\ lastPublish' \in 1..now' /\ published' \in Nat /\ closed' \in BOOLEAN
    BY <1>1, SampleType, PublishBuffer DEF Inv
  <1>3. /\ pc' = pc \/ pc' = [pc EXCEPT ![g] = "ending"]
        /\ \/ next' = next
           \/ next[g] \notin {Failure, CycleSize[g[1]]}
              /\ next' = [next EXCEPT ![g] = next[g] + 1]
    BY DEF PublishNext, Goto
  <1>4. \A h \in Runs : pc'[h] \in Busy => pc[h] \in Busy
    BY <1>0, <1>3 DEF Inv, TypeOK
  <1>5. pc' \in [Runs -> Busy \cup {"new", "done"}]
    BY <1>3 DEF Inv, TypeOK, Busy
  <1>6. next' \in [Runs -> Nat] /\ \A h \in Runs : next'[h] <= CycleSize[h[1]]
    <2>1. CycleSize[g[1]] \in Nat /\ next[g] \in Nat /\ next[g] <= CycleSize[g[1]]
      BY <1>0, ControllersAssumption DEF Inv, TypeOK
    <2>2. next \in [Runs -> Nat] /\ \A h \in Runs : next[h] <= CycleSize[h[1]]
      BY DEF Inv, TypeOK
    <2>3. CASE next' = next
      BY <2>2, <2>3
    <2>4. CASE next[g] # CycleSize[g[1]] /\ next' = [next EXCEPT ![g] = next[g] + 1]
      <3>1. next[g] + 1 \in Nat /\ next[g] + 1 <= CycleSize[g[1]]
        BY <2>1, <2>4
      <3> QED
        BY <2>2, <2>4, <3>1
    <2> QED
      BY <1>3, <2>3, <2>4
  <1>7. TypeOK'
    BY <1>1, <1>2, <1>5, <1>6 DEF Inv, TypeOK
  <1>8. BufferBounded'
    BY <1>2 DEF BufferBounded
  <1>9. FlagHasOwner'
    <2>1. \A h \in Runs : pc[h] \in Busy => pc'[h] \in Busy
      BY <1>3 DEF Inv, TypeOK, Busy
    <2> QED
      BY <1>1, <2>1, OwnerStays
  <1> QED
    BY <1>1, <1>4, <1>7, <1>8, <1>9
    DEF Inv, BusyHoldsFlag, OneCycleAtATime, StatusIsOlder, StatusIsPast

LEMMA EndInv ==
  ASSUME Inv, NEW g \in Runs, End(g)
  PROVE  Inv'
  <1>0. g[1] \in Controllers /\ pc[g] \in Busy
    BY RunsType DEF End, Busy
  <1>1. /\ UNCHANGED <<now, buffer, lastPublish, published, closed, started,
                       next, lastStatus, hasInfo>>
        /\ pc' = [pc EXCEPT ![g] = "done"]
        /\ inProgress' = [inProgress EXCEPT ![g[1]] = FALSE]
    BY DEF End, publisher, Goto
  <1>2. \A h \in Runs : pc'[h] \in Busy => pc[h] \in Busy /\ h # g
    BY <1>1 DEF Inv, TypeOK, Busy
  <1>3. \A h \in Runs : pc'[h] \in Busy => h[1] # g[1]
    BY <1>0, <1>2 DEF Inv, OneCycleAtATime
  <1>4. TypeOK'
    BY <1>0, <1>1 DEF Inv, TypeOK, Busy
  <1>5. BusyHoldsFlag'
    BY <1>1, <1>2, <1>3, RunsType DEF Inv, TypeOK, BusyHoldsFlag
  <1>6. FlagHasOwner'
    <2>1. \A h \in Runs : pc[h] \in Busy /\ h[1] # g[1] => pc'[h] \in Busy
      BY <1>1 DEF Inv, TypeOK, Busy
    <2>2. \A c \in Controllers : inProgress'[c] => c # g[1] /\ inProgress[c]
      BY <1>0, <1>1 DEF Inv, TypeOK
    <2> QED
      BY <2>1, <2>2 DEF Inv, FlagHasOwner
  <1> QED
    BY <1>1, <1>2, <1>4, <1>5, <1>6
    DEF Inv, BufferBounded, OneCycleAtATime, StatusIsOlder, StatusIsPast

\* The steps that are nobody's run: time, and the publisher's Close.
LEMMA OtherInv ==
  ASSUME Inv, TimePasses \/ Close
  PROVE  Inv'
  <1>1. UNCHANGED <<pc, started, next, inProgress, lastStatus, hasInfo>>
    BY DEF TimePasses, Close, controller
  <1>2. CASE TimePasses
    <2>1. now' = now + 1 /\ UNCHANGED <<buffer, lastPublish, published, closed>>
      BY <1>2 DEF TimePasses, Tick, publisher
    <2>2. TypeOK' /\ BufferBounded' /\ BusyHoldsFlag' /\ FlagHasOwner' /\ OneCycleAtATime'
      BY <1>1, <2>1
      DEF Inv, TypeOK, BufferBounded, BusyHoldsFlag, FlagHasOwner, OneCycleAtATime
    <2>3. StatusIsOlder'
      BY <1>1, <2>1 DEF Inv, TypeOK, StatusIsOlder
    <2>4. StatusIsPast'
      BY <1>1, <2>1 DEF Inv, TypeOK, StatusIsPast
    <2> QED
      BY <2>2, <2>3, <2>4 DEF Inv
  <1>3. CASE Close
    <2>1. /\ buffer' \in Seq(Samples) /\ Len(buffer') < BatchSize
          /\ now' = now /\ lastPublish' \in 1..now'
          /\ published' \in Nat /\ closed' \in BOOLEAN
      BY <1>3, CloseBuffer DEF Inv, Close
    <2>2. TypeOK' /\ BufferBounded'
      BY <1>1, <2>1 DEF Inv, TypeOK, BufferBounded
    <2> QED
      BY <1>1, <2>1, <2>2
      DEF Inv, BusyHoldsFlag, FlagHasOwner, OneCycleAtATime, StatusIsOlder, StatusIsPast
  <1> QED
    BY <1>2, <1>3

LEMMA NextInv == Inv /\ [Next]_vars => Inv'
  <1> SUFFICES ASSUME Inv, [Next]_vars PROVE Inv'
    OBVIOUS
  <1>1. ASSUME NEW g \in Runs, Start(g) PROVE Inv'
    BY <1>1, StartInv
  <1>2. ASSUME NEW g \in Runs, Step(g) PROVE Inv'
    BY <1>2, CollectInv, FetchInfoInv, PublishNextInv, EndInv DEF Step
  <1>3. CASE TimePasses \/ Close
    BY <1>3, OtherInv
  <1>4. CASE UNCHANGED vars
    BY <1>4 DEF vars, publisher, Inv, TypeOK, BufferBounded, BusyHoldsFlag,
                FlagHasOwner, OneCycleAtATime, StatusIsOlder, StatusIsPast
  <1> QED
    BY <1>1, <1>2, <1>3, <1>4 DEF Next, Quiet

-----------------------------------------------------------------------------
\* Types, a batch never beyond its size, at most one collection of a
\* controller at a time, and a flag that a run will clear (collectAndPublish,
\* epever.go:143-159; Publish, remotewrite/publisher.go:93-123).
THEOREM TelemetrySafe ==
  Spec => [](TypeOK /\ BufferBounded /\ OneCycleAtATime /\ FlagHasOwner)
  <1>1. Inv => TypeOK /\ BufferBounded /\ OneCycleAtATime /\ FlagHasOwner
    BY DEF Inv
  <1> QED
    BY <1>1, InitInv, NextInv, PTL DEF Spec

\* The controllers, their runs and the publisher keep their types: a collection
\* publishes no more metrics than its cycle has.
THEOREM TypesHold == Spec => []TypeOK
  <1>1. Inv => TypeOK
    BY DEF Inv
  <1> QED
    BY <1>1, InitInv, NextInv, PTL DEF Spec

\* A flag that is set has a run that will clear it (epever.go:155-159).
THEOREM FlagOwned == Spec => []FlagHasOwner
  <1>1. Inv => FlagHasOwner
    BY DEF Inv
  <1> QED
    BY <1>1, InitInv, NextInv, PTL DEF Spec

LEMMA StepNotOlder ==
  Inv /\ [Next]_vars => [\A c \in Controllers : lastStatus'[c] >= lastStatus[c]]_vars
  <1> SUFFICES ASSUME Inv, [Next]_vars, NEW c \in Controllers
               PROVE  lastStatus'[c] >= lastStatus[c]
    OBVIOUS
  <1>1. lastStatus[c] \in Nat
    BY DEF Inv, TypeOK
  <1>2. ASSUME NEW g \in Runs, Collect(g) PROVE lastStatus'[c] >= lastStatus[c]
    BY <1>2, CollectNotOlder
  <1>3. CASE lastStatus' = lastStatus
    BY <1>1, <1>3
  <1> QED
    BY <1>2, <1>3 DEF Next, Step, Start, FetchInfo, PublishNext, End, TimePasses,
                      Close, Quiet, vars, controller

\* The status served by the metrics endpoint is never replaced by an older one
\* (epever.go:186-188), however slow collections and ticks interleave.
THEOREM StatusMonotone == Spec => StatusNeverGoesBack
  <1> QED
    BY InitInv, NextInv, StepNotOlder, PTL DEF Spec, StatusNeverGoesBack
-----------------------------------------------------------------------------
(***************************************************************************)
(* A long cycle pushes older samples out.  Behind a sample from before a   *)
(* run's cycle the buffer has every sample the run has published.          *)
(***************************************************************************)
OlderBehind ==
  \A g \in Runs, i \in 1..Len(buffer) :
    buffer[i].at < started[g] =>
      /\ pc[g] \in {"info", "publishing"} => i + next[g] <= Len(buffer) + 1
      /\ pc[g] = "ending" => i + next[g] <= Len(buffer)

LEMMA PublishOlder ==
  ASSUME Inv, OlderBehind, NEW h \in Runs, PublishNext(h)
  PROVE  OlderBehind'
  <1>1. pc[h] = "publishing" /\ started' = started /\ Publish(Sample(h)) /\ now \in Nat
    BY DEF PublishNext, Inv, TypeOK
  <1>2. buffer' = <<>> \/ buffer' = Append(buffer, Sample(h))
    BY <1>1 DEF Publish, FlushBatch
  <1>3. CASE buffer' = <<>>
    <2>1. 1..Len(buffer') = {}
      BY <1>3
    <2> QED
      BY <2>1 DEF OlderBehind
  <1>4. CASE buffer' = Append(buffer, Sample(h))
    <2>1. buffer \in Seq(Samples) /\ Sample(h) \in Samples /\ Sample(h).at = now
      BY SampleType DEF Inv, TypeOK, Sample
    <2>2. /\ Len(buffer) \in Nat /\ Len(buffer') = Len(buffer) + 1
          /\ \A i \in 1..Len(buffer) : buffer'[i] = buffer[i]
          /\ buffer'[Len(buffer) + 1] = Sample(h)
      BY <1>4, <2>1
    <2>3. \/ pc' = [pc EXCEPT ![h] = "ending"] /\ next' = next
          \/ pc' = pc /\ next' = [next EXCEPT ![h] = next[h] + 1]
      BY DEF PublishNext, Goto
    <2>4. pc \in [Runs -> Busy \cup {"new", "done"}] /\ next \in [Runs -> Nat]
          /\ started \in [Runs -> Nat]
      BY DEF Inv, TypeOK
    <2> SUFFICES ASSUME NEW g \in Runs, NEW i \in 1..Len(buffer'),
                        buffer'[i].at < started[g],
                        pc'[g] \in {"info", "publishing", "ending"}
                 PROVE  /\ pc'[g] \in {"info", "publishing"} => i + next'[g] <= Len(buffer') + 1
                        /\ pc'[g] = "ending" => i + next'[g] <= Len(buffer')
      BY <1>1 DEF OlderBehind
    <2>5. pc[g] \in Busy
      BY <1>1, <2>3, <2>4 DEF Busy
    <2>6. started[g] <= now
      BY <2>5 DEF Inv, StatusIsOlder
    <2>7. i \in 1..Len(buffer)
      <3>1. i = Len(buffer) + 1 => buffer'[i].at = now
        BY <2>1, <2>2
      <3>2. i # Len(buffer) + 1
        BY <1>1, <2>4, <2>6, <3>1
      <3> QED
        BY <2>2, <3>2
    <2>8. buffer[i].at < started[g]
      BY <2>2, <2>7
    <2>9. CASE g = h
      <3>1. i + next[h] <= Len(buffer) + 1
        BY <1>1, <2>7, <2>8, <2>9 DEF OlderBehind
      <3>2. \/ pc'[h] = "ending" /\ next'[h] = next[h]
            \/ pc'[h] = "publishing" /\ next'[h] = next[h] + 1
        BY <1>1, <2>3, <2>4
      <3> QED
        BY <2>2, <2>4, <2>9, <3>1, <3>2
    <2>10. CASE g # h
      <3>1. pc'[g] = pc[g] /\ next'[g] = next[g] /\ next[g] \in Nat
        BY <2>3, <2>4, <2>10
      <3> QED
        BY <2>2, <2>7, <2>8, <3>1 DEF OlderBehind
    <2> QED
      BY <2>9, <2>10
  <1> QED
    BY <1>2, <1>3, <1>4

LEMMA NextOlder == Inv /\ OlderBehind /\ [Next]_vars => OlderBehind'
  <1> SUFFICES ASSUME Inv, OlderBehind, [Next]_vars PROVE OlderBehind'
    OBVIOUS
  <1>0. /\ pc \in [Runs -> Busy \cup {"new", "done"}] /\ next \in [Runs -> Nat]
        /\ started \in [Runs -> Nat] /\ Len(buffer) \in Nat
    BY DEF Inv, TypeOK
  <1>1. ASSUME NEW h \in Runs, Start(h) PROVE OlderBehind'
    <2>1. /\ buffer' = buffer /\ next' = next
          /\ pc'[h] \in {"done", "reading"}
          /\ \A g \in Runs \ {h} : pc'[g] = pc[g] /\ started'[g] = started[g]
      BY <1>0, <1>1 DEF Start, Goto, publisher
    <2> QED
      BY <2>1 DEF OlderBehind
  <1>2. ASSUME NEW h \in Runs, Collect(h) PROVE OlderBehind'
    <2>1. /\ buffer' = buffer /\ started' = started
          /\ pc'[h] \in {"info", "publishing"} /\ next'[h] \in {0, 1}
          /\ \A g \in Runs \ {h} : pc'[g] = pc[g] /\ next'[g] = next[g]
      BY <1>0, <1>2 DEF Collect, Goto, publisher, Failure
    <2> QED
      BY <1>0, <2>1 DEF OlderBehind
  <1>3. ASSUME NEW h \in Runs, FetchInfo(h) \/ End(h) PROVE OlderBehind'
    <2>1. /\ buffer' = buffer /\ started' = started /\ next' = next
          /\ pc'[h] = "done" \/ (pc[h] = "info" /\ pc'[h] = "publishing")
          /\ \A g \in Runs \ {h} : pc'[g] = pc[g]
      BY <1>0, <1>3 DEF FetchInfo, End, Goto, publisher
    <2> QED
      BY <2>1 DEF OlderBehind
  <1>4. CASE TimePasses
    BY <1>4 DEF TimePasses, Tick, publisher, controller, OlderBehind
  <1>5. CASE Close
    <2>1. UNCHANGED <<pc, next, started>> /\ (buffer' = buffer \/ buffer' = <<>>)
      BY <1>5 DEF Close, ClosePublisher, FlushBatch, controller
    <2>2. 1..Len(<<>>) = {}
      OBVIOUS
    <2> QED
      BY <2>1, <2>2 DEF OlderBehind
  <1>6. CASE UNCHANGED vars
    BY <1>6 DEF vars, publisher, OlderBehind
  <1> QED
    BY <1>1, <1>2, <1>3, <1>4, <1>5, <1>6, PublishOlder DEF Next, Step, Quiet

\* When a successful cycle with at least a batch of metrics ends, no sample
\* from before it is still waiting (remotewrite/publisher.go:93-123): old
\* samples wait only behind short cycles.
THEOREM OlderPushed == Spec => []FullCyclePushesOlder
  <1>1. Init => OlderBehind
    BY DEF Init, InitPublisher, OlderBehind
  <1>2. Inv /\ OlderBehind => FullCyclePushesOlder
    <2> SUFFICES ASSUME Inv, OlderBehind, NEW g \in Runs, pc[g] = "ending",
                        next[g] >= BatchSize, NEW i \in 1..Len(buffer)
                 PROVE  buffer[i].at >= started[g]
      BY DEF FullCyclePushesOlder, Inv, TypeOK
    <2>0. buffer[i] \in Samples
      BY DEF Inv, TypeOK
    <2>1. buffer[i].at \in Nat
      BY <2>0 DEF Samples
    <2>2. started[g] \in Nat /\ next[g] \in Nat /\ Len(buffer) \in Nat
      BY DEF Inv, TypeOK
    <2>3. ~(i + next[g] <= Len(buffer))
      BY <2>2, BatchAssumption DEF Inv, BufferBounded
    <2> QED
      BY <2>1, <2>2, <2>3 DEF OlderBehind
  <1> QED
    BY <1>1, <1>2, InitInv, NextInv, NextOlder, PTL DEF Spec
-----------------------------------------------------------------------------
(***************************************************************************)
(* The samples on their way.  The lemmas are about any requests and any    *)
(* buffer: what becomes of them when a sample joins the buffer and when    *)
(* the buffer becomes a request.                                           *)
(***************************************************************************)
TimeSeries == UNION {[D -> Samples] : D \in SUBSET Nat}

SentIn(reqs) == UNION {SamplesOf(reqs[i]) : i \in DOMAIN reqs}

\* The samples handed to the publisher so far.
Handed == SentIn(requests) \cup ToSet(buffer)

LEMMA InSent ==
  ASSUME NEW reqs, NEW x
  PROVE  x \in SentIn(reqs) <=> \E i \in DOMAIN reqs : x \in SamplesOf(reqs[i])
  BY DEF SentIn

LEMMA SentAfter ==
  ASSUME NEW reqs \in Seq(SUBSET TimeSeries), NEW r \in SUBSET TimeSeries
  PROVE  /\ DOMAIN Append(reqs, r) = DOMAIN reqs \cup {Len(reqs) + 1}
         /\ \A i \in DOMAIN reqs :
              i \in Nat /\ i < Len(reqs) + 1 /\ Append(reqs, r)[i] = reqs[i]
         /\ Append(reqs, r)[Len(reqs) + 1] = r
         /\ SentIn(Append(reqs, r)) = SentIn(reqs) \cup SamplesOf(r)
  <1> DEFINE new == Append(reqs, r)
  <1>1. /\ DOMAIN reqs = 1..Len(reqs) /\ DOMAIN new = 1..(Len(reqs) + 1)
        /\ Len(reqs) \in Nat /\ new[Len(reqs) + 1] = r
        /\ \A i \in 1..Len(reqs) : new[i] = reqs[i]
    OBVIOUS
  <1>2. DOMAIN new = DOMAIN reqs \cup {Len(reqs) + 1}
    BY <1>1
  <1>3. \A i \in DOMAIN reqs : i \in Nat /\ i < Len(reqs) + 1 /\ new[i] = reqs[i]
    BY <1>1
  <1>4. ASSUME NEW x
        PROVE  x \in SentIn(new) <=> x \in SentIn(reqs) \cup SamplesOf(r)
    <2>1. x \in SentIn(new) <=> \E i \in DOMAIN new : x \in SamplesOf(new[i])
      BY InSent
    <2>2. x \in SentIn(reqs) <=> \E i \in DOMAIN reqs : x \in SamplesOf(reqs[i])
      BY InSent
    <2> HIDE DEF new
    <2> QED
      BY <1>1, <1>2, <1>3, <2>1, <2>2
  <1> HIDE DEF new
  <1>5. SentIn(new) = SentIn(reqs) \cup SamplesOf(r)
    BY <1>4
  <1> QED
    BY <1>1, <1>2, <1>3, <1>5 DEF new

\* What a request is made of: every sample of the batch, each in time series
\* that keep the order of arrival.
LEMMA GroupedSamples ==
  ASSUME NEW batch \in Seq(Samples), NEW keys
  PROVE  /\ Grouped(batch, keys) \in SUBSET TimeSeries
         /\ SamplesOf(Grouped(batch, keys)) = ToSet(batch)
         /\ \A s \in Grouped(batch, keys) : \A j \in DOMAIN s :
              /\ j \in DOMAIN batch /\ s[j] = batch[j]
              /\ \A k \in DOMAIN s : s[k].series = s[j].series
  <1> DEFINE alike(i) == {j \in DOMAIN batch : batch[j].series = batch[i].series
                                               /\ keys[j] = keys[i]}
             part(i) == [j \in alike(i) |-> batch[j]]
  <1>1. Grouped(batch, keys) = {part(i) : i \in DOMAIN batch}
    BY DEF Grouped
  <1>2. \A i \in DOMAIN batch : i \in Nat /\ batch[i] \in Samples
    OBVIOUS
  <1>3. ASSUME NEW i \in DOMAIN batch
        PROVE  /\ part(i) \in TimeSeries /\ i \in DOMAIN part(i)
               /\ ToSet(part(i)) \subseteq ToSet(batch) /\ batch[i] \in ToSet(part(i))
               /\ \A j \in DOMAIN part(i) :
                    /\ j \in DOMAIN batch /\ part(i)[j] = batch[j]
                    /\ batch[j].series = batch[i].series
    <2>1. alike(i) \in SUBSET Nat /\ part(i) \in [alike(i) -> Samples] /\ i \in alike(i)
      BY <1>2
    <2>2. part(i) \in TimeSeries
      BY <2>1 DEF TimeSeries
    <2>3. \A j \in DOMAIN part(i) : /\ j \in DOMAIN batch /\ part(i)[j] = batch[j]
                                    /\ batch[j].series = batch[i].series
      OBVIOUS
    <2>4. i \in DOMAIN part(i) /\ part(i)[i] = batch[i]
      BY <2>1
    <2> HIDE DEF part
    <2>5. ToSet(part(i)) \subseteq ToSet(batch)
      BY <2>3 DEF ToSet
    <2>6. batch[i] \in ToSet(part(i))
      BY <2>4 DEF ToSet
    <2> QED
      BY <2>2, <2>3, <2>4, <2>5, <2>6
  <1> HIDE DEF part, alike
  <1>4. SamplesOf(Grouped(batch, keys)) \subseteq ToSet(batch)
    BY <1>1, <1>3 DEF SamplesOf
  <1>5. ToSet(batch) \subseteq SamplesOf(Grouped(batch, keys))
    <2> SUFFICES ASSUME NEW i \in DOMAIN batch
                 PROVE  batch[i] \in SamplesOf(Grouped(batch, keys))
      BY DEF ToSet
    <2> QED
      BY <1>1, <1>3 DEF SamplesOf
  <1>6. ASSUME NEW s \in Grouped(batch, keys), NEW j \in DOMAIN s
        PROVE  /\ j \in DOMAIN batch /\ s[j] = batch[j]
               /\ \A k \in DOMAIN s : s[k].series = s[j].series
    <2>1. PICK i \in DOMAIN batch : s = part(i)
      BY <1>1
    <2> QED
      BY <1>3, <2>1
  <1> QED
    BY <1>1, <1>3, <1>4, <1>5, <1>6

LEMMA ToSetAppend ==
  ASSUME NEW batch \in Seq(Samples), NEW x \in Samples
  PROVE  /\ Append(batch, x) \in Seq(Samples) /\ Len(Append(batch, x)) = Len(batch) + 1
         /\ Len(batch) \in Nat
         /\ ToSet(Append(batch, x)) = ToSet(batch) \cup {x}
         /\ DOMAIN Append(batch, x) = DOMAIN batch \cup {Len(batch) + 1}
         /\ Append(batch, x)[Len(batch) + 1] = x
         /\ \A i \in DOMAIN batch :
              i \in Nat /\ i < Len(batch) + 1 /\ Append(batch, x)[i] = batch[i]
  <1> DEFINE new == Append(batch, x)
  <1>1. /\ DOMAIN batch = 1..Len(batch) /\ DOMAIN new = 1..(Len(batch) + 1)
        /\ Len(batch) \in Nat /\ new[Len(batch) + 1] = x
        /\ \A i \in 1..Len(batch) : new[i] = batch[i]
        /\ new \in Seq(Samples) /\ Len(new) = Len(batch) + 1
    OBVIOUS
  <1> HIDE DEF new
  <1>2. DOMAIN new = DOMAIN batch \cup {Len(batch) + 1}
    BY <1>1
  <1>3. ToSet(new) = ToSet(batch) \cup {x}
    BY <1>1, <1>2 DEF ToSet
  <1> QED
    BY <1>1, <1>2, <1>3 DEF new

LEMMA ToSetEmpty == DOMAIN <<>> = {} /\ ToSet(<<>>) = {} /\ Len(<<>>) = 0
  BY DEF ToSet

-----------------------------------------------------------------------------
\* Nothing is sent twice, and what was handed over is sent or waiting.
Once(reqs, batch, handed) ==
  /\ \A i, j \in DOMAIN reqs :
       i # j => SamplesOf(reqs[i]) \cap SamplesOf(reqs[j]) = {}
  /\ SentIn(reqs) \cap ToSet(batch) = {}
  /\ IsFiniteSet(SentIn(reqs))
  /\ IsFiniteSet(ToSet(batch)) /\ Cardinality(ToSet(batch)) = Len(batch)
  /\ Cardinality(SentIn(reqs)) + Len(batch) = handed

LEMMA OnceAppended ==
  ASSUME NEW reqs, NEW batch \in Seq(Samples), NEW handed, Once(reqs, batch, handed),
         NEW x \in Samples, x \notin SentIn(reqs) \cup ToSet(batch)
  PROVE  Once(reqs, Append(batch, x), handed + 1)
  <1>1. IsFiniteSet(ToSet(batch)) /\ Cardinality(ToSet(batch)) = Len(batch)
    BY DEF Once
  <1>2. /\ IsFiniteSet(ToSet(batch) \cup {x})
        /\ Cardinality(ToSet(batch) \cup {x}) = Len(batch) + 1
    BY <1>1, FS_AddElement
  <1>3. IsFiniteSet(SentIn(reqs)) /\ Cardinality(SentIn(reqs)) \in Nat
    BY FS_CardinalityType DEF Once
  <1>4. /\ ToSet(Append(batch, x)) = ToSet(batch) \cup {x}
        /\ Len(Append(batch, x)) = Len(batch) + 1 /\ Len(batch) \in Nat
    BY ToSetAppend
  <1>5. Cardinality(SentIn(reqs)) + Len(Append(batch, x)) = handed + 1
    BY <1>3, <1>4 DEF Once
  <1>6. SentIn(reqs) \cap ToSet(Append(batch, x)) = {}
    BY <1>4 DEF Once
  <1> QED
    BY <1>2, <1>3, <1>4, <1>5, <1>6 DEF Once

LEMMA OnceFlushed ==
  ASSUME NEW reqs \in Seq(SUBSET TimeSeries), NEW batch \in Seq(Samples), NEW handed,
         Once(reqs, batch, handed), NEW keys
  PROVE  Once(Append(reqs, Grouped(batch, keys)), <<>>, handed)
  <1> DEFINE r == Grouped(batch, keys)
             new == Append(reqs, r)
  <1>1. r \in SUBSET TimeSeries /\ SamplesOf(r) = ToSet(batch)
    BY GroupedSamples
  <1> HIDE DEF r
  <1>2. /\ DOMAIN new = DOMAIN reqs \cup {Len(reqs) + 1}
        /\ \A i \in DOMAIN reqs : i < Len(reqs) + 1 /\ new[i] = reqs[i]
        /\ new[Len(reqs) + 1] = r
        /\ SentIn(new) = SentIn(reqs) \cup SamplesOf(r)
    BY <1>1, SentAfter
  <1> HIDE DEF new
  <1>3. /\ IsFiniteSet(SentIn(reqs)) /\ IsFiniteSet(ToSet(batch))
        /\ SentIn(reqs) \cap ToSet(batch) = {}
        /\ Cardinality(ToSet(batch)) = Len(batch)
        /\ Cardinality(SentIn(reqs)) + Len(batch) = handed
        /\ \A i, j \in DOMAIN reqs :
             i # j => SamplesOf(reqs[i]) \cap SamplesOf(reqs[j]) = {}
    BY DEF Once
  <1>4. /\ IsFiniteSet(SentIn(new))
        /\ Cardinality(SentIn(new)) = Cardinality(SentIn(reqs)) + Len(batch)
    <2>1. Cardinality(SentIn(reqs)) \in Nat /\ Len(batch) \in Nat
      BY <1>3, FS_CardinalityType
    <2>2. /\ IsFiniteSet(SentIn(reqs) \cup ToSet(batch))
          /\ Cardinality(SentIn(reqs) \cup ToSet(batch))
             = Cardinality(SentIn(reqs)) + Cardinality(ToSet(batch)) - Cardinality({})
      BY <1>3, FS_Union
    <2> QED
      BY <1>1, <1>2, <1>3, <2>1, <2>2, FS_EmptySet
  <1>5. \A i \in DOMAIN reqs : SamplesOf(reqs[i]) \cap SamplesOf(r) = {}
    BY <1>1, <1>3, InSent
  <1>6. \A i, j \in DOMAIN new : i # j => SamplesOf(new[i]) \cap SamplesOf(new[j]) = {}
    <2> SUFFICES ASSUME NEW i \in DOMAIN new, NEW j \in DOMAIN new, i # j
                 PROVE  SamplesOf(new[i]) \cap SamplesOf(new[j]) = {}
      OBVIOUS
    <2>1. CASE i \in DOMAIN reqs /\ j \in DOMAIN reqs
      BY <1>2, <1>3, <2>1
    <2>2. CASE i \in DOMAIN reqs /\ j = Len(reqs) + 1
      BY <1>2, <1>5, <2>2
    <2>3. CASE j \in DOMAIN reqs /\ i = Len(reqs) + 1
      BY <1>2, <1>5, <2>3
    <2> QED
      BY <1>2, <2>1, <2>2, <2>3
  <1>7. Once(new, <<>>, handed)
    <2>1. Cardinality(SentIn(new)) + Len(<<>>) = handed
      <3>1. Cardinality(SentIn(new)) \in Nat
        BY <1>4, FS_CardinalityType
      <3> QED
        BY <1>3, <1>4, <3>1, ToSetEmpty
    <2>2. IsFiniteSet(ToSet(<<>>)) /\ Cardinality(ToSet(<<>>)) = Len(<<>>)
      BY ToSetEmpty, FS_EmptySet
    <2>3. SentIn(new) \cap ToSet(<<>>) = {}
      BY ToSetEmpty
    <2> QED
      BY <1>4, <1>6, <2>1, <2>2, <2>3 DEF Once
  <1> QED
    BY <1>7 DEF new, r

\* The samples of a series are in the order of their times: those of a request,
\* those of one request and a later one, those waiting and those before them.
Ordered(reqs, batch) ==
  /\ \A i, j \in DOMAIN reqs :
       i < j => \A x \in SamplesOf(reqs[i]), y \in SamplesOf(reqs[j]) :
                  x.series = y.series => x.time <= y.time
  /\ \A i \in DOMAIN reqs : \A s \in reqs[i] :
       \A m, n \in DOMAIN s : m < n => s[m].time <= s[n].time
  /\ \A x \in SentIn(reqs), y \in ToSet(batch) : x.series = y.series => x.time <= y.time
  /\ \A m, n \in DOMAIN batch :
       m < n => (batch[m].series = batch[n].series => batch[m].time <= batch[n].time)

LEMMA OrderedAppended ==
  ASSUME NEW reqs, NEW batch \in Seq(Samples), Ordered(reqs, batch), NEW x \in Samples,
         \A y \in SentIn(reqs) \cup ToSet(batch) : y.series = x.series => y.time <= x.time
  PROVE  Ordered(reqs, Append(batch, x))
  <1> DEFINE new == Append(batch, x)
  <1>1. /\ ToSet(new) = ToSet(batch) \cup {x}
        /\ DOMAIN new = DOMAIN batch \cup {Len(batch) + 1}
        /\ new[Len(batch) + 1] = x /\ Len(batch) \in Nat
        /\ \A i \in DOMAIN batch : i \in Nat /\ i < Len(batch) + 1 /\ new[i] = batch[i]
    BY ToSetAppend
  <1> HIDE DEF new
  <1>2. \A y \in SentIn(reqs), z \in ToSet(new) : y.series = z.series => y.time <= z.time
    BY <1>1 DEF Ordered
  <1>3. \A m, n \in DOMAIN new :
          m < n => (new[m].series = new[n].series => new[m].time <= new[n].time)
    <2> SUFFICES ASSUME NEW m \in DOMAIN new, NEW n \in DOMAIN new, m < n,
                        new[m].series = new[n].series
                 PROVE  new[m].time <= new[n].time
      OBVIOUS
    <2>1. m \in DOMAIN batch
      BY <1>1
    <2>2. batch[m] \in ToSet(batch)
      BY <2>1 DEF ToSet
    <2>3. CASE n = Len(batch) + 1
      BY <1>1, <2>1, <2>2, <2>3
    <2>4. CASE n \in DOMAIN batch
      BY <1>1, <2>1, <2>4 DEF Ordered
    <2> QED
      BY <1>1, <2>3, <2>4
  <1>4. Ordered(reqs, new)
    BY <1>2, <1>3 DEF Ordered
  <1> QED
    BY <1>4 DEF new

LEMMA OrderedFlushed ==
  ASSUME NEW reqs \in Seq(SUBSET TimeSeries), NEW batch \in Seq(Samples),
         Ordered(reqs, batch), NEW keys
  PROVE  Ordered(Append(reqs, Grouped(batch, keys)), <<>>)
  <1> DEFINE r == Grouped(batch, keys)
             new == Append(reqs, r)
  <1>1. /\ r \in SUBSET TimeSeries /\ SamplesOf(r) = ToSet(batch)
        /\ \A s \in r : \A j \in DOMAIN s :
             /\ j \in DOMAIN batch /\ s[j] = batch[j]
             /\ \A k \in DOMAIN s : s[k].series = s[j].series
    BY GroupedSamples
  <1> HIDE DEF r
  <1>2. /\ DOMAIN new = DOMAIN reqs \cup {Len(reqs) + 1} /\ Len(reqs) \in Nat
        /\ \A i \in DOMAIN reqs : i \in Nat /\ i < Len(reqs) + 1 /\ new[i] = reqs[i]
        /\ new[Len(reqs) + 1] = r
    BY <1>1, SentAfter
  <1> HIDE DEF new
  <1>3. ASSUME NEW i \in DOMAIN new, NEW j \in DOMAIN new, i < j,
               NEW x \in SamplesOf(new[i]), NEW y \in SamplesOf(new[j]),
               x.series = y.series
        PROVE  x.time <= y.time
    <2>1. i \in DOMAIN reqs /\ new[i] = reqs[i]
      BY <1>2, <1>3
    <2>2. CASE j \in DOMAIN reqs
      BY <1>2, <1>3, <2>1, <2>2 DEF Ordered
    <2>3. CASE j = Len(reqs) + 1
      <3>1. x \in SentIn(reqs) /\ y \in ToSet(batch)
        BY <1>1, <1>2, <1>3, <2>1, <2>3, InSent
      <3> QED
        BY <1>3, <3>1 DEF Ordered
    <2> QED
      BY <1>2, <2>2, <2>3
  <1>4. ASSUME NEW i \in DOMAIN new, NEW s \in new[i],
               NEW m \in DOMAIN s, NEW n \in DOMAIN s, m < n
        PROVE  s[m].time <= s[n].time
    <2>1. CASE i \in DOMAIN reqs
      BY <1>2, <1>4, <2>1 DEF Ordered
    <2>2. CASE i = Len(reqs) + 1
      <3>1. s \in r
        BY <1>2, <2>2
      <3>2. /\ m \in DOMAIN batch /\ s[m] = batch[m] /\ n \in DOMAIN batch /\ s[n] = batch[n]
            /\ s[m].series = s[n].series
        BY <1>1, <3>1
      <3> QED
        BY <1>4, <3>2 DEF Ordered
    <2> QED
      BY <1>2, <2>1, <2>2
  <1>5. Ordered(new, <<>>)
    <2>1. \A i, j \in DOMAIN new :
            i < j => \A x \in SamplesOf(new[i]), y \in SamplesOf(new[j]) :
                       x.series = y.series => x.time <= y.time
      BY <1>3
    <2>2. \A i \in DOMAIN new : \A s \in new[i] :
            \A m, n \in DOMAIN s : m < n => s[m].time <= s[n].time
      BY <1>4
    <2> QED
      BY <2>1, <2>2, ToSetEmpty DEF Ordered
  <1> QED
    BY <1>5 DEF new, r

-----------------------------------------------------------------------------
\* A sample comes from a run that has gone past it, and is not newer than any
\* collection of its controller that has begun since.
Past(x) ==
  /\ x \in Samples /\ x.series[1] = x.run[1] /\ x.time <= now
  /\ \/ pc[x.run] \in {"ending", "done"}
     \/ pc[x.run] = "publishing" /\ x.series[2] < next[x.run]
  /\ \A g \in Runs :
       g[1] = x.series[1] /\ pc[g] \in Busy /\ g # x.run => x.time <= started[g]

\* What Publish and Close keep of the requests and the buffer.
Sending ==
  /\ requests \in Seq(SUBSET TimeSeries)
  /\ Once(requests, buffer, published)
  /\ Ordered(requests, buffer)

\* The inductive invariant, with Inv.
HistoryInv == Sending /\ \A x \in Handed : Past(x)

\* A new sample that is none older than the others of its series joins them.
LEMMA PublishSends ==
  ASSUME TypeOK, Sending, NEW x \in Samples, Publish(x), x \notin Handed,
         \A y \in Handed : y.series = x.series => y.time <= x.time
  PROVE  Sending' /\ Handed' = Handed \cup {x}
  <1> DEFINE batch == Append(buffer, x)
  <1>1. published' = published + 1
    BY DEF Publish
  <1>2. batch \in Seq(Samples) /\ ToSet(batch) = ToSet(buffer) \cup {x}
    BY ToSetAppend DEF TypeOK
  <1>3. Once(requests, batch, published + 1)
    BY OnceAppended DEF TypeOK, Sending, Handed
  <1>4. Ordered(requests, batch)
    BY OrderedAppended DEF TypeOK, Sending, Handed
  <1>5. requests \in Seq(SUBSET TimeSeries)
    BY DEF Sending
  <1>6. CASE ShouldFlush(batch)
    <2>1. PICK keys \in [DOMAIN batch -> LabelOrders] :
            requests' = Append(requests, Grouped(batch, keys)) /\ buffer' = <<>>
      BY <1>6 DEF Publish, FlushBatch
    <2> HIDE DEF batch
    <2>2. Grouped(batch, keys) \in SUBSET TimeSeries
          /\ SamplesOf(Grouped(batch, keys)) = ToSet(batch)
      BY <1>2, GroupedSamples
    <2>3. SentIn(requests') = SentIn(requests) \cup ToSet(batch)
      BY <1>5, <2>1, <2>2, SentAfter
    <2>4. requests' \in Seq(SUBSET TimeSeries)
      BY <1>5, <2>1, <2>2
    <2>5. Once(requests', buffer', published')
      BY <1>1, <1>2, <1>3, <1>5, <2>1, OnceFlushed
    <2>6. Ordered(requests', buffer')
      BY <1>2, <1>4, <1>5, <2>1, OrderedFlushed
    <2>7. Sending'
      BY <2>4, <2>5, <2>6 DEF Sending
    <2>8. Handed' = Handed \cup {x}
      BY <1>2, <2>1, <2>3, ToSetEmpty DEF Handed
    <2> QED
      BY <2>7, <2>8
  <1>7. CASE ~ShouldFlush(batch)
    <2>1. buffer' = batch /\ requests' = requests
      BY <1>7 DEF Publish
    <2> HIDE DEF batch
    <2>2. Sending'
      BY <1>1, <1>3, <1>4, <1>5, <2>1 DEF Sending
    <2>3. Handed' = Handed \cup {x}
      BY <1>2, <2>1 DEF Handed
    <2> QED
      BY <2>2, <2>3
  <1> QED
    BY <1>6, <1>7

\* Close sends what waits.
LEMMA CloseSends ==
  ASSUME TypeOK, Sending, ClosePublisher
  PROVE  Sending' /\ Handed' = Handed
  <1>1. published' = published
    BY DEF ClosePublisher
  <1>2. buffer \in Seq(Samples) /\ requests \in Seq(SUBSET TimeSeries)
    BY DEF TypeOK, Sending
  <1>3. CASE buffer = <<>>
    BY <1>1, <1>3 DEF ClosePublisher, Sending, Handed
  <1>4. CASE buffer # <<>>
    <2>1. PICK keys \in [DOMAIN buffer -> LabelOrders] :
            requests' = Append(requests, Grouped(buffer, keys)) /\ buffer' = <<>>
      BY <1>4 DEF ClosePublisher, FlushBatch
    <2>2. Grouped(buffer, keys) \in SUBSET TimeSeries
          /\ SamplesOf(Grouped(buffer, keys)) = ToSet(buffer)
      BY <1>2, GroupedSamples
    <2>3. SentIn(requests') = SentIn(requests) \cup ToSet(buffer)
      BY <1>2, <2>1, <2>2, SentAfter
    <2>4. requests' \in Seq(SUBSET TimeSeries)
      BY <1>2, <2>1, <2>2
    <2>5. Once(requests', buffer', published')
      BY <1>1, <1>2, <2>1, OnceFlushed DEF Sending
    <2>6. Ordered(requests', buffer')
      BY <1>2, <2>1, OrderedFlushed DEF Sending
    <2>7. Handed' = Handed
      BY <2>1, <2>3, ToSetEmpty DEF Handed
    <2> QED
      BY <2>4, <2>5, <2>6, <2>7 DEF Sending
  <1> QED
    BY <1>3, <1>4

LEMMA InitHistory == Init => HistoryInv
  <1> SUFFICES ASSUME Init PROVE HistoryInv
    OBVIOUS
  <1>1. requests = <<>> /\ buffer = <<>> /\ published = 0
    BY DEF Init, InitPublisher
  <1>2. SentIn(requests) = {} /\ ToSet(buffer) = {} /\ DOMAIN requests = {}
        /\ DOMAIN buffer = {} /\ Len(buffer) = 0
    BY <1>1, ToSetEmpty DEF SentIn
  <1>3. Once(requests, buffer, published)
    BY <1>1, <1>2, FS_EmptySet DEF Once
  <1>4. Ordered(requests, buffer)
    BY <1>2 DEF Ordered
  <1>5. requests \in Seq(SUBSET TimeSeries)
    BY <1>1
  <1> QED
    BY <1>2, <1>3, <1>4, <1>5 DEF HistoryInv, Sending, Handed

LEMMA SampleFields ==
  ASSUME NEW x \in Samples
  PROVE  x.run \in Runs /\ x.time \in Nat /\ x.series[2] \in Nat
  BY DEF Samples

\* Other samples stay past when a run publishes or goes on.
LEMMA PastStays ==
  ASSUME Inv, NEW g \in Runs, Step(g), NEW x, Past(x)
  PROVE  Past(x)'
  <1>1. x.run \in Runs /\ x.series[2] \in Nat
    BY SampleFields DEF Past
  <1>2. /\ pc \in [Runs -> Busy \cup {"new", "done"}] /\ next \in [Runs -> Nat]
    BY DEF Inv, TypeOK
  <1>3. /\ started' = started /\ now' = now
        /\ pc[g] \in Busy /\ \A h \in Runs \ {g} : pc'[h] = pc[h] /\ next'[h] = next[h]
    BY <1>2 DEF Step, Collect, FetchInfo, PublishNext, End, Goto, Busy
  <1>4. \/ pc'[x.run] \in {"ending", "done"}
        \/ pc'[x.run] = "publishing" /\ x.series[2] < next'[x.run]
    <2>1. CASE x.run # g
      BY <1>1, <1>3, <2>1 DEF Past
    <2>2. CASE x.run = g
      <3>1. pc[g] = "ending" \/ (pc[g] = "publishing" /\ x.series[2] < next[g])
        BY <1>3, <2>2 DEF Past, Busy
      <3>2. CASE pc[g] = "ending"
        BY <1>2, <2>2, <3>2 DEF Step, Collect, FetchInfo, PublishNext, End, Goto
      <3>3. CASE pc[g] = "publishing" /\ x.series[2] < next[g]
        <4>1. PublishNext(g)
          BY <3>3 DEF Step, Collect, FetchInfo, End
        <4>2. \/ pc'[g] = "ending"
              \/ pc'[g] = "publishing" /\ next'[g] = next[g] + 1
          BY <1>2, <4>1 DEF PublishNext, Goto
        <4> QED
          BY <1>1, <1>2, <2>2, <3>3, <4>2
      <3> QED
        BY <3>1, <3>2, <3>3
    <2> QED
      BY <2>1, <2>2
  <1>5. \A h \in Runs : pc'[h] \in Busy => pc[h] \in Busy
    BY <1>3
  <1> QED
    BY <1>3, <1>4, <1>5 DEF Past

LEMMA PublishHistory ==
  ASSUME Inv, HistoryInv, NEW g \in Runs, PublishNext(g)
  PROVE  HistoryInv'
  <1>0. PICK x : x = Sample(g)
    OBVIOUS
  <1>1. /\ pc[g] = "publishing" /\ Publish(x)
        /\ UNCHANGED <<now, started, inProgress, lastStatus, hasInfo>>
        /\ pc[g] \in Busy
    BY <1>0 DEF PublishNext, Busy
  <1>2. x \in Samples
    BY <1>0, SampleType DEF Inv
  <1>3. /\ x.series = <<g[1], next[g]>> /\ x.run = g
        /\ x.time = IF next[g] = Failure THEN now ELSE started[g]
    BY <1>0 DEF Sample
  <1>4. /\ now \in Nat /\ started[g] \in Nat /\ started[g] <= now /\ next[g] \in Nat
        /\ pc \in [Runs -> Busy \cup {"new", "done"}] /\ next \in [Runs -> Nat]
    BY <1>1 DEF Inv, TypeOK, StatusIsOlder
  <1>5. started[g] <= x.time /\ x.time <= now
    BY <1>3, <1>4
  <1>6. ASSUME NEW y \in Handed, y.series = x.series
        PROVE  y.run # g /\ y.time <= x.time
    <2>1. Past(y) /\ y.series[1] = g[1] /\ y.series[2] = next[g]
      BY <1>3, <1>6 DEF HistoryInv
    <2>2. y.run # g
      BY <1>1, <1>4, <2>1 DEF Past
    <2>3. y.time <= started[g]
      BY <1>1, <2>1, <2>2 DEF Past
    <2>4. y.time \in Nat /\ x.time \in Nat
      BY <1>2, <2>1, SampleFields DEF Past
    <2> QED
      BY <1>4, <1>5, <2>2, <2>3, <2>4
  <1>7. Sending' /\ Handed' = Handed \cup {x}
    <2>1. x \notin Handed
      BY <1>3, <1>6
    <2> QED
      BY <1>1, <1>2, <1>6, <2>1, PublishSends DEF Inv, HistoryInv
  <1>8. Past(x)'
    <2>1. \/ pc'[g] = "ending"
          \/ pc'[g] = "publishing" /\ next'[g] = next[g] + 1
      BY <1>1, <1>4 DEF PublishNext, Goto
    <2>2. \/ pc'[x.run] \in {"ending", "done"}
          \/ pc'[x.run] = "publishing" /\ x.series[2] < next'[x.run]
      BY <1>3, <1>4, <2>1
    <2>3. \A h \in Runs : pc'[h] \in Busy => pc[h] \in Busy
      BY <1>1, <1>4 DEF PublishNext, Goto
    <2>4. \A h \in Runs : h[1] = g[1] /\ pc'[h] \in Busy => h = g
      BY <1>1, <2>3 DEF Inv, OneCycleAtATime
    <2> QED
      BY <1>1, <1>2, <1>3, <1>5, <2>2, <2>4 DEF Past
  <1>9. \A y \in Handed : Past(y)'
    BY PastStays DEF HistoryInv, Step
  <1> QED
    BY <1>7, <1>8, <1>9 DEF HistoryInv

LEMMA NextHistory == Inv /\ HistoryInv /\ [Next]_vars => HistoryInv'
  <1> SUFFICES ASSUME Inv, HistoryInv, [Next]_vars PROVE HistoryInv'
    OBVIOUS
  <1>0. /\ pc \in [Runs -> Busy \cup {"new", "done"}]
        /\ started \in [Runs -> Nat] /\ now \in Nat
    BY DEF Inv, TypeOK
  <1>1. UNCHANGED publisher => Sending' /\ Handed' = Handed
    BY DEF HistoryInv, Sending, Handed, publisher
  <1>2. ASSUME NEW g \in Runs, Start(g) PROVE HistoryInv'
    <2>1. /\ Sending' /\ Handed' = Handed /\ now' = now /\ next' = next /\ pc[g] = "new"
          /\ \A h \in Runs \ {g} : pc'[h] = pc[h] /\ started'[h] = started[h]
          /\ pc'[g] = "done" \/ started'[g] = now
      BY <1>0, <1>1, <1>2 DEF Start, Goto
    <2> SUFFICES ASSUME NEW x, Past(x) PROVE Past(x)'
      BY <2>1 DEF HistoryInv
    <2>2. x.run \in Runs /\ x.run # g /\ x.time <= now
      BY <2>1, SampleFields DEF Past
    <2>3. ASSUME NEW h \in Runs, h[1] = x.series[1], pc'[h] \in Busy, h # x.run
          PROVE  x.time <= started'[h]
      <3>1. CASE h = g
        BY <2>1, <2>2, <2>3, <3>1 DEF Busy
      <3>2. CASE h # g
        BY <2>1, <2>3, <3>2 DEF Past
      <3> QED
        BY <3>1, <3>2
    <2> QED
      BY <2>1, <2>2, <2>3 DEF Past
  <1>3. ASSUME NEW g \in Runs, Collect(g) \/ FetchInfo(g) \/ End(g) PROVE HistoryInv'
    <2>1. Sending' /\ Handed' = Handed
      BY <1>1, <1>3 DEF Collect, FetchInfo, End
    <2> QED
      BY <1>3, <2>1, PastStays DEF HistoryInv, Step
  <1>4. ASSUME NEW g \in Runs, PublishNext(g) PROVE HistoryInv'
    BY <1>4, PublishHistory
  <1>5. CASE TimePasses
    <2>1. /\ Sending' /\ Handed' = Handed /\ now' = now + 1
          /\ UNCHANGED <<pc, started, next>>
      BY <1>1, <1>5 DEF TimePasses, Tick, controller
    <2> SUFFICES ASSUME NEW x, Past(x) PROVE Past(x)'
      BY <2>1 DEF HistoryInv
    <2>2. x.time \in Nat
      BY SampleFields DEF Past
    <2> QED
      BY <1>0, <2>1, <2>2 DEF Past
  <1>6. CASE Close
    <2>1. UNCHANGED <<now, pc, started, next>>
      BY <1>6 DEF Close, ClosePublisher, controller
    <2>2. Sending' /\ Handed' = Handed
      BY <1>6, CloseSends DEF Close, Inv, HistoryInv
    <2> QED
      BY <2>1, <2>2 DEF HistoryInv, Past
  <1>7. CASE UNCHANGED vars
    BY <1>1, <1>7 DEF vars, HistoryInv, Past
  <1> QED
    BY <1>2, <1>3, <1>4, <1>5, <1>6, <1>7 DEF Next, Step, Quiet

LEMMA HistoryInvariant == Spec => [](Inv /\ HistoryInv)
  <1> QED
    BY InitInv, InitHistory, NextInv, NextHistory, PTL DEF Spec

\* Whatever controllers publish, however their cycles interleave and whenever
\* the publisher is closed, no sample is in two requests or in a request and
\* still in the buffer, and none is lost between Publish and the request
\* (Publish, flushBatch and Close, remotewrite/publisher.go:93-176).
THEOREM SentOnceHolds == Spec => []SentOnce
  <1>1. Inv /\ HistoryInv => SentOnce
    <2> SUFFICES ASSUME HistoryInv PROVE SentOnce
      OBVIOUS
    <2>1. Once(requests, buffer, published)
      BY DEF HistoryInv, Sending
    <2>2. \A i \in DOMAIN requests : SamplesOf(requests[i]) \cap ToSet(buffer) = {}
      BY <2>1, InSent DEF Once
    <2> QED
      BY <2>1, <2>2 DEF Once, SentOnce, SentIn
  <1> QED
    BY <1>1, HistoryInvariant, PTL

\* Within one time series of a request, and from each request to later ones, the
\* samples of a series are in the order of their times, whatever order the labels
\* are in when a batch is grouped: the flag keeps a controller's collections
\* apart (epever.go:143-159), and the buffer keeps the order in which they
\* publish (remotewrite/publisher.go:93-123, 216-255).  Of a series that is split
\* under two keys the two parts may come in either order within their request
\* (publisher.go:258-261).
THEOREM InOrderHolds == Spec => []SamplesInOrder
  <1>1. Inv /\ HistoryInv => SamplesInOrder
    BY DEF HistoryInv, Sending, Ordered, SamplesInOrder
  <1> QED
    BY <1>1, HistoryInvariant, PTL
=============================================================================
