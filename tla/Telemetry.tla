----------------------------- MODULE Telemetry -----------------------------
(***************************************************************************)
(* collectAndPublish of the Epever and Voltgo controllers, and the         *)
(* remote_write publisher they share.                                      *)
(*                                                                         *)
(* A controller starts one goroutine when it is created and its scheduler  *)
(* starts another every period, whether or not the last has ended.  They   *)
(* keep out of each other's way with the flag collectInProgress.           *)
(***************************************************************************)
EXTENDS RemoteWrite, FiniteSets

CONSTANTS
  Controllers,
  CycleSize,   \* the metrics of a successful collection, by controller
  WithInfo,    \* the controllers that also fetch static info (voltgo)
  Period,      \* the publish period, as configured
  MaxTicks     \* bound: runs the scheduler starts

ASSUME ControllersAssumption ==
  /\ CycleSize \in [Controllers -> Nat \ {0}]
  /\ WithInfo \subseteq Controllers
  /\ Period \in Nat \ {0} /\ MaxTicks \in Nat

\* <<c, 0>> is the goroutine NewController starts, <<c, n>> the one of the
\* scheduler's n-th tick.
Runs == Controllers \X (0..MaxTicks)

Failure == 0    \* the metric "collection-failure"

VARIABLES
  pc,           \* where each run is
  started,      \* when it began to collect
  next,         \* the metric it publishes next
  inProgress,   \* collectInProgress, by controller
  lastStatus,   \* lastStatus, by controller: when it was collected, or 0
  hasInfo       \* whether lastInfo is set, by controller

vars == <<now, publisher, pc, started, next, inProgress, lastStatus, hasInfo>>

Busy == {"reading", "info", "publishing", "ending"}

Samples == [series : {s \in Controllers \X Nat : s[2] <= CycleSize[s[1]]},
            run : Runs, at : Nat, time : Nat]

TypeOK ==
  /\ now \in Nat \ {0} /\ lastPublish \in 1..now
  /\ buffer \in Seq(Samples)
  /\ published \in Nat /\ closed \in BOOLEAN
  /\ pc \in [Runs -> Busy \cup {"new", "done"}]
  /\ started \in [Runs -> Nat]
  /\ next \in [Runs -> Nat] /\ \A g \in Runs : next[g] <= CycleSize[g[1]]
  /\ inProgress \in [Controllers -> BOOLEAN]
  /\ lastStatus \in [Controllers -> Nat]
  /\ hasInfo \in [Controllers -> BOOLEAN]

Init ==
  /\ InitPublisher
  /\ pc = [g \in Runs |-> "new"]
  /\ started = [g \in Runs |-> 0]
  /\ next = [g \in Runs |-> 0]
  /\ inProgress = [c \in Controllers |-> FALSE]
  /\ lastStatus = [c \in Controllers |-> 0]
  /\ hasInfo = [c \in Controllers |-> FALSE]

-----------------------------------------------------------------------------
Goto(g, place) == pc' = [pc EXCEPT ![g] = place]

Due(g) == now + Period > g[2] * Period

\* Mutant: the flag is not looked at.
Start_NoFlag(g) ==
  /\ pc[g] = "new" /\ Due(g)
  /\ inProgress' = [inProgress EXCEPT ![g[1]] = TRUE]
  /\ Goto(g, "reading")
  /\ started' = [started EXCEPT ![g] = now]
  /\ UNCHANGED <<now, publisher, next, lastStatus, hasInfo>>

\* A run that finds another in progress gives up.
Start(g) ==
  /\ pc[g] = "new" /\ Due(g)
  /\ IF inProgress[g[1]]
     THEN Goto(g, "done") /\ UNCHANGED <<inProgress, started>>
     ELSE /\ inProgress' = [inProgress EXCEPT ![g[1]] = TRUE]
          /\ Goto(g, "reading")
          /\ started' = [started EXCEPT ![g] = now]
  /\ UNCHANGED <<now, publisher, next, lastStatus, hasInfo>>

\* Mutant: the flag is cleared as soon as the device has been read.
Collect_ClearsFlag(g) ==
  /\ pc[g] = "reading"
  /\ Goto(g, "publishing")
  /\ lastStatus' = [lastStatus EXCEPT ![g[1]] = started[g]]
  /\ next' = [next EXCEPT ![g] = 1]
  /\ inProgress' = [inProgress EXCEPT ![g[1]] = FALSE]
  /\ UNCHANGED <<now, publisher, started, hasInfo>>

\* GetStatus returns.
Collect(g) ==
  /\ pc[g] = "reading"
  /\ \/ /\ lastStatus' = [lastStatus EXCEPT ![g[1]] = started[g]]
        /\ next' = [next EXCEPT ![g] = 1]
        /\ Goto(g, IF g[1] \in WithInfo /\ ~hasInfo[g[1]] THEN "info"
                                                         ELSE "publishing")
     \/ /\ next' = [next EXCEPT ![g] = Failure]
        /\ Goto(g, "publishing")
        /\ UNCHANGED lastStatus
  /\ UNCHANGED <<now, publisher, started, inProgress, hasInfo>>

\* fetchInfoOnce: a failure is logged and left to the next cycle.
FetchInfo(g) ==
  /\ pc[g] = "info"
  /\ \E fetched \in BOOLEAN : hasInfo' = [hasInfo EXCEPT ![g[1]] = fetched]
  /\ Goto(g, "publishing")
  /\ UNCHANGED <<now, publisher, started, next, inProgress, lastStatus>>

Sample(g) ==
  [ series |-> <<g[1], next[g]>>, run |-> g, at |-> now,
    time |-> IF next[g] = Failure THEN now ELSE started[g] ]

\* Mutant: one metric too many.
PublishNext_OneMore(g) ==
  /\ pc[g] = "publishing"
  /\ Publish(Sample(g))
  /\ IF next[g] = Failure \/ next[g] > CycleSize[g[1]]
     THEN Goto(g, "ending") /\ UNCHANGED next
     ELSE next' = [next EXCEPT ![g] = next[g] + 1] /\ UNCHANGED pc
  /\ UNCHANGED <<now, started, inProgress, lastStatus, hasInfo>>

PublishNext(g) ==
  /\ pc[g] = "publishing"
  /\ Publish(Sample(g))
  /\ IF next[g] \in {Failure, CycleSize[g[1]]}
     THEN Goto(g, "ending") /\ UNCHANGED next
     ELSE next' = [next EXCEPT ![g] = next[g] + 1] /\ UNCHANGED pc
  /\ UNCHANGED <<now, started, inProgress, lastStatus, hasInfo>>

\* Mutant: the flag stays set when the collection failed.
End_OnlyOnSuccess(g) ==
  /\ pc[g] = "ending"
  /\ Goto(g, "done")
  /\ inProgress' = [inProgress EXCEPT ![g[1]] = next[g] = Failure]
  /\ UNCHANGED <<now, publisher, started, next, lastStatus, hasInfo>>

\* The deferred function
End(g) ==
  /\ pc[g] = "ending"
  /\ Goto(g, "done")
  /\ inProgress' = [inProgress EXCEPT ![g[1]] = FALSE]
  /\ UNCHANGED <<now, publisher, started, next, lastStatus, hasInfo>>

controller == <<pc, started, next, inProgress, lastStatus, hasInfo>>

TimePasses == Tick /\ UNCHANGED controller

\* Application.Close closes the publisher while collections may still run.
Close == ClosePublisher /\ UNCHANGED controller

Quiet == (\A g \in Runs : pc[g] = "done") /\ UNCHANGED vars

Step(g) ==
  Collect(g) \/ FetchInfo(g) \/ PublishNext(g) \/ End(g)

Next ==
  \/ \E g \in Runs : Start(g) \/ Step(g)
  \/ TimePasses \/ Close \/ Quiet

Spec == Init /\ [][Next]_vars

-----------------------------------------------------------------------------
(* Properties                                                              *)

\* Of one controller's runs at most one collects and publishes at a time.
OneCycleAtATime ==
  \A g, h \in Runs :
    g[1] = h[1] /\ pc[g] \in Busy /\ pc[h] \in Busy => g = h

\* The status the metrics endpoint serves is never replaced by an older one.
StatusNeverGoesBack ==
  [][\A c \in Controllers : lastStatus'[c] >= lastStatus[c]]_vars

SamplesOf(request) == UNION {ToSet(s) : s \in request}

\* The samples of a series leave in order of their timestamps, within a time
\* series of a request and from one request to the next: remote_write
\* endpoints refuse samples that are out of order.  When the key splits a series,
\* the parts are listed in the order of a map (publisher.go:258-261), and nothing
\* is said of their order within the request.
SamplesInOrder ==
  /\ \A i, j \in DOMAIN requests :
       i < j => \A x \in SamplesOf(requests[i]), y \in SamplesOf(requests[j]) :
                  x.series = y.series => x.time <= y.time
  /\ \A i \in DOMAIN requests : \A s \in requests[i] :
       \A m, n \in DOMAIN s : m < n => s[m].time <= s[n].time

\* A batch never grows beyond its size, whatever becomes of the requests.
BufferBounded == Len(buffer) < BatchSize

\* A sample is sent at most once, and each one published is either waiting or
\* was in a request.
SentOnce ==
  /\ \A i, j \in DOMAIN requests :
       i # j => SamplesOf(requests[i]) \cap SamplesOf(requests[j]) = {}
  /\ \A i \in DOMAIN requests :
       SamplesOf(requests[i]) \cap ToSet(buffer) = {}
  /\ Cardinality(UNION {SamplesOf(requests[i]) : i \in DOMAIN requests})
     + Len(buffer) = published

\* When a successful cycle of a controller with at least BatchSize metrics
\* ends, no sample from before that cycle is still waiting.
FullCyclePushesOlder ==
  \A g \in Runs :
    pc[g] = "ending" /\ next[g] >= BatchSize =>
      \A i \in DOMAIN buffer : buffer[i].at >= started[g]

\* The flag is set only while a run of the controller will still clear it: no
\* way out of a cycle leaves it set, which would stop all later ones.
FlagHasOwner ==
  \A c \in Controllers : inProgress[c] => \E g \in Runs : g[1] = c /\ pc[g] \in Busy

\* "Group metrics by metric name and labels (same series)"
\* (remotewrite/publisher.go:216): a request has each series once.
EachSeriesOnce ==
  \A i \in DOMAIN requests : \A s, t \in requests[i] :
    s # t => \A x \in ToSet(s), y \in ToSet(t) : x.series # y.series
=============================================================================
