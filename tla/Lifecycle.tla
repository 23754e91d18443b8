----------------------------- MODULE Lifecycle -----------------------------
(***************************************************************************)
(* The process from start to exit: run (cmd/controller/main.go), the       *)
(* Application (internal/app), and Close of the two controllers with what  *)
(* runs beside it: collections, HTTP requests, Shutdown.                   *)
(*                                                                         *)
(* Controllers are built in order; each starts a scheduler and a goroutine *)
(* that collects at once.  A signal makes a goroutine call Shutdown, which *)
(* stops the listener; that makes Run return, and run closes publisher     *)
(* and controllers and exits.  An exit cuts off whatever still runs.       *)
(***************************************************************************)
EXTENDS VoltgoConnection, FiniteSets

CONSTANTS
  Order,        \* the controllers, in the order of the factories
  epever, voltgo,
  Requests,     \* HTTP requests that write to the Epever
  Operations,   \* the register operations of a request
  MaxTicks      \* bound: the runs each scheduler starts

Controllers == {Order[i] : i \in DOMAIN Order}

ASSUME LifecycleAssumption ==
  /\ Order \in Seq({epever, voltgo}) \ {<<>>} /\ epever # voltgo
  /\ \A i, j \in DOMAIN Order : Order[i] = Order[j] => i = j
  /\ Operations \in Nat \ {0}
  /\ MaxTicks \in Nat

\* <<c, 0>> is the goroutine NewController starts, <<c, n>> the n-th run of the
\* scheduler.
Runs == Controllers \X (0..MaxTicks)

ASSUME CollectionsAssumption == Collections = {g \in Runs : g[1] = voltgo}

VARIABLES
  main,        \* where the main goroutine is
  index,       \* the controller it builds or closes next
  built,       \* Application.controllers
  cancelled,   \* the context of signal.NotifyContext is done
  server,      \* the HTTP server: up, draining or down
  publisher,   \* the publisher: none, open or closed
  scheduler,   \* by controller: none, running or stopped
  closed,      \* the controllers whose client or collector was closed
  pc,          \* where each run is
  inProgress,  \* collectInProgress, by controller
  hasInfo,     \* lastInfo of the Voltgo controller is set
  request,     \* what became of each request
  left         \* the operations it still has to make

process == <<main, index, built, cancelled, server, publisher, scheduler, closed>>
collecting == <<pc, inProgress, hasInfo>>
serving == <<request, left>>
vars == <<process, collecting, serving, connection>>

Busy == {"reading", "info", "publishing"}

\* The ways the process ends: run returns; startup fails and main calls
\* log.Fatal; a signal is not caught.
Gone == {"exited", "fatal", "killed"}

Alive == main \notin Gone

MainTypeOK ==
  /\ main \in Gone \cup
       {"starting", "building", "listening", "serving", "closing", "stopping", "waiting"}
  /\ built \in Seq(Controllers)
  /\ index \in Nat \ {0}
  /\ main = "building" => index <= Len(Order)
  /\ main = "waiting" => index <= Len(built)
  /\ cancelled \in BOOLEAN
  /\ server \in {"up", "draining", "down"}
  /\ publisher \in {"none", "open", "closed"}
  /\ scheduler \in [Controllers -> {"none", "running", "stopped"}]
  /\ closed \subseteq Controllers

RunsTypeOK ==
  /\ pc \in [Runs -> Busy \cup {"new", "done"}]
  /\ inProgress \in [Controllers -> BOOLEAN]
  /\ hasInfo \in BOOLEAN

RequestsTypeOK ==
  /\ request \in [Requests -> {"new", "handling", "answered", "failed"}]
  /\ left \in [Requests -> 0..Operations]

TypeOK == MainTypeOK /\ RunsTypeOK /\ RequestsTypeOK /\ ConnectionTypeOK

Init ==
  /\ main = "starting" /\ index = 1 /\ built = <<>>
  /\ cancelled = FALSE /\ server = "up" /\ publisher = "none"
  /\ scheduler = [c \in Controllers |-> "none"]
  /\ closed = {}
  /\ pc = [g \in Runs |-> "new"]
  /\ inProgress = [c \in Controllers |-> FALSE]
  /\ hasInfo = FALSE
  /\ request = [r \in Requests |-> "new"]
  /\ left = [r \in Requests |-> Operations]
  /\ InitConnection

-----------------------------------------------------------------------------
(* The main goroutine, up to Run                                           *)

NewPublisher ==
  /\ main = "starting"
  /\ \/ main' = "building" /\ publisher' = "open"
     \/ main' = "fatal" /\ UNCHANGED publisher
  /\ UNCHANGED <<index, built, cancelled, server, scheduler, closed>>
  /\ UNCHANGED <<collecting, serving, connection>>

NextFactory ==
  IF index < Len(Order) THEN index' = index + 1 /\ UNCHANGED main
  ELSE index' = 1 /\ main' = "listening"

\* A controller is built and starts its scheduler, or is disabled and dropped,
\* or cannot be built.
Build ==
  /\ main = "building"
  /\ \/ /\ built' = Append(built, Order[index])
        /\ scheduler' = [scheduler EXCEPT ![Order[index]] = "running"]
        /\ NextFactory
     \/ NextFactory /\ UNCHANGED <<built, scheduler>>
     \/ main' = "fatal" /\ UNCHANGED <<index, built, scheduler>>
  /\ UNCHANGED <<cancelled, server, publisher, closed>>
  /\ UNCHANGED <<collecting, serving, connection>>

\* ListenAndServe fails if it cannot listen or Shutdown was called before it.
Listen ==
  /\ main = "listening"
  /\ \/ server = "up" /\ main' = "serving" /\ UNCHANGED cancelled
     \/ main' = "closing" /\ cancelled' = TRUE
  /\ UNCHANGED <<index, built, server, publisher, scheduler, closed>>
  /\ UNCHANGED <<collecting, serving, connection>>

\* ListenAndServe returns as soon as Shutdown has closed the listener.  The
\* deferred stop of NotifyContext comes first.
RunReturns ==
  /\ main = "serving" /\ server # "up"
  /\ main' = "closing" /\ cancelled' = TRUE
  /\ UNCHANGED <<index, built, server, publisher, scheduler, closed>>
  /\ UNCHANGED <<collecting, serving, connection>>

-----------------------------------------------------------------------------
(* Application.Close, deferred by run                                      *)

ClosePublisher ==
  /\ main = "closing" /\ main' = "stopping"
  /\ publisher' = "closed"
  /\ UNCHANGED <<index, built, cancelled, server, scheduler, closed>>
  /\ UNCHANGED <<collecting, serving, connection>>

\* The scheduler starts no run any more.
StopScheduler ==
  /\ main = "stopping" /\ index <= Len(built)
  /\ main' = "waiting"
  /\ scheduler' = [scheduler EXCEPT ![built[index]] = "stopped"]
  /\ UNCHANGED <<index, built, cancelled, server, publisher, closed>>
  /\ UNCHANGED <<collecting, serving, connection>>

\* scheduler.Stop returns when the runs that it started have ended; nobody
\* waits for the goroutine of NewController.
RunsEnded(c) == \A g \in Runs : g[1] = c /\ g[2] > 0 => pc[g] \notin Busy

\* The port is closed without the lock of its operations, the collector with.
CloseClient(c) ==
  /\ closed' = closed \cup {c}
  /\ IF c = voltgo THEN CloseCollector ELSE UNCHANGED connection

\* Mutant: the client is closed without waiting for runs.
CloseController_NoWait ==
  /\ main = "waiting" /\ main' = "stopping"
  /\ CloseClient(built[index])
  /\ index' = index + 1
  /\ UNCHANGED <<built, cancelled, server, publisher, scheduler>>
  /\ UNCHANGED <<collecting, serving>>

\* Mutant: a client that cannot be closed ends it.
CloseController_StopsAtError ==
  /\ main = "waiting" /\ RunsEnded(built[index])
  /\ CloseClient(built[index])
  /\ index' = index + 1
  /\ main' \in {"stopping", "exited"}
  /\ UNCHANGED <<built, cancelled, server, publisher, scheduler>>
  /\ UNCHANGED <<collecting, serving>>

\* An error is logged and the next controller closed.
CloseController ==
  /\ main = "waiting" /\ main' = "stopping"
  /\ RunsEnded(built[index])
  /\ CloseClient(built[index])
  /\ index' = index + 1
  /\ UNCHANGED <<built, cancelled, server, publisher, scheduler>>
  /\ UNCHANGED <<collecting, serving>>

Exit ==
  /\ main = "stopping" /\ index > Len(built)
  /\ main' = "exited"
  /\ UNCHANGED <<index, built, cancelled, server, publisher, scheduler, closed>>
  /\ UNCHANGED <<collecting, serving, connection>>

Main ==
  \/ NewPublisher \/ Build \/ Listen \/ RunReturns
  \/ ClosePublisher \/ StopScheduler \/ CloseController \/ Exit

-----------------------------------------------------------------------------
(* Signals, Shutdown and requests                                          *)

\* A signal is caught between NotifyContext and stop, and kills otherwise.
Signal ==
  /\ Alive
  /\ IF main \in {"listening", "serving"}
     THEN cancelled' = TRUE /\ UNCHANGED main
     ELSE main' = "killed" /\ UNCHANGED cancelled
  /\ UNCHANGED <<index, built, server, publisher, scheduler, closed>>
  /\ UNCHANGED <<collecting, serving, connection>>

Shutdown ==
  /\ Alive /\ cancelled /\ server = "up"
  /\ server' = "draining"
  /\ UNCHANGED <<main, index, built, cancelled, publisher, scheduler, closed>>
  /\ UNCHANGED <<collecting, serving, connection>>

\* Shutdown returns: no request is left, or its fifteen seconds are over.
Drained ==
  /\ Alive /\ server = "draining"
  /\ server' = "down"
  /\ UNCHANGED <<main, index, built, cancelled, publisher, scheduler, closed>>
  /\ UNCHANGED <<collecting, serving, connection>>

Arrive(r) ==
  /\ main = "serving" /\ server = "up"
  /\ request[r] = "new" /\ \E i \in DOMAIN built : built[i] = epever
  /\ request' = [request EXCEPT ![r] = "handling"]
  /\ UNCHANGED <<left, process, collecting, connection>>

\* Mutant: one operation too many.
Operate_OneMore(r) ==
  /\ Alive /\ request[r] = "handling"
  /\ IF epever \in closed
     THEN request' = [request EXCEPT ![r] = "failed"] /\ UNCHANGED left
     ELSE /\ left' = [left EXCEPT ![r] = left[r] - 1]
          /\ request' = IF left[r] = 0 THEN [request EXCEPT ![r] = "answered"] ELSE request
  /\ UNCHANGED <<process, collecting, connection>>

\* A register operation of a handler fails when the port is closed.
Operate(r) ==
  /\ Alive /\ request[r] = "handling"
  /\ IF epever \in closed
     THEN request' = [request EXCEPT ![r] = "failed"] /\ UNCHANGED left
     ELSE /\ left' = [left EXCEPT ![r] = left[r] - 1]
          /\ request' = IF left[r] = 1 THEN [request EXCEPT ![r] = "answered"] ELSE request
  /\ UNCHANGED <<process, collecting, connection>>

-----------------------------------------------------------------------------
(* Collections                                                             *)

Goto(g, place) == pc' = [pc EXCEPT ![g] = place]

\* The goroutine of NewController, or the scheduler's next run, starts; it
\* gives up at once if another is in progress.
Start(g) ==
  /\ Alive /\ pc[g] = "new"
  /\ \E i \in DOMAIN built : built[i] = g[1]
  /\ g[2] > 0 => scheduler[g[1]] = "running"
  /\ g[2] > 1 => pc[<<g[1], g[2] - 1>>] # "new"
  /\ IF inProgress[g[1]]
     THEN Goto(g, "done") /\ UNCHANGED <<inProgress, connection>>
     ELSE /\ Goto(g, "reading")
          /\ inProgress' = [inProgress EXCEPT ![g[1]] = TRUE]
          /\ IF g[1] = voltgo THEN Ask(g) ELSE UNCHANGED connection
  /\ UNCHANGED <<hasInfo, process, serving>>

\* GetStatus of the Epever returns a status or an error.
CollectEpever(g) ==
  /\ Alive /\ g[1] = epever
  /\ pc[g] = "reading"
  /\ Goto(g, "publishing")
  /\ UNCHANGED <<inProgress, hasInfo, process, serving, connection>>

CollectVoltgo(g) ==
  /\ Alive /\ g \in Collections
  /\ LockMu(g) \/ CollectorStep(g)
  /\ UNCHANGED <<process, collecting, serving>>

\* GetStatus of the Voltgo returned: the info is fetched if it is missing.
GotStatus(g) ==
  /\ Alive /\ g \in Collections /\ pc[g] = "reading"
  /\ at[g] \in {"ok", "failed"}
  /\ IF at[g] = "ok" /\ ~hasInfo
     THEN Goto(g, "info") /\ Ask(g)
     ELSE /\ Goto(g, "publishing") /\ Reach(g, "outside")
          /\ UNCHANGED <<mu, battery, links, openedBy, broken, undropped>>
  /\ UNCHANGED <<inProgress, hasInfo, process, serving>>

GotInfo(g) ==
  /\ Alive /\ g \in Collections /\ pc[g] = "info" /\ at[g] \in {"ok", "failed"}
  /\ hasInfo' = (hasInfo \/ at[g] = "ok")
  /\ Goto(g, "publishing") /\ Reach(g, "outside")
  /\ UNCHANGED <<inProgress, process, serving>>
  /\ UNCHANGED <<mu, battery, links, openedBy, broken, undropped>>

\* Every metric is published, to the publisher or to what is left of it.
Finish(g) ==
  /\ Alive /\ pc[g] = "publishing"
  /\ Goto(g, "done")
  /\ inProgress' = [inProgress EXCEPT ![g[1]] = FALSE]
  /\ UNCHANGED <<hasInfo, process, serving, connection>>

Collect(g) ==
  CollectEpever(g) \/ CollectVoltgo(g) \/ GotStatus(g) \/ GotInfo(g) \/ Finish(g)

LinkLost == Alive /\ Lose /\ UNCHANGED <<process, collecting, serving>>

Next ==
  \/ Main \/ Signal \/ Shutdown \/ Drained
  \/ \E r \in Requests : Arrive(r) \/ Operate(r)
  \/ \E g \in Runs : Start(g) \/ Collect(g)
  \/ LinkLost

Spec == Init /\ [][Next]_vars

\* Goroutines run; connects, reads and publishing end by their timeouts.
Fairness ==
  /\ WF_vars(Main) /\ WF_vars(Shutdown)
  /\ \A g \in Runs : WF_vars(Collect(g))

FairSpec == Spec /\ Fairness

-----------------------------------------------------------------------------
(* Properties                                                              *)

\* Once a controller's client is closed no run of its scheduler reads from it
\* or publishes, though runs take long and Close may come at any moment
\* (epever.go:257, voltgo.go:301: the scheduler is stopped first).
ClosedMeansQuiet == \A c \in closed : RunsEnded(c)

\* A link that is up after Close was made by the goroutine of NewController,
\* the only one nobody waits for, or could not be disconnected, at Close or
\* before; there is none else (voltgo/collector.go:126).
OnlyFirstRunReconnects ==
  voltgo \in closed =>
    \A link \in links : openedBy[link] = <<voltgo, 0>> \/ link \in undropped

\* When run returns everything that was built is closed, whichever Close
\* failed and however the server ended (app.go:237).
EverythingClosed ==
  main = "exited" =>
    /\ publisher = "closed"
    /\ \A i \in DOMAIN built : built[i] \in closed /\ scheduler[built[i]] = "stopped"

\* A signal, or a server that cannot listen, ends the process, whatever the
\* collections are doing: nothing that Close waits for waits for ever.
SignalEndsProcess == cancelled ~> ~Alive

\* "On SIGINT/SIGTERM, drain in-flight HTTP requests (including Modbus EEPROM
\* writes) before the process exits" (main.go:80).
RequestsDrained ==
  main = "exited" => \A r \in Requests : request[r] \in {"new", "answered"}
=============================================================================
