-------------------------- MODULE Lifecycle_proof --------------------------
(***************************************************************************)
(* Theorems about Lifecycle, for any order of controllers, any number of   *)
(* runs, connects, requests and operations.                                *)
(***************************************************************************)
EXTENDS Lifecycle, TLAPS

\* Whoever is inside GetStatus or GetInfo holds the mutex, alone.
Exclusive ==
  /\ \A g \in Collections : at[g] \in Inside <=> g \in mu
  /\ \A g, h \in mu : g = h

\* Links are numbered; the one in use is not broken, and one that is read from
\* is there.
Links ==
  /\ battery \in 0..Len(openedBy)
  /\ broken \subseteq 1..Len(openedBy)
  /\ battery \notin broken
  /\ nil \notin links
  /\ \A g \in Collections : at[g] = "reading" => battery # nil

\* Only a run that collects is in GetStatus or GetInfo.
Asking ==
  \A g \in Collections : at[g] # "outside" => pc[g] \in {"reading", "info"}

\* Controllers are built once each, and closed in their order after the
\* publisher, with their scheduler stopped.
Closing ==
  /\ main \in {"stopping", "waiting", "exited"} => publisher = "closed"
  /\ main \in {"starting", "building", "listening", "serving", "closing", "fatal"} =>
       closed = {}
  /\ main \in {"starting", "listening", "serving", "closing"} => index = 1
  /\ main \in {"stopping", "waiting", "exited"} =>
       \A i \in 1..Len(built) : i < index => built[i] \in closed
  /\ main = "waiting" => scheduler[built[index]] = "stopped"
  /\ main = "exited" => index > Len(built)
  /\ \A c \in closed : scheduler[c] = "stopped"

\* A request that is handled has operations to make.
Working == \A r \in Requests : request[r] \in {"new", "handling"} => left[r] > 0

Inv ==
  /\ TypeOK
  /\ Exclusive /\ Links /\ Asking /\ Closing /\ Working
  /\ NoLinkLeftBehind /\ ClosedMeansQuiet /\ OnlyFirstRunReconnects

-----------------------------------------------------------------------------
\* A link that is dropped is down, or is one that could not be disconnected.
LEMMA Dropped ==
  ASSUME Inv, dropConnectionLocked
  PROVE  /\ battery' = nil /\ links' \subseteq links
         /\ undropped \subseteq undropped' /\ undropped' \subseteq Linked
         /\ links' \subseteq undropped'
<1> USE DEF Inv, dropConnectionLocked
<1>1. CASE links' = links \ {battery} /\ UNCHANGED undropped
  BY <1>1 DEF TypeOK, ConnectionTypeOK, NoLinkLeftBehind
<1>2. CASE battery \in links /\ undropped' = undropped \cup {battery} /\ UNCHANGED links
  BY <1>2 DEF TypeOK, ConnectionTypeOK, NoLinkLeftBehind
<1> QED BY <1>1, <1>2

LEMMA OrderType ==
  /\ Len(Order) \in Nat \ {0}
  /\ \A i \in 1..Len(Order) : Order[i] \in Controllers
  /\ Controllers \subseteq {epever, voltgo}
  /\ Collections \subseteq Runs
  /\ \A g \in Collections : g[1] = voltgo
  /\ \A g \in Runs : g[1] = voltgo => g \in Collections
<1>1. Order \in Seq({epever, voltgo}) /\ Order # <<>>
  BY LifecycleAssumption
<1>2. Len(Order) \in Nat \ {0} /\ DOMAIN Order = 1..Len(Order)
  BY <1>1
<1>3. \A i \in 1..Len(Order) : Order[i] \in Controllers /\ Order[i] \in {epever, voltgo}
  BY <1>1, <1>2 DEF Controllers
<1>4. Controllers \subseteq {epever, voltgo}
  BY <1>2, <1>3 DEF Controllers
<1> QED BY <1>2, <1>3, <1>4, CollectionsAssumption

LEMMA InitInv == Init => Inv
<1> SUFFICES ASSUME Init PROVE Inv  OBVIOUS
<1> USE DEF Init, InitConnection
<1>1. ConnectionTypeOK
  BY ConnectsAssumption DEF ConnectionTypeOK, Linked, nil
<1>2. TypeOK
  <2>1. built \in Seq(Controllers) /\ closed \subseteq Controllers
    OBVIOUS
  <2>2. MainTypeOK
    <3>1. scheduler \in [Controllers -> {"none", "running", "stopped"}]
      OBVIOUS
    <3>2. cancelled \in BOOLEAN
      BY Zenon
    <3> QED BY <2>1, <3>1, <3>2 DEF MainTypeOK
  <2>3. inProgress \in [Controllers -> BOOLEAN] /\ hasInfo \in BOOLEAN
    BY Zenon
  <2>4. RunsTypeOK
    BY <2>3 DEF RunsTypeOK
  <2>5. Operations \in 0..Operations
    BY LifecycleAssumption
  <2>6. RequestsTypeOK
    BY <2>5 DEF RequestsTypeOK
  <2> QED BY <1>1, <2>2, <2>4, <2>6 DEF TypeOK
<1>3. Exclusive /\ Links /\ Asking
  BY DEF Exclusive, Links, Asking, Inside, nil
<1>4. Closing
  BY DEF Closing
<1>6. Working
  BY LifecycleAssumption DEF Working
<1>5. NoLinkLeftBehind /\ ClosedMeansQuiet /\ OnlyFirstRunReconnects
  BY DEF NoLinkLeftBehind, ClosedMeansQuiet, OnlyFirstRunReconnects
<1> QED BY <1>2, <1>3, <1>4, <1>5, <1>6 DEF Inv

\* Steps that leave the link, the runs and what is closed alone.
LEMMA ElsewhereInv ==
  ASSUME Inv, TypeOK', Closing', Working', UNCHANGED <<connection, pc, closed>>
  PROVE  Inv'
BY DEF Inv, connection, Exclusive, Links, Asking, NoLinkLeftBehind, ClosedMeansQuiet,
       RunsEnded, OnlyFirstRunReconnects

LEMMA SameTypes ==
  ASSUME TypeOK
  PROVE  /\ UNCHANGED connection => ConnectionTypeOK'
         /\ UNCHANGED process => MainTypeOK'
         /\ UNCHANGED collecting => RunsTypeOK'
         /\ UNCHANGED serving => RequestsTypeOK'
<1> USE DEF TypeOK
<1>1. UNCHANGED connection => ConnectionTypeOK'
  BY DEF ConnectionTypeOK, connection
<1>2. UNCHANGED process => MainTypeOK'
  BY DEF MainTypeOK, process
<1>3. UNCHANGED collecting => RunsTypeOK'
  BY DEF RunsTypeOK, collecting
<1>4. UNCHANGED serving => RequestsTypeOK'
  BY DEF RequestsTypeOK, serving
<1> QED BY <1>1, <1>2, <1>3, <1>4

LEMMA SameWork ==
  ASSUME Working, UNCHANGED serving
  PROVE  Working'
BY DEF Working, serving

LEMMA NewPublisherInv ==
  ASSUME Inv, NewPublisher
  PROVE  Inv'
<1> USE DEF Inv, NewPublisher
<1>1. TypeOK'
  BY SameTypes, OrderType DEF TypeOK, MainTypeOK, Closing, Gone
<1>2. Closing'
  BY DEF Closing
<1> QED BY <1>1, <1>2, SameWork, ElsewhereInv DEF collecting

LEMMA BuildInv ==
  ASSUME Inv, Build
  PROVE  Inv'
<1> USE DEF Inv, Build
<1>1. /\ main = "building" /\ main' \in {"building", "listening", "fatal"}
      /\ closed = {} /\ closed' = {}
      /\ UNCHANGED <<connection, pc>>
  BY DEF NextFactory, Closing, collecting
<1>2. Order[index] \in Controllers
  BY OrderType DEF TypeOK, MainTypeOK
<1>3. /\ built' \in Seq(Controllers)
      /\ scheduler' \in [Controllers -> {"none", "running", "stopped"}]
  <2>1. \/ UNCHANGED <<built, scheduler>>
        \/ /\ built' = Append(built, Order[index])
           /\ scheduler' = [scheduler EXCEPT ![Order[index]] = "running"]
    OBVIOUS
  <2>2. /\ built \in Seq(Controllers)
        /\ scheduler \in [Controllers -> {"none", "running", "stopped"}]
    BY DEF TypeOK, MainTypeOK
  <2>3. Append(built, Order[index]) \in Seq(Controllers)
    BY <1>2, <2>2
  <2> QED BY <1>2, <2>1, <2>2, <2>3
<1>4. index' \in Nat \ {0} /\ (main' = "building" => index' <= Len(Order))
  BY OrderType DEF TypeOK, MainTypeOK, NextFactory
<1>5. main' = "listening" => index' = 1
  BY <1>1 DEF NextFactory
<1>6. TypeOK'
  BY <1>1, <1>3, <1>4, SameTypes DEF TypeOK, MainTypeOK, Gone
<1>7. Closing'
  BY <1>1, <1>5 DEF Closing
<1> QED BY <1>1, <1>6, <1>7, SameWork, ElsewhereInv

LEMMA MainElsewhereInv ==
  ASSUME Inv, Listen \/ RunReturns \/ ClosePublisher \/ StopScheduler \/ Exit
  PROVE  Inv'
<1> USE DEF Inv
<1>1. CASE Listen \/ RunReturns \/ ClosePublisher
  <2>1. TypeOK'
    BY <1>1, SameTypes DEF Listen, RunReturns, ClosePublisher, TypeOK, MainTypeOK, Gone
  <2>2. Closing'
    BY <1>1 DEF Listen, RunReturns, ClosePublisher, Closing
  <2> QED
    BY <1>1, <2>1, <2>2, SameWork, ElsewhereInv DEF Listen, RunReturns, ClosePublisher, collecting
<1>2. CASE StopScheduler
  <2> USE <1>2 DEF StopScheduler
  <2>1. built[index] \in Controllers
    BY DEF TypeOK, MainTypeOK
  <2>2. TypeOK'
    BY SameTypes, <2>1 DEF TypeOK, MainTypeOK
  <2>3. scheduler'[built'[index']] = "stopped"
    BY <2>1 DEF TypeOK, MainTypeOK
  <2>4. \A c \in closed : scheduler'[c] = "stopped"
    BY <2>1 DEF TypeOK, MainTypeOK, Closing
  <2>5. Closing'
    BY <2>3, <2>4 DEF Closing
  <2> QED BY <2>2, <2>5, SameWork, ElsewhereInv DEF collecting
<1>3. CASE Exit
  <2>1. TypeOK'
    BY <1>3, SameTypes DEF Exit, TypeOK, MainTypeOK, Gone
  <2>2. Closing'
    BY <1>3 DEF Exit, Closing
  <2> QED BY <1>3, <2>1, <2>2, SameWork, ElsewhereInv DEF Exit, collecting
<1> QED BY <1>1, <1>2, <1>3

LEMMA SignalInv ==
  ASSUME Inv, Signal \/ Shutdown \/ Drained
  PROVE  Inv'
<1> USE DEF Inv, Signal, Shutdown, Drained
<1>1. TypeOK'
  BY SameTypes DEF TypeOK, MainTypeOK, Gone
<1>2. Closing'
  BY DEF Closing
<1> QED BY <1>1, <1>2, SameWork, ElsewhereInv DEF collecting

LEMMA RequestInv ==
  ASSUME Inv, NEW r \in Requests, Arrive(r) \/ Operate(r)
  PROVE  Inv'
<1> USE DEF Inv
<1>1. RequestsTypeOK'
  <2>1. CASE Arrive(r)
    BY <2>1 DEF Arrive, TypeOK, RequestsTypeOK
  <2>2. CASE Operate(r)
    <3>1. left[r] \in 0..Operations /\ Operations \in Nat
      BY LifecycleAssumption DEF TypeOK, RequestsTypeOK
    <3>2. request[r] = "handling" => left[r] > 0
      BY DEF Working
    <3> QED BY <2>2, <3>1, <3>2 DEF Operate, TypeOK, RequestsTypeOK
  <2> QED BY <2>1, <2>2
<1>2. TypeOK'
  BY <1>1, SameTypes DEF TypeOK, Arrive, Operate
<1>3. Working'
  BY DEF Working, Arrive, Operate, TypeOK, RequestsTypeOK
<1>4. UNCHANGED <<process, collecting, connection>>
  BY DEF Arrive, Operate
<1>5. Closing'
  BY <1>4 DEF Closing, process
<1> QED BY <1>2, <1>3, <1>4, <1>5, ElsewhereInv DEF collecting, process

LEMMA CloseControllerInv ==
  ASSUME Inv, CloseController
  PROVE  Inv'
<1> USE DEF Inv, CloseController
<1> DEFINE c == built[index]
<1>1. c \in Controllers /\ closed' = closed \cup {c} /\ RunsEnded(c)
  BY DEF TypeOK, MainTypeOK, CloseClient
<1>2. UNCHANGED <<mu, at, openedBy, broken, pc>>
  BY DEF CloseClient, CloseCollector, connection, collecting
<1>3. \/ c # voltgo /\ UNCHANGED <<battery, links, undropped>>
      \/ /\ c = voltgo /\ battery' = nil /\ links' \subseteq links
         /\ links' \subseteq undropped' /\ undropped' \subseteq Linked
  BY Dropped DEF CloseClient, CloseCollector, connection
<1>4. \A g \in Collections : at[g] = "reading" => UNCHANGED battery
  <2> SUFFICES ASSUME NEW g \in Collections, at[g] = "reading", c = voltgo PROVE FALSE
    BY <1>3
  <2>1. mu = {}
    BY DEF CloseClient, CloseCollector
  <2> QED BY <2>1 DEF Exclusive, Inside
<1>5. ConnectionTypeOK'
  BY <1>2, <1>3 DEF TypeOK, ConnectionTypeOK
<1>6. TypeOK'
  BY <1>1, <1>5, SameTypes DEF TypeOK, MainTypeOK
<1>7. Exclusive' /\ Asking'
  BY <1>2 DEF Exclusive, Asking
<1>8. Links'
  BY <1>2, <1>3, <1>4 DEF Links, nil, TypeOK, ConnectionTypeOK
<1>9. Closing'
  <2>1. \A i \in 1..Len(built) : i < index' => built[i] \in closed'
    BY <1>1 DEF Closing, TypeOK, MainTypeOK
  <2> QED BY <1>1, <2>1 DEF Closing, TypeOK, MainTypeOK
<1>10. NoLinkLeftBehind' /\ ClosedMeansQuiet'
  BY <1>1, <1>2, <1>3 DEF NoLinkLeftBehind, ClosedMeansQuiet, RunsEnded
<1>11. OnlyFirstRunReconnects'
  BY <1>1, <1>2, <1>3 DEF OnlyFirstRunReconnects
<1> QED BY <1>6, <1>7, <1>8, <1>9, <1>10, <1>11, SameWork

-----------------------------------------------------------------------------
\* Steps of a run leave the process alone and change where the run is.
LEMMA RunInv ==
  ASSUME Inv, UNCHANGED <<process, serving>>,
         NEW g \in Runs, NEW place \in Busy \cup {"done"}, Goto(g, place),
         place \in Busy => g[1] \notin closed \/ g[2] = 0 \/ pc[g] \in Busy,
         inProgress' \in [Controllers -> BOOLEAN], hasInfo' \in BOOLEAN,
         ConnectionTypeOK', Exclusive', Links', Asking', 
         UNCHANGED <<links, battery, openedBy, undropped>>
  PROVE  Inv'
<1> USE DEF Inv
<1>1. TypeOK'
  BY SameTypes DEF TypeOK, RunsTypeOK, Goto
<1>2. Closing'
  BY DEF Closing, process
<1>3. ClosedMeansQuiet'
  <2> SUFFICES ASSUME NEW c \in closed, NEW h \in Runs, h[1] = c, h[2] > 0, pc'[h] \in Busy
               PROVE  FALSE
    BY DEF ClosedMeansQuiet, RunsEnded, process
  <2>1. CASE h = g
    BY <2>1 DEF ClosedMeansQuiet, RunsEnded, Goto, TypeOK, RunsTypeOK, Runs
  <2>2. CASE h # g
    BY <2>2 DEF ClosedMeansQuiet, RunsEnded, Goto, TypeOK, RunsTypeOK
  <2> QED BY <2>1, <2>2
<1>4. NoLinkLeftBehind' /\ OnlyFirstRunReconnects'
  BY DEF NoLinkLeftBehind, OnlyFirstRunReconnects, process
<1> QED BY <1>1, <1>2, <1>3, <1>4, SameWork

\* A run that is at a place of its own in GetStatus or GetInfo.
LEMMA ReachFacts ==
  ASSUME Inv, NEW g \in Collections, NEW place, Reach(g, place)
  PROVE  /\ at'[g] = place
         /\ \A h \in Collections : h # g => at'[h] = at[h]
BY DEF Inv, TypeOK, ConnectionTypeOK, Reach

LEMMA GotoFacts ==
  ASSUME Inv, NEW g \in Runs, NEW place, Goto(g, place)
  PROVE  pc'[g] = place /\ \A h \in Runs : h # g => pc'[h] = pc[h]
BY DEF Inv, TypeOK, RunsTypeOK, Goto

LEMMA SameConnection ==
  ASSUME Inv, UNCHANGED connection
  PROVE  Exclusive' /\ Links' /\ ConnectionTypeOK'
<1>1. ConnectionTypeOK'
  BY SameTypes DEF Inv
<1>2. Exclusive'
  BY DEF Inv, Exclusive, connection
<1>3. Links'
  BY DEF Inv, Links, connection
<1> QED BY <1>1, <1>2, <1>3

LEMMA StartInv ==
  ASSUME Inv, NEW g \in Runs, Start(g)
  PROVE  Inv'
<1> USE DEF Inv, Start
<1>0. g[1] \in Controllers /\ g[2] \in Nat
  BY DEF Runs
<1>1. g[1] \notin closed \/ g[2] = 0
  BY <1>0 DEF Closing
<1>2. CASE inProgress[g[1]]
  <2>1. Exclusive' /\ Links' /\ ConnectionTypeOK'
    BY <1>2, SameConnection
  <2>2. Asking'
    BY <1>2, OrderType DEF Goto, Asking, connection, TypeOK, RunsTypeOK
  <2>3. UNCHANGED <<links, battery, openedBy, undropped>>
    BY <1>2 DEF connection
  <2> QED BY <1>1, <1>2, <2>1, <2>2, <2>3, RunInv DEF TypeOK, RunsTypeOK, Busy
<1>3. CASE ~inProgress[g[1]] /\ g[1] # voltgo
  <2> USE <1>3
  <2>1. Exclusive' /\ Links' /\ ConnectionTypeOK'
    BY SameConnection
  <2>2. Asking'
    BY OrderType DEF Goto, Asking, connection, TypeOK, RunsTypeOK
  <2>3. UNCHANGED <<links, battery, openedBy, undropped>>
    BY DEF connection
  <2>4. inProgress' \in [Controllers -> BOOLEAN]
    BY DEF TypeOK, RunsTypeOK
  <2> QED BY <1>1, <2>1, <2>2, <2>3, <2>4, RunInv DEF TypeOK, RunsTypeOK, Busy
<1>4. CASE ~inProgress[g[1]] /\ g[1] = voltgo
  <2> USE <1>4
  <2>1. g \in Collections /\ Ask(g)
    BY OrderType
  <2>2. UNCHANGED <<mu, battery, links, openedBy, broken, undropped>>
    BY <2>1 DEF Ask
  <2>3. at' = [at EXCEPT ![g] = "locking"] /\ Reach(g, "locking")
    BY <2>1 DEF Ask, Reach
  <2>4. ConnectionTypeOK'
    BY <2>2, <2>3 DEF TypeOK, ConnectionTypeOK
  <2>5. at[g] = "outside"
    BY <2>1 DEF Asking
  <2>6. Exclusive' /\ Links'
    BY <2>1, <2>2, <2>3, <2>5, ReachFacts DEF Exclusive, Links, Inside
  <2>7. Asking'
    BY <2>1, <2>3, ReachFacts, OrderType, GotoFacts DEF Asking
  <2>8. inProgress' \in [Controllers -> BOOLEAN]
    BY DEF TypeOK, RunsTypeOK
  <2> QED BY <1>1, <2>2, <2>4, <2>6, <2>7, <2>8, RunInv DEF TypeOK, RunsTypeOK, Busy
<1> QED BY <1>2, <1>3, <1>4

-----------------------------------------------------------------------------
\* A step inside GetStatus or GetInfo that keeps what is known of the link.
LEMMA CollectorInv ==
  ASSUME Inv, UNCHANGED <<process, collecting, serving>>,
         NEW g \in Collections, NEW place, Reach(g, place), at[g] # "outside",
         ConnectionTypeOK', Exclusive', Links', NoLinkLeftBehind', OnlyFirstRunReconnects'
  PROVE  Inv'
<1> USE DEF Inv
<1>1. TypeOK'
  BY SameTypes DEF TypeOK
<1>2. Asking'
  BY ReachFacts DEF Asking, collecting
<1>3. Closing' /\ ClosedMeansQuiet'
  BY DEF Closing, ClosedMeansQuiet, RunsEnded, process, collecting
<1> QED BY <1>1, <1>2, <1>3, SameWork

\* The run leaves the critical section, and the link is kept or dropped.
LEMMA LeaveInv ==
  ASSUME Inv, UNCHANGED <<process, collecting, serving, openedBy>>,
         NEW g \in Collections, NEW place \in {"ok", "failed"}, Reach(g, place),
         at[g] \in Inside, mu' = {},
         \/ UNCHANGED <<battery, links, broken, undropped>>
         \/ dropConnectionLocked /\ broken' \subseteq 1..Len(openedBy)
  PROVE  Inv'
<1> USE DEF Inv
<1>1. mu = {g} /\ \A h \in Collections : h # g => at[h] \notin Inside
  BY DEF Exclusive, TypeOK, ConnectionTypeOK
<1>2. ConnectionTypeOK'
  <2>1. 1..Len(openedBy) \subseteq Linked
    BY ConnectsAssumption DEF TypeOK, ConnectionTypeOK, Linked
  <2>2. /\ battery' \in Linked \cup {nil} /\ links' \subseteq Linked
        /\ broken' \subseteq Linked /\ undropped' \subseteq Linked
    BY <2>1, Dropped DEF TypeOK, ConnectionTypeOK
  <2> QED BY <2>2 DEF TypeOK, ConnectionTypeOK, Reach
<1>3. Exclusive'
  BY <1>1, ReachFacts DEF Exclusive, Inside
<1>4. \A h \in Collections : at'[h] # "reading"
  BY <1>1, ReachFacts DEF Inside
<1>5. Links'
  <2>1. CASE UNCHANGED <<battery, links, broken, undropped>>
    BY <1>4, <2>1 DEF Links
  <2>2. CASE dropConnectionLocked /\ broken' \subseteq 1..Len(openedBy)
    <3>1. nil \notin 1..Len(openedBy) /\ nil \in 0..Len(openedBy)
      BY DEF nil, TypeOK, ConnectionTypeOK
    <3> QED BY <1>4, <2>2, <3>1, Dropped DEF Links
  <2> QED BY <2>1, <2>2
<1>6. NoLinkLeftBehind' /\ links' \subseteq links /\ undropped \subseteq undropped'
  BY Dropped DEF NoLinkLeftBehind
<1>7. OnlyFirstRunReconnects'
  BY <1>6 DEF OnlyFirstRunReconnects, process
<1> QED BY <1>2, <1>3, <1>5, <1>6, <1>7, CollectorInv DEF Inside

LEMMA LockMuInv ==
  ASSUME Inv, UNCHANGED <<process, collecting, serving>>, NEW g \in Collections, LockMu(g)
  PROVE  Inv'
<1> USE DEF Inv, LockMu
<1>1. ConnectionTypeOK'
  BY DEF TypeOK, ConnectionTypeOK, Reach, Inside
<1>2. Exclusive'
  BY ReachFacts DEF Exclusive, Inside
<1>3. Links'
  BY ReachFacts DEF Links
<1>4. NoLinkLeftBehind' /\ OnlyFirstRunReconnects'
  BY DEF NoLinkLeftBehind, OnlyFirstRunReconnects, process
<1> QED BY <1>1, <1>2, <1>3, <1>4, CollectorInv

LEMMA ReuseInv ==
  ASSUME Inv, UNCHANGED <<process, collecting, serving>>, NEW g \in Collections, Reuse(g)
  PROVE  Inv'
<1> USE DEF Inv, Reuse
<1>1. ConnectionTypeOK'
  BY DEF TypeOK, ConnectionTypeOK, Reach, Inside
<1>2. Exclusive'
  BY ReachFacts DEF Exclusive, Inside
<1>3. Links'
  BY ReachFacts DEF Links
<1>4. NoLinkLeftBehind' /\ OnlyFirstRunReconnects'
  BY DEF NoLinkLeftBehind, OnlyFirstRunReconnects, process
<1> QED BY <1>1, <1>2, <1>3, <1>4, CollectorInv

\* A new link has a number of its own and replaces one that is gone.  Once
\* the collector is closed, only the first run can be the one that made it, and
\* whatever else is up could not be disconnected.
LEMMA ConnectedInv ==
  ASSUME Inv, UNCHANGED <<process, collecting, serving, mu, broken>>, NEW g \in Collections,
         at[g] = "connecting", battery \notin links, Connected(g)
  PROVE  Inv'
<1> USE DEF Inv, Connected
<1>1. PICK n \in Nat : n = Len(openedBy)
  BY DEF TypeOK, ConnectionTypeOK
<1>2. /\ n < MaxConnects /\ openedBy' = Append(openedBy, g) /\ battery' = n + 1
      /\ openedBy \in Seq(Collections) /\ Len(openedBy') = n + 1
      /\ openedBy' \in Seq(Collections)
  BY <1>1 DEF TypeOK, ConnectionTypeOK
<1>3. links \subseteq undropped /\ links' = links \cup {n + 1} /\ UNCHANGED undropped
  BY <1>1 DEF NoLinkLeftBehind
<1>4. ConnectionTypeOK'
  <2>1. n + 1 \in Linked
    BY <1>2, ConnectsAssumption DEF Linked
  <2>2. Len(openedBy') <= MaxConnects
    BY <1>2, ConnectsAssumption
  <2>3. at' \in [Collections -> Inside \cup {"outside", "locking", "ok", "failed"}]
    BY DEF TypeOK, ConnectionTypeOK, Reach, Inside
  <2> QED BY <1>2, <1>3, <2>1, <2>2, <2>3 DEF TypeOK, ConnectionTypeOK
<1>5. Exclusive'
  BY ReachFacts DEF Exclusive, Inside
<1>6. Links'
  BY <1>1, <1>2, <1>3 DEF Links, nil
<1>7. NoLinkLeftBehind'
  BY <1>2, <1>3 DEF NoLinkLeftBehind
<1>8. OnlyFirstRunReconnects'
  <2> SUFFICES ASSUME voltgo \in closed PROVE openedBy'[n + 1] = <<voltgo, 0>>
    BY <1>3 DEF OnlyFirstRunReconnects, process
  <2>1. openedBy'[n + 1] = g
    BY <1>1, <1>2
  <2>2. pc[g] \in Busy /\ g \in Runs /\ g[1] = voltgo
    BY OrderType DEF Asking, Busy
  <2>3. ~(g[2] > 0)
    BY <2>2 DEF ClosedMeansQuiet, RunsEnded
  <2> QED BY <2>1, <2>2, <2>3 DEF Runs
<1> QED BY <1>4, <1>5, <1>6, <1>7, <1>8, CollectorInv

LEMMA CollectVoltgoInv ==
  ASSUME Inv, NEW g \in Runs, CollectVoltgo(g)
  PROVE  Inv'
<1>1. g \in Collections /\ UNCHANGED <<process, collecting, serving>>
  BY DEF CollectVoltgo
<1>2. CASE LockMu(g)
  BY <1>1, <1>2, LockMuInv
<1>3. CASE Reuse(g)
  BY <1>1, <1>3, ReuseInv
<1>4. CASE Connect(g)
  <2>1. CASE Connected(g) /\ UNCHANGED mu
    BY <1>1, <1>4, <2>1, ConnectedInv DEF Connect
  <2>2. CASE Reach(g, "failed") /\ mu' = {} /\ dropConnectionLocked /\ UNCHANGED openedBy
    <3>1. broken' = broken /\ broken \subseteq 1..Len(openedBy) /\ at[g] \in Inside
      BY <1>4 DEF Connect, Inv, Links, Inside
    <3> QED BY <1>1, <2>2, <3>1, LeaveInv
  <2> QED BY <1>4, <2>1, <2>2 DEF Connect
<1>5. CASE ReadOK(g)
  BY <1>1, <1>5, LeaveInv DEF ReadOK, Inside
<1>6. CASE ReadError(g)
  <2>1. at[g] \in Inside /\ broken' = broken \cup {battery} /\ battery \in 1..Len(openedBy)
    BY <1>1, <1>6 DEF ReadError, Inside, Inv, Links, nil, TypeOK, ConnectionTypeOK
  <2>2. broken' \subseteq 1..Len(openedBy)
    BY <2>1 DEF Inv, Links
  <2> QED BY <1>1, <1>6, <2>1, <2>2, LeaveInv DEF ReadError
<1> QED BY <1>2, <1>3, <1>4, <1>5, <1>6 DEF CollectVoltgo, CollectorStep

-----------------------------------------------------------------------------
LEMMA CollectEpeverInv ==
  ASSUME Inv, NEW g \in Runs, CollectEpever(g)
  PROVE  Inv'
<1> USE DEF Inv, CollectEpever
<1>1. pc[g] \in Busy /\ "publishing" \in Busy
  BY DEF Busy
<1>2. Asking'
  <2>1. g \notin Collections
    BY OrderType, LifecycleAssumption
  <2> QED BY <2>1, GotoFacts, OrderType DEF Asking, connection
<1>3. Exclusive' /\ Links' /\ ConnectionTypeOK' /\ UNCHANGED <<links, battery, openedBy, undropped>>
  BY SameConnection DEF connection
<1>4. inProgress' \in [Controllers -> BOOLEAN] /\ hasInfo' \in BOOLEAN
  BY DEF TypeOK, RunsTypeOK
<1> QED BY <1>1, <1>2, <1>3, <1>4, RunInv

LEMMA FinishInv ==
  ASSUME Inv, NEW g \in Runs, Finish(g)
  PROVE  Inv'
<1> USE DEF Inv, Finish
<1>1. Goto(g, "done") /\ "done" \notin Busy
  BY DEF Busy
<1>2. Asking'
  BY GotoFacts, OrderType DEF Asking, connection
<1>3. Exclusive' /\ Links' /\ ConnectionTypeOK' /\ UNCHANGED <<links, battery, openedBy, undropped>>
  BY SameConnection DEF connection
<1>4. inProgress' \in [Controllers -> BOOLEAN] /\ hasInfo' \in BOOLEAN
  BY DEF TypeOK, RunsTypeOK
<1> QED BY <1>1, <1>2, <1>3, <1>4, RunInv

\* A run that returned from GetStatus or GetInfo goes on.
LEMMA ReturnedInv ==
  ASSUME Inv, UNCHANGED <<process, serving, inProgress>>,
         UNCHANGED <<mu, battery, links, openedBy, broken, undropped>>, hasInfo' \in BOOLEAN,
         NEW g \in Collections, pc[g] \in {"reading", "info"}, at[g] \in {"ok", "failed"},
         NEW place, NEW where, Goto(g, place), Reach(g, where),
         \/ place = "info" /\ where = "locking"
         \/ place = "publishing" /\ where = "outside"
  PROVE  Inv'
<1> USE DEF Inv
<1>1. place \in Busy /\ g \in Runs
  BY OrderType DEF Busy
<1>2. pc[g] \in Busy
  BY DEF Busy
<1>3. ConnectionTypeOK'
  BY DEF TypeOK, ConnectionTypeOK, Reach
<1>4. Exclusive'
  BY ReachFacts DEF Exclusive, Inside
<1>5. Links'
  BY ReachFacts DEF Links
<1>6. Asking'
  BY <1>1, ReachFacts, GotoFacts, OrderType DEF Asking
<1>7. inProgress' \in [Controllers -> BOOLEAN]
  BY DEF TypeOK, RunsTypeOK
<1> QED BY <1>1, <1>2, <1>3, <1>4, <1>5, <1>6, <1>7, RunInv

LEMMA GotStatusInv ==
  ASSUME Inv, NEW g \in Runs, GotStatus(g)
  PROVE  Inv'
<1> USE DEF Inv, GotStatus
<1>1. g \in Collections
  OBVIOUS
<1>2. hasInfo' \in BOOLEAN
  BY DEF TypeOK, RunsTypeOK
<1>3. CASE at[g] = "ok" /\ ~hasInfo
  BY <1>1, <1>2, <1>3, ReturnedInv DEF Ask
<1>4. CASE ~(at[g] = "ok" /\ ~hasInfo)
  BY <1>1, <1>2, <1>4, ReturnedInv
<1> QED BY <1>3, <1>4

LEMMA GotInfoInv ==
  ASSUME Inv, NEW g \in Runs, GotInfo(g)
  PROVE  Inv'
<1>1. hasInfo' \in BOOLEAN
  BY Zenon DEF GotInfo
<1> QED BY <1>1, ReturnedInv DEF GotInfo

LEMMA LinkLostInv ==
  ASSUME Inv, LinkLost
  PROVE  Inv'
<1> USE DEF Inv, LinkLost, Lose
<1>1. links' \subseteq links
  OBVIOUS
<1>2. ConnectionTypeOK'
  BY <1>1 DEF TypeOK, ConnectionTypeOK
<1>3. TypeOK'
  BY <1>2, SameTypes DEF TypeOK
<1>4. Exclusive' /\ Asking'
  BY DEF Exclusive, Asking, collecting
<1>5. Links'
  BY <1>1 DEF Links
<1>6. Closing' /\ ClosedMeansQuiet'
  BY DEF Closing, ClosedMeansQuiet, RunsEnded, process, collecting
<1>7. NoLinkLeftBehind' /\ OnlyFirstRunReconnects'
  BY <1>1 DEF NoLinkLeftBehind, OnlyFirstRunReconnects, process
<1> QED BY <1>3, <1>4, <1>5, <1>6, <1>7, SameWork

-----------------------------------------------------------------------------
LEMMA StepInv == Inv /\ [Next]_vars => Inv'
<1> SUFFICES ASSUME Inv, [Next]_vars PROVE Inv'
  OBVIOUS
<1>1. CASE Main
  BY <1>1, NewPublisherInv, BuildInv, MainElsewhereInv, CloseControllerInv DEF Main
<1>2. CASE Signal \/ Shutdown \/ Drained
  BY <1>2, SignalInv
<1>3. ASSUME NEW r \in Requests, Arrive(r) \/ Operate(r) PROVE Inv'
  BY <1>3, RequestInv
<1>4. ASSUME NEW g \in Runs, Start(g) PROVE Inv'
  BY <1>4, StartInv
<1>5. ASSUME NEW g \in Runs, Collect(g) PROVE Inv'
  BY <1>5, CollectEpeverInv, CollectVoltgoInv, GotStatusInv, GotInfoInv, FinishInv DEF Collect
<1>6. CASE LinkLost
  BY <1>6, LinkLostInv
<1>7. CASE UNCHANGED vars
  BY <1>7, ElsewhereInv, SameTypes, SameWork DEF vars, process, Inv, TypeOK, Closing, collecting
<1> QED BY <1>1, <1>2, <1>3, <1>4, <1>5, <1>6, <1>7 DEF Next

LEMMA SpecInv == Spec => []Inv
BY InitInv, StepInv, PTL DEF Spec

\* The state of the process, its runs, its requests and its link keeps its
\* type; a request never makes more operations than its handler does.
THEOREM TypesHold == Spec => []TypeOK
<1>1. Inv => TypeOK
  BY DEF Inv
<1> QED BY SpecInv, <1>1, PTL

\* Once a controller's client is closed no run of its scheduler reads from it
\* or publishes (epever.go:257, voltgo.go:301).
THEOREM ClosedQuiet == Spec => []ClosedMeansQuiet
<1>1. Inv => ClosedMeansQuiet
  BY DEF Inv
<1> QED BY SpecInv, <1>1, PTL

\* A link that is up is the one the collector knows of, or its Disconnect was
\* called and failed (voltgo/collector.go:159-169).
THEOREM LinksAccounted == Spec => []NoLinkLeftBehind
<1>1. Inv => NoLinkLeftBehind
  BY DEF Inv
<1> QED BY SpecInv, <1>1, PTL

\* No link is read from after a read failed on it (voltgo/collector.go:12).
THEOREM BrokenDropped == Spec => []BrokenLinksDropped
<1>1. Inv => BrokenLinksDropped
  BY DEF Inv, Links, BrokenLinksDropped
<1> QED BY SpecInv, <1>1, PTL

\* After Close only the goroutine of NewController can have made a link that is
\* up, but for one whose Disconnect failed (voltgo/collector.go:126,
\* voltgo.go:301).
THEOREM OnlyFirst == Spec => []OnlyFirstRunReconnects
<1>1. Inv => OnlyFirstRunReconnects
  BY DEF Inv
<1> QED BY SpecInv, <1>1, PTL

\* When run returns every controller that was built is closed with its
\* scheduler stopped, and so is the publisher (app.go:237).
THEOREM AllClosed == Spec => []EverythingClosed
<1>1. Inv => EverythingClosed
  <2> SUFFICES ASSUME Inv, main = "exited" PROVE
        /\ publisher = "closed"
        /\ \A i \in DOMAIN built : built[i] \in closed /\ scheduler[built[i]] = "stopped"
    BY DEF EverythingClosed
  <2> USE DEF Inv, Closing
  <2>1. publisher = "closed" /\ index > Len(built)
    OBVIOUS
  <2>2. \A i \in DOMAIN built : i \in 1..Len(built) /\ i < index
    BY <2>1 DEF TypeOK, MainTypeOK
  <2> QED BY <2>1, <2>2
<1> QED BY SpecInv, <1>1, PTL
=============================================================================
