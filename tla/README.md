# A verification project for solar-controller

TLA+ models of the parts of solar-controller in which several goroutines share
state, the TLC runs that check them, and theorems that TLAPS proves about them.
Paths below are relative to the root of the repository; `epever/` stands for
`internal/controllers/epever/`, `voltgo/` for `internal/controllers/voltgo/`.

## The system

solar-controller reads a solar charge controller (Epever, over a serial Modbus
line) and a battery (Voltgo, over Bluetooth), publishes what it reads to
message brokers, and serves an HTTP API through which the settings of the
Epever can be read and changed.

| part | state | operations | what must hold |
|---|---|---|---|
| configuration API (`epever/configurer*.go`) | a cached configuration and its age; the holding registers of the device | GET and PATCH of profile, charging parameters, time and the legacy config | thresholds on the device stay in order; a rejected request changes nothing; a 200 means written; answers and cache show the device |
| voltage rules (`epever/configurer.go:553-618`, `:351-384`) | none | validation, conversion between volts and registers | order survives the conversion; a rewrite drifts by little |
| collection cycles (`epever/epever.go`, `voltgo/voltgo.go`) | last status, static battery info, the flag `collectInProgress` | a run of `collectAndPublish` per tick, and one at start | one cycle at a time; the status never goes back; a cycle always ends |
| remote write publisher (`internal/publishers/remotewrite`) | the batch, the time of the last request | Publish, Close | nothing sent twice; samples in order; the batch stays bounded |
| Modbus client (`epever/client.go`) | the lock, the port | register operations with a retry | operations exclude each other; a retried write is harmless |
| status collector (`epever/collector.go`, `epever/parser`) | what it has read of a status | four reads, parsing | a status is what the device measured during the cycle |
| Voltgo connection (`voltgo/collector.go`) | the connected battery, a mutex | connect, read, drop, close | one link in use, never one that failed; no link is left up without an attempt to disconnect it |
| fan-out and other publishers (`internal/publishers`) | messages in client libraries, goroutines that wait for them | Publish, Close | a slow, failing or dead publisher stops neither the others nor the collection |
| application and process (`internal/app`, `cmd/controller`) | the server, controllers, schedulers, publisher | start, run, drain, close | everything is closed, no scheduled run works on a closed client, a signal ends the process |
| Prometheus metrics, config file, web site | none that matters here | | |

How they interact: HTTP handlers run in goroutines of their own and call the
Modbus client, as does the collection cycle; the client's lock is held for one
register operation at a time. Handlers share the cache behind a lock that is
held for one pointer access. Both controllers' cycles call the publishers
synchronously. At shutdown one goroutine drains the server while `main` closes
the publisher and then the controllers, whose schedulers wait for their running
jobs.

What is hard here: handlers that read a configuration, check it and write it
back in separate register operations; a cache that is invalidated and refilled
by different handlers; register operations that fail half-way through a
request, or succeed without saying so; float32 voltages on one side and integer
registers on the other; collections that overlap; a batch that is looked at only
when something arrives; values that change between two reads of them; a link
that is kept, lost and replaced; messages that overtake one that was given up;
the order of shutdown. `PROJECT.json` lists each such
hazard with its line and the properties that cover it.

## Modules

| module | models | |
|---|---|---|
| `VoltageRules` | the twelve thresholds, their bounds and order, and the conversion of a block, for any conversion that keeps order | |
| `Float32Volts` | that conversion as float32 arithmetic computes it, in units of 2^-21 V | |
| `VoltageRewrite` | a register read and written back again and again | run `rewrite` |
| `VoltageRewrite_proof` | theorems about the float32 conversion | |
| `SettingsStore` | what a client that sends one request at a time may take the API for | |
| `Configurer` | the handlers, the cache and the device | extends `VoltageRules`, instantiates `SettingsStore` |
| `ConfigurerMC` | requests, registers and conversions for TLC | instantiates `Float32Volts` |
| `Configurer_proof` | theorems about `Configurer`, whatever runs at the same time | |
| `LoneClient_proof` | theorems about `Configurer` when requests come one at a time | extends `Configurer_proof` |
| `RegisterBus` | what users of the Modbus client rely on | |
| `ModbusClient` | the lock, attempts, delays and contexts of a register operation | instantiates `RegisterBus` |
| `ModbusClientMC` | operations for TLC | |
| `ModbusClient_proof` | the client implements the bus | |
| `RemoteWrite` | the batching publisher | |
| `Telemetry` | the collection cycles of both controllers, publishing to it | extends `RemoteWrite` |
| `TelemetryMC` | sizes for TLC | |
| `Telemetry_proof` | theorems about `Telemetry` | |
| `StatusCollector` | `GetStatus` of the Epever and its parser, on a device that changes | |
| `StatusCollectorMC` | values around every edge, for TLC | |
| `StatusCollector_proof` | theorems about `StatusCollector` | |
| `VoltgoConnection` | the Voltgo collector and its link | |
| `Lifecycle` | the process from start to exit, both controllers' `Close` | extends `VoltgoConnection` |
| `LifecycleMC` | both controllers, for TLC | |
| `Lifecycle_proof` | theorems about `Lifecycle` and `VoltgoConnection` | |
| `FanOut` | several publishers under two collections | |
| `FanOutMC` | numbers of messages for TLC | |
| `FanOut_proof` | theorems about `FanOut` | |

Definitions preceded by "Mutant:" are not part of the models: each is a
definition as a plausible bug would have it, and replaces its original to see
that a property notices.

### Configurer

A request is a record of its handler, whether its JSON binds, and the fields it
has. A handler's place in its code is `pc[r]`; its locals are `config` (the
configuration it has read), `proposal` (what it validated) and `todo` (the
writes and invalidations ahead, made in the order of `Rank`, which is the order
of the code). One step is one register operation or one access to the cache,
with the local computation around it:

| action | code |
|---|---|
| `CachedGet`, `ConfigGet`, `TimeGet`, `ChargingPatch`, `ProfilePatch`, `ConfigPatch`, `TimePatch` | the handlers up to their first operation, including the checks they make before it |
| `Lookup`, `Fill`, `Store` | `getCachedConfig`: the hit, the six operations of `getConfig`, the store |
| `ReadType`, `Validate` | the check of the battery type and of the proposed block |
| `WriteSingle`, `StartBlock`, `WriteBlock` | `writeSingle`; `writeVoltageParametersBlock` with the configuration it reads first |
| `Invalidate`, `Expire` | `invalidateCache`; the TTL |
| `ReadBack`, `ReadClock`, `Reply` | the answer |

A register operation fails at most `MaxFaults` times in a behaviour; a failed
write may have reached the device or not. The retry inside the client is part of
the operation. `wrote` and `answer` are history: which writes reached the
device, and what the client was told.

Statuses are folded into `ok`, `rejected` (400 before any write) and `failed`.
Left out: the conversion of the temperature coefficient, the ticking of the
clock (a time is its year, which is what the range check looks at), the two
fields of the temperature limits (one register, never written), Prometheus
counters, the wording of errors, and the 0 that `getFloatValue` would make of an
answer with too few bytes (`epever/configurer.go:142-144`), which the Modbus
library refuses first. An HTTP client that goes away cancels the
request's context, which makes the next operation fail: that is a fault.

`SettingsStore` is the abstract specification of these handlers: a store of
settings that, when the turn of a request comes, either changes as a whole
(`Accept`) or refuses the request and stays (`Refuse`), and then answers with
what it holds (`Reply`). It leaves open which requests are admissible, what they
change and what an answer shows; `Configurer` says that with `Admissible`,
`Updated` and `View`, which know nothing of registers read, writes ahead or a
cache. The refinement mapping is `INSTANCE SettingsStore WITH store <- settled,
body <- judged`: a request is accepted or refused at its handler's last check
(`ReadType`, `Validate`, or its arrival when nothing has to be read first), and
what the handler has still to write, `todo`, counts as written in `settled`.

### RegisterBus and ModbusClient

`RegisterBus` is the abstract specification, the contract of `epever/interfaces.go` as its users take it: an
operation takes effect once, at one moment between call and return; a read
returns what the registers held at that moment; an operation that fails may
have taken effect or not. One step of `Configurer` on the device is such an
operation.

`ModbusClient` is what `epever/client.go` does: `Lock`; at each attempt `Send`
(the frame reaches the device or not), then `Receive` or `Fault`; after a fault
`Retry` once the delay is over, or the end; `GiveUp` when the context has ended
before an attempt or during the delay, whether that is the caller's or the five
seconds of a read; `Unlock`. The seven operations differ only in their frame and
in having those five seconds. `executed` is history: it tells when a write took
effect, which is when the device first executes it. A read takes effect when its
answer arrives. The refinement mapping is `INSTANCE RegisterBus WITH phase <-
busPhase`, where `busPhase` forgets everything of a caller's place but whether
its operation has begun, taken effect or returned.

Assumed of the device: only writes change its registers (its clock runs, but no
one compares two readings of it), a write of several registers is executed as
one, and an attempt that has timed out is not executed later. Assumed of the
libraries: an attempt ends, by an answer, an error or its timeout, and the retry
library makes the next attempt after the delay or returns when the context has
ended. Its answer to a context that has ended before the first attempt is left
open.

### RemoteWrite and Telemetry

`Publish` holds the publisher's lock through the HTTP request, so it is one
step, taken when the request ends: nothing else can have looked at the buffer
meanwhile. A request is a set of time series. Each sample's key lists its
labels in one of `LabelOrders`, since `seriesKey` ranges over a map; samples of
one series with different keys become different time series. Whether the
endpoint takes a request changes nothing in the publisher and is left out. So is
the branch that drops a batch when its request cannot be encoded
(`remotewrite/publisher.go:193-197`): the generated encoder returns no error for
the series built here.

A run `<<c, n>>` is the goroutine of `NewController` (n = 0) or of the
scheduler's n-th tick, of which the first comes at once. It looks at the flag
(`Start`), reads the device (`Collect`), fetches static info if it has none
(`FetchInfo`, Voltgo), publishes its metrics one by one (`PublishNext`) and
clears the flag (`End`). The scheduler is a library; all that is assumed of it
is that a tick comes no earlier than its time, and may start while an earlier
run goes on. `requests`, `published` and `closed` are history.

Left out: metrics whose JSON cannot be built, or that the publisher cannot
parse (neither controller makes one), and the Prometheus gauges set next to the
status. What a controller does at Close is in `Lifecycle`.

### StatusCollector

`GetStatus` makes four reads (`Requests`), each of which returns the registers
of its range at one moment; between them the device may change (`Change`). A
read that fails, or answers with too few bytes, ends the cycle (`Fail`). `Parse`
is `epever/parser`: words put together with the low one first, temperatures
with a sign, two bits of the status word. `moments` is history. How the device
lays its quantities out (`Registers`) is external, taken from what the parser
undoes. Quantities that are parsed alike and read together are one here: array
power stands for charging power, the battery's temperature for the device's.
The division by 100 and its rounding to float32 are left out.

### VoltgoConnection and Lifecycle

`VoltgoConnection` has the collector's mutex, the link it keeps (`battery`), and
the links that are up as the adapter sees them. `LockMu`, `Reuse`, `Connect`,
`ReadOK` and `ReadError` are the parts of `GetStatus` and `GetInfo`; a link may
be lost at any moment (`Lose`), and the collector sees it at its next check or
read. `dropConnectionLocked` forgets the battery whether or not `Disconnect`
succeeds; if it fails, the link stays up until it is lost, and the history variable
`undropped` remembers it. The release of the adapter at Close may fail too, and
may or may not take such links down: they are lost (`Lose`) or stay. Its runs are
those of `Lifecycle`, which extends it:

| action | code |
|---|---|
| `NewPublisher`, `Build` | `run` and `newApplication` up to the server; a controller is built, disabled or fails |
| `Listen`, `RunReturns` | `Application.Run`, which returns as soon as the listener is closed |
| `Signal`, `Shutdown`, `Drained` | `signal.NotifyContext` and the goroutine that waits for it |
| `ClosePublisher`, `StopScheduler`, `CloseController`, `Exit` | `Application.Close`, and `Close` of a controller in its two parts |
| `Start`, `CollectEpever`, `CollectVoltgo`, `GotStatus`, `GotInfo`, `Finish` | a run of `collectAndPublish` |
| `Arrive`, `Operate` | a PATCH and its register operations, which fail on a closed port |

The process ends in one of three ways: `run` returns (`exited`), startup fails
(`fatal`), or a signal comes when none is caught (`killed`): before
`NotifyContext`, or after the deferred `stop`, which runs before `Close`. Then
nothing of it takes a step any more, which is why deadlock is not checked.

Assumed of the libraries: `gocron`'s `Stop` waits for the jobs the scheduler
started and starts none afterwards; `http.Server.Shutdown` makes
`ListenAndServe` return at once. What the reads return, and that metrics are
published one by one, is in the other modules.

### FanOut

A collection publishes each message to MQTT, Solace and the file, in the order
of `NewPublisher`. The MQTT client has a queue that it empties in order, or
loses; Solace's library call is made by a goroutine of its own, which may stay
in it for ever. Both are waited for until a timeout (`Answered`, `TimeOut`),
and the message stays where it is. Solace may be unable to build a message, which
then has no goroutine, and the file to write one; both are logged and the
fan-out goes on. The history variable `failed` says which. `Close` closes the
publishers in order, beside all this. The Solace goroutines are told apart by
their message; their channel has room for the one answer, so that the library's
answer and the end of the goroutine are one step (`Sender`).

## Runs

| run | bounds | shows |
|---|---|---|
| `rewrite` | every register from 500 to 7000 | a voltage read and written back any number of times loses two centivolts at most, order is kept, and voltages two centivolts apart stay apart (`BoundedDrift`, `ConversionKeepsOrder`) |
| `sequential` | three requests, of eighteen kinds, one at a time, no faults | a lone client gets what the API promises: `PatchShowsItsWrite`, `CacheFreshWhenQuiet`, `OnlyRequestedFields`, `ChargingOnlyWhenUserDefined`, and cannot tell it from a store that handles each request in one step: `ImplementsStore` (the refinement of `SettingsStore`) |
| `concurrent` | any two of twenty-one requests at once, some of which contradict each other, one fault, the device at 16.05 V | `DeviceOrdered`, `ConfigsOrdered`, `RejectedWroteNothing`, `OkMeansWritten`, `NothingInvented` |
| `live` | two requests of five kinds, one fault, fairness | `EveryRequestAnswered` |
| `modbus` | two callers, two registers, a write of one, a write of both and a read of both, two attempts | `ImplementsBus` (the refinement of `RegisterBus`), `EveryCallReturns` |
| `telemetry` | both controllers, two runs each, cycles of two metrics and of one, a batch of two, time passing once, the publisher closed at any point | `SamplesInOrder`, `BufferBounded`, `SentOnce`, `FullCyclePushesOlder`, `StatusNeverGoesBack`, `FlagHasOwner` |
| `status` | two device states per cycle, powers around the carry from the low word, temperatures at both ends and around zero | `StatusWasMeasured` |
| `lifecycle` | both controllers, each with its first goroutine and one scheduled run, two connects, one request of one operation | `NoLinkLeftBehind`, `BrokenLinksDropped`, `ClosedMeansQuiet`, `OnlyFirstRunReconnects`, `EverythingClosed`, `SignalEndsProcess` |
| `fanout` | two collections, with two messages and one | `OnlyTimedOutOvertaken`, `FailuresIsolated`, `PublishReturns` |

Two requests are enough for a race between a reader and a writer or between two
writers, since handlers meet only in the device and the cache, and each looks
at either only through its own last read; the third request of `sequential` sees
what the first two left behind. One fault reaches every error path. The voltages are those of a 12 V system,
among them a boost voltage the registers cannot tell from the float voltage; in
`concurrent` the device starts at 16.05 V, whose conversion loses a centivolt.
The theorems hold for any number of each.

In `modbus` two callers are one inside an operation and one competing with it,
with writes that overlap in one register and differ in value; the theorem covers
any number.

In `telemetry` a tick is longer than the timeout of the batch, so that every
step falls on either side of it; labels come in two orders. A batch as long as
the longer cycle is the proportion of the code, where both have twelve;
`series_once` uses the real sizes.

In `lifecycle` a controller has two runs, one that Close waits for and one that
it does not; a third would find the flag set or follow one of these. Two
connects let a link be lost, left up or broken, and replaced. `drain` gives its
request two operations, so that it can be between them. In `fanout` one
collection has a message to overtake and one to be overtaken; the other shares
the MQTT queue. In `status` a cycle of four reads with one change between any
two of them mixes two moments in every way the reads allow.

Three runs check what a comment says, and end in a counterexample:

| run | what happens |
|---|---|
| `drain` | a signal closes the listener, `Run` returns, everything is closed and the process exits while `Shutdown` still waits for a PATCH between two writes (`cmd/controller/main.go:95`; the comment at `:80` promises the drain) |
| `stale_refill` | a GET reads the device, a PATCH writes and invalidates, the GET stores what it read; the PATCH answers with the old value (`epever/configurer_cache.go:35`) |
| `series_once` | a series appears twice in a request, because its key depends on the order of a map |

The properties of `sequential` hold of requests that come one at a time. With
two requests at once the battery type may change between the check of a charging
PATCH and its writes (`epever/configurer_charging.go:82`), and a block write
undoes what another PATCH wrote after its base was read. Two of the five hold
whatever fails (`PatchShowsItsWrite`, `ChargingOnlyWhenUserDefined`). The other
three need a bus that does not: when the second write of a PATCH fails, the cache
is not invalidated and shows the state before the first
(`epever/configurer_charging.go:186`), and the next PATCH builds its block on
it. `OnlyRequestedFields` also needs registers that survive the conversion, as
those of the run do: on a device set to 16.05 V, a PATCH
of another voltage makes that 16.04 V (`epever/configurer.go:377`).

The same truncation is why `DeviceOrdered` allows equal registers. The rules ask
for a strict order (`docs/modbus-registers.md:169-172`), but are checked on float32
voltages, and the registers are what truncation leaves of these: a PATCH with boost
voltage 16.05 and float voltage 16.04 passes the checks and writes 1604 to both,
as does one with 14.405 and 14.40, which writes 1440. Thresholds that are two
centivolts apart stay apart (`ConversionKeepsOrder`).

README.md:574 says that the metrics of a cycle go out in one request. The first
metric of a cycle that starts more than five seconds after the last request goes
out alone (`remotewrite/publisher.go:118`), which with a publish period of a
minute is the normal case for a lone Epever; what does hold is
`FullCyclePushesOlder`.

One more thing the mutants show: writing only the requested registers, which
would cure the drift, puts the thresholds of the device out of
order (`Sent_FieldByField` against `DeviceOrdered`). The block write is what
keeps two concurrent PATCHes from meeting half-way.

### Fairness

`Configurer`: each handler's steps are weakly fair, since a goroutine is
scheduled again and every register operation ends, by its answer or by a
timeout. Neither a client nor the TTL owes anything.

`ModbusClient`: a caller's steps inside an operation are weakly fair, by the
timeouts of the port and the delay; taking the lock is strongly fair, since a
Go mutex hands itself to a goroutine that has waited long.

`Lifecycle`: main, the goroutine that calls Shutdown and each collection's steps
are weakly fair: goroutines run, and connecting, reading and publishing end by
their timeouts (`connectTimeout`, the contexts of a collection, `PublishReturns`
of `FanOut`). Neither a scheduler's tick, a signal, a request nor the return of
`Shutdown` is owed.

`FanOut`: the collections, with their timers, are weakly fair; brokers, libraries
and the goroutines that wait for them owe nothing.

`StatusCollector` states safety only. So does `Telemetry`: that a cycle ends is up to the timeouts of the
libraries it calls, and what the code itself must do, clear the flag on every
way out, is the invariant `FlagHasOwner`.

## Theorems

For every value of the constants, under the assumptions named in the modules
(those of `Lifecycle` and `StatusCollector` only type their constants and say
that a controller is listed once):
`ConversionAssumption` (the conversions keep the order of voltages; the theorem
`ConversionsQualify` proves it of the code's float32 arithmetic, for all voltages
and registers from 4 V up to 128 V), `DeviceAssumption` (the device starts in
order), and the types of the bounds.

- `TypesHold`: the types of `Configurer`. `TypeOK` alone is not inductive: a
  handler might write a register its request has no value for. `TypeInv` adds
  that `todo` names fields of the body, and that an idle request has nothing to
  do.
- `OrderHolds`: `DeviceOrdered` and `ConfigsOrdered` (which `ConfigsOrderHolds`
  states by itself). The invariant `OrderInv`
  says in addition that whatever a handler proposes is blank or has passed validation
  (`ProposalsValid`), that a handler at its block write still has that job and
  so has a proposal (`WritersHaveJob`), and that every configuration being read
  is in order (`ReadingsOrdered`). The step that matters is `WriteBlock`: a
  validated block has no zero field, so the merge with the second configuration
  the handler has read changes nothing, and encoding keeps the order.
- `RejectionHolds`: `RejectedWroteNothing`. `RejectInv` says that a handler that
  still has a check ahead has written nothing, and that only a handler that is
  done has answered.
- `ClientImplementsBus`: `ModbusClient` implements `RegisterBus`. The invariant
  says that whoever is inside an operation has the lock alone (`Exclusive`),
  that executing its write again would change nothing (`Lasting`), and that an
  answer under way tells what the registers still hold (`Current`). A second
  attempt of a write that was executed is then a stutter, and a read's answer is
  not out of date when it arrives. Without the lock over the delay `Lasting`
  fails, and a retry undoes another caller's write: the mutant `Fault_Unlocks`.
  It rests on `RetryAssumption` and `OperationsAssumption`.
- `OkHolds`: `OkMeansWritten`. The invariant follows a handler through its
  places (`Kept`): while it checks it has written nothing; from then on what it
  has written together with what it has still to write is what it promises
  (`Promised`), and a write that is done moves from the one to the other; when it
  answers nothing is left.
- `NothingInventedHolds` (`NothingInvented`): PATCHes that overlap may undo each
  other's writes, and one that fails may have made some of its own, but every
  setting of the device, and every voltage of the cache and of an answer, is the
  one the device began with or one that a request wrote, converted at most
  twice. Such a source must be known of everything a handler carries along, of
  the configuration it has read, the proposal made of it and the answer
  (`OriginInv`); and a source once known stays one, because what was written stays
  written (`OriginsGrow`). It asks of the conversion that it settles, that a
  register read and written back twice does not change the third time
  (`RewritingSettles`); `RewritingSettlesHolds` proves that of the code's
  conversion, from `TwoLostAtMost` below.
- `DriftHolds` and `KeepsOrderHolds`: the two properties of `rewrite`, for any
  range inside 4.01 to 127.97 V instead of the one run. Rounding to the nearest
  is monotone and exact on whole multiples (`RoundMonotone`, `RoundExact`), each
  binade ends where the next begins, so reading and writing keep the order. The
  rounded product is at most 64 away from the exact one, which is a multiple of
  131072: one rewrite loses one centivolt or none (`OneLost`), and one only if the
  quotient by 100 was rounded down by a third of a unit. In no binade can that
  happen to three registers in a row (`TwoLostAtMost`), which is why the drift
  ends; the invariant `Lost` remembers that the steps taken were such steps.
- Of `LoneClient_proof`, for requests that come one at a time (`MaxInFlight = 1`),
  any number of them:
  `PatchShown` (`PatchShowsItsWrite`) and `ChargingGuarded`
  (`ChargingOnlyWhenUserDefined`), for any number of faults; `CacheFresh`
  (`CacheFreshWhenQuiet`) and `UnrequestedConverted` on a bus that does not fail
  (`MaxFaults = 0`); `OnlyRequested` (`OnlyRequestedFields`) if moreover the
  conversion is exact. `UnrequestedConverted` is what holds of the real
  conversion: a block write changes a voltage nobody asked to change only to what
  reading and converting it back gives. The invariant `LoneInv` says that one
  handler at most is in flight, and follows the one that is through its places
  (`Alone`): what it has read the device still holds, since only it
  writes; once it has written, an invalidation is still ahead of it before it
  reads back (`DropsPlanned`), so that what it answers is fresh; the battery type
  it checked has not changed since. `CacheInv` adds, when nothing fails, that a
  valid cache shows the device whenever no invalidation is ahead.
- `ConfigurerImplementsStore` (`ImplementsStore`): one request at a time, on a bus
  that does not fail, `Configurer` implements `SettingsStore`, for any requests,
  limits and order-keeping conversion. Each step of the lone handler is one of
  four things to its client (`Unseen`, `Accepts`, `Refuses`, `Replies`), and each
  of these is a step of the store or a stutter (`SeenAsStore`). The proof needs
  `LoneInv` and `CacheInv`: the base a PATCH is validated against is the device's
  block, so that the handler judges as the store does; and `ServedInv`: what is
  about to be answered is what the device holds, whether or not anything was
  written. A write then takes a job from `todo` to the device and leaves
  `settled` alone. With two requests at once no such store exists: the
  counterexample of `stale_refill` is an answer it cannot give.
- `TelemetrySafe`: types, `BufferBounded`, that a controller's runs collect one
  at a time (`OneCycleAtATime`), and `FlagHasOwner`. Inductive they are only
  together with `BusyHoldsFlag`, that a run in its cycle has the flag set: so a
  run that finds it clear is alone. `TypesHold` and `FlagOwned` state two of them
  by themselves.
- `OlderPushed`: `FullCyclePushesOlder`. Behind a sample from before a run's
  cycle the buffer has every sample that run has published (`OlderBehind`), and
  it is never longer than a batch.
- `SentOnceHolds` (`SentOnce`) and `InOrderHolds` (`SamplesInOrder`), for any
  controllers, cycles, batch sizes, timeouts and orders of labels. Of a series that
  is split under two keys, `SamplesInOrder` says nothing within the request: the
  code lists the parts in the order of a map. The invariant
  `HistoryInv` has two parts. `Sending` is about requests and buffer alone: they
  share no sample and count up to what was handed over (`Once`), and samples of a
  series are in order within a time series, from one request to the next and on to
  the buffer (`Ordered`); lemmas say what becomes of either when a sample joins the
  buffer and when the buffer becomes a request. `Past` ties every sample ever
  handed over to its run, which has gone past that metric, and to the runs that
  began since, none of which began before the sample's time: so a new sample is new, and
  not older than any of its series. It needs that one run collects at a time.
- `StatusMonotone`: `StatusNeverGoesBack`. It needs that a run that holds the
  flag began no earlier than the last status (`StatusIsOlder`), which a second
  run at the same time would break.
- `StatusTrue` (`StatusWasMeasured`) and `TypesHold` of `StatusCollector`. The
  invariant says that there are moments, in order, one for each request that
  was answered, whose registers are the raw ones (`Read` adds the present
  moment); lemmas on words, signs and bits say that `Parse` undoes `Registers`.
- Of `Lifecycle`: `ClosedQuiet`, `LinksAccounted`, `BrokenDropped`, `OnlyFirst`,
  `AllClosed` and `TypesHold`, from one invariant. `Exclusive` says that whoever
  connects or reads has the mutex alone; `Links` that the link in use is none
  that failed, so that dropping it accounts for what is up (`Dropped`: it is down, or
  its `Disconnect` failed); `Asking` that only a
  collection that is under way is inside the collector; `Closing` how far
  `Application.Close` has come, and that a closed controller's scheduler is
  stopped. A run that connects after Close is under way, hence not one that
  Close has waited for, hence the goroutine of `NewController`. The other links that
  may be up then are those whose `Disconnect` failed.
- Of `FanOut`: `FailuresStay` (`FailuresIsolated`), `OvertakenHolds` and `TypesHold`. The file and MQTT,
  its queue included, have the messages of a caller in order, because none is
  handed on before it was begun (`NothingEarly`). A Solace goroutine that still
  sends when a later message of its caller is begun was waited for in vain
  (`Waited`), so that whatever it delivers late has timed out. A message has no goroutine before
  Solace is given it (`Unsent`), and none afterwards only if it could not be built.

Only model-checked: liveness under fairness (`EveryRequestAnswered`,
`EveryCallReturns`, `SignalEndsProcess`, `PublishReturns`), which is out of the prover's reach. Every invariant and
action property a passing run checks is a theorem.

## Plan

Done: the configuration API with its rules and conversions; the Modbus client
under it; the collection cycles, the status they collect and the publishers they
feed; the Voltgo connection; the process and its shutdown.

The API as a store of settings, for a lone client, is stated and proved
(`SettingsStore`); what overlapping PATCHes may leave on the device is
`NothingInvented`. Left: which of two overlapping PATCHes prevails, voltage by
voltage; the code promises neither, and `OkMeansWritten` says that both wrote.

## Not modelled

Parsing, defaults and checks of the configuration file run once, before
anything else. Prometheus gauges, the web site and the test utilities hold no
state that the rest of the program reads back. The SNS publisher makes one call
with a context and keeps nothing; whether its SDK repeats a message is the SDK's.
How the publishers are constructed is folded into success or failure: a failure
ends the process at once. Authentication, TLS, routes and static files are in
front of the handlers and change no state.
