# aegis-stream in TLA+

Specifications of the aegis-stream event pipeline: a Go TCP server with a worker
pool, its framing and configuration, its PostgreSQL and NATS sinks, the
price-alert consumer, the Binance feed, the Kubernetes operator, the load
generators and the dashboard. TLC model-checks the modules on small instances;
TLAPS proves every invariant that a run checks, the action properties and the
refinements, for every value of the constants; liveness stays with TLC.

    tlc -config ServerFlow.cfg MCServer      # one run; see PROJECT.json for all
    tlapm ServerProofs.tla                   # the proofs about one component

Paths below are relative to `src/`.

## 1. Inventory

Data flow: clients and the feed write length-prefixed protobuf frames to the
server's TCP port; a handler per connection puts them on one bounded channel; a
pool of workers decodes them and hands each event to the configured sink
(stdout, PostgreSQL or NATS JetStream). Consumers read the JetStream stream. The
operator creates Deployment and Service for an `AegisPipeline` resource; the
dashboard reads Prometheus, Kubernetes and PostgreSQL.

| Part | State | Operations | Hard about it | Correct when |
|---|---|---|---|---|
| Server, `cmd/server/main.go` | listener, context, `jobs` channel, `connSem`, wait group; per goroutine its place and the frame in hand | accept / admit / reject, read frame, send job, decode, write, finish, four shutdown steps, deferred clean-up | main, the accept loop, handlers and workers interleave; channel closed while handlers send; workers panic; silent clients | no frame lost, doubled or overtaken; slots neither leaked nor doubled; sink closed after the drain; shutdown ends |
| Metrics and health, `internal/metrics` | two counters, a histogram, two gauges, the shutdown flag | `Inc`, `Dec`, `Set`, `Observe`, `SetShutdown` | updated at different steps by different goroutines | the counters agree with what happened to the frames |
| PostgreSQL sink, `internal/sink/postgres.go` | two buffers under a mutex, ticker goroutine, connection pool | `Write`, `backgroundFlusher`, `flush`, `Close` | buffers taken by three kinds of actors and flushed outside the lock; failing statements, lost commit answers, crash | each event in one place, at most one row, batches atomic, every event leaves memory |
| NATS sink, `internal/sink/nats.go` | connection, stream `AEGIS` in the broker | `NewNATS`, `Write`, `Close` | lost or late PubAck, crash, restart | stored at most once, and stored if `Write` returned nil |
| Consumer, `cmd/consumer/main.go` | durable `price-alerts` in the broker, message in hand, counters | create/update the durable, callback, `Ack`, signal | redelivery, crash before `Ack`, shared durable, undecodable messages | acknowledged only after it was handled; repetitions only because of faults; everything acknowledged in the end |
| Operator, `operator/internal/controller` | none of its own; CR, Deployment, Service in the API server, informer cache, work queue | `Reconcile` (five steps), watches | stale cache, conflicts, deletions and edits in between, partial failure | children and status converge; no status for a spec it was not computed from |
| Feed, `cmd/feed/main.go` | context, back-off, TCP connection, trade counter, two statistics | dial, read, convert, send, log every N trades, back off | failures at every step, cancellation at any time, connection cut by the server | complete in order while the connection is up; right back-off; returns to reading; stops |
| Framing, `internal/frame` | none; the bytes on the connection | `Write`, `Read` | short reads, torn writes, the deadline inside a frame, 32-bit length | what is read is what was written, in step; a torn frame does not hold the reader |
| Configuration, `internal/config` | none | `Load`, `validate` | precedence of flags and environment, values another program wrote | pods run with what the pipeline asked for, or do not start |
| Stress, bench, client, `cmd/...` | connections, senders, totals | dial, send in phases, scrape, wait for the drain, report | failed scrapes, dropped connections, restarts, other clients, senders that outlive a phase | the reported loss is the real one; the tool ends |
| Dashboard, `dashboard/api` and `dashboard/web` | a database pool and a Kubernetes client made at the start; current value, history and error of each hook | three HTTP handlers; three polling hooks | polls overlap and end in any order; the API dies; backends fail between two queries | every point was true, the screen recovers, outages are reported |
| Manifests, generated code | - | - | - | - |

Interactions: handlers and workers share the channel; the server calls the sink
from every worker; sink, broker and consumers exchange publish requests,
deliveries and acknowledgements; the operator and everybody else meet in the API
server; the feed is one of the server's clients and is subject to its read
timeout.

What is hard to test in this code, line by line, is the `hazards` list of
PROJECT.json; each hazard names the properties that would catch it going wrong.

## 2. Modules

| Module | Models | Checked by |
|---|---|---|
| `Server` | `cmd/server/main.go`, the metrics variables, config's `validate` as an assumption | `MCServer` |
| `Delivery` | the abstract promise of the data plane | `Server` refines it |
| `PostgresSink` | `internal/sink/postgres.go` and the database it talks to | `MCPostgresSink` |
| `Pipeline` | `Server` and `PostgresSink` composed as main composes them | `MCPipeline` |
| `Frame` | `internal/frame/frame.go` on one connection, byte by byte | `MCFrame` |
| `NatsStream` | `internal/sink/nats.go`, `cmd/consumer/main.go`, the broker between them | `MCNatsStream` |
| `Config` | `internal/config/config.go` as operators | used by `Operator` |
| `Operator` | the reconciler, API server, cache, users, what pods make of a spec | `MCOperator` |
| `Feed` | `cmd/feed/main.go` | `Feed` itself |
| `LoadTest` | `cmd/bench/main.go`, `cmd/stress/main.go` and what they see of a server | `MCLoadTest` |
| `Dashboard` | `dashboard/web/src/hooks`, `dashboard/api` and its backends | `MCDashboard` |
| `ServerProofs` | proofs about `Server`, `Delivery` and `Pipeline` | tlapm |
| `PostgresSinkProofs`, `NatsStreamProofs`, `OperatorProofs`, `FeedProofs`, `FrameProofs`, `LoadTestProofs`, `DashboardProofs` | proofs about the module they are named after | tlapm |

**Server.** Each goroutine has a program counter (`mpc`, `acc`, `hpc[c]`,
`wpc[w]`), and an action is the code between two points at which another
goroutine can notice something. A frame is `<<c, i>>`, the i-th frame of
connection c; its bytes are abstracted to `Kind`, what `proto.Unmarshal` makes of
them. `len(jobs)` is read in one step (`ReadFrame`) and stored in the gauge in the
next (`SetGauge`), as in lines 185-187. The deferred statements are three steps in
Go's order: gauge, slot, socket. `SendPanics` is the send on the closed channel;
nothing recovers there, so the process ends. `WorkerPanics` is the recovered
panic in a sink; the worker is not replaced. `Fatal` is `os.Exit(1)`. After a
terminal state of main nothing moves (`Ended`). A frame is read in one step; what
happens to its bytes is `Frame`.

**Delivery.** Frames go through unread, held, queued, taken, settled, in order per
connection; a clean stop requires that nothing is taken and, unless the pool is
lost, nothing queued. The refinement mapping (`Stage`, `Phase`, `PoolLost` at the
end of `Server`) reads a frame's stage off the channel and the workers' hands.

**PostgresSink.** `Write` appends under the lock and takes the buffers when the
batch is full; workers, ticker and `Close` run `flush` concurrently: begin,
insert row by row, send the commit, get the answer. The database applies a commit
when it likes; every statement may fail, an answer may be lost after the commit
was applied, a commit may be applied after `flush` has given up on its answer
(`late`), the pool has `PoolSize` connections, and the process may die.

**Pipeline.** Extends `Server` and instantiates `PostgresSink` with the server's
workers as writers and its frames as events. Three things couple the two: a
worker stays in `s.Write` for as long as the flush it triggered, so its result is
the flush's; main calls `Close` when `wg.Wait()` has returned and ends when `Close`
has; and both die together, after which the database may still apply a commit it
was sent (`LateApply`, also for a flush that has given up). Where the detail of one module is the other's assumption, the
composition is shown to implement both (`ImplementsServer`, `ImplementsSink`).

**Frame.** `Write` is two writes, each of which can stop half-way and then fails;
`Read` is two `io.ReadFull`s that take any part of what has arrived. The length is
a number of four digits to the base `Base`, big-endian and wrapping; `Base` is 256
in the code. `stream` is every byte sent so far and `pos` how far the reader is, so
that the proof can say which frame a byte belongs to (`ends`, a history variable).
A failed read ends the reader, as the handler's `return` does.

**NatsStream.** `Write` sends one request and waits; the broker stores or loses it,
and the caller may get an error for an event that is stored, or is stored later.
The library repeats a request only when it was told that no server received it,
which stores nothing and is not visible here. Consumer processes share the durable; the
broker gives a message to one process, lets AckWait pass and redelivers. The
callback counts the message, raises the alert and then acknowledges. A process
turns the durable's filter to its own subject when it starts. A message that does
not decode is never acknowledged, comes back after AckWait and keeps its place in
the window of `MaxAckPending`. `handlings` is a history variable: how often the callback has handled a message.

**Operator.** The five steps of `Reconcile` are actions. Instead of resource
versions the model keeps which cached copies are outdated (`stale`) and whether
the copy of the pipeline in hand is (`moved`): an update from an outdated copy is
refused. `CreateOrUpdate` always sends its update because the defaults filled in
by the API server make cached and desired spec differ. A Deployment remembers the
spec its ready pods run with (`runs`): pods become ready only with a spec whose
environment `Load` accepts and whose two ports differ (`Starting`), and when the new
pods cannot start the old ones stay (`KeepOldPods`), as a rolling update does. The
CRD bounds neither port, so the API server may refuse what `Reconcile` sends for as
long as the spec stays (`ValidDeployment`, `ValidService`). Users edit and delete
the pipeline, the Deployment and the Service.

**Config.** An environment variable is text: `Decimal(n)` and `Address(n)` are what
`fmt.Sprintf` makes of a number, `Word` is anything else. `Effective` is the
precedence of environment, flag and default, `Parses` what `Atoi` and
`ParseDuration` accept, `Loads` whether the process starts.

**Feed.** `connectAndStream` and `readLoop` are one goroutine; its places are `pc`.
A write to a connection the server has cut may still succeed until the kernel
notices (`tcp = "cut"`), then fails for good: the connection is dialled once.

**LoadTest.** A behaviour is one run of one of the two programs (`tool`), which share
the skeleton scrape, dial, send, close, poll until the counter has grown or the
deadline has passed, report. bench sends a fixed number in main and gives up at
the first error; stress runs a sender per connection in two phases. Writing and
counting an event are two steps, and the kernel may accept a write on a connection
the server has dropped. The server is external: a counter, frames on
their way, connections it drops, a restart that sets the counter back, other
clients, scrapes that go wrong.

**Dashboard.** The three hooks share nothing, so a behaviour follows one of them
with its handler and its backend. The backend's content is a version number; a
sample is the sequence of versions its queries saw, one query after the other.
Nothing cancels a poll when the next one starts. The API process makes its client
or pool when it boots and never again, and it may die with polls under way. The
Kubernetes client asks for `Group`; `ServedGroups` is what the cluster has.

Operators marked "Variant" are plausible slips of the code (a dropped guard, a
missing reset, a swapped order). They are in no next-state relation; each is the
replacement that shows one property can fail.

## 3. Runs

| Run | Instance | Shows |
|---|---|---|
| `ServerFlow` | 3 connections, 2 slots, 3 frames of two of them (garbled, trade), queue of 2, 1 worker that may panic | `TypeOK`, `SlotAccounting`, `PerConnectionOrder`, `SinkClosedAfterDrain`, `RejectOnlyWhenFull` |
| `ServerFrames` | 1 connection, 3 frames (trade, garbled, no payload), 2 workers that may both panic, queue of 1, NATS results; fair | `ExactlyOnePlace`, `CounterAccounting`, `ImplementsDelivery`, `ShutdownEnds`, `SlotReturned`, `QueuedIsSettled` |
| `Pipeline` | 1 connection, 3 frames (trade, no payload, log), 1 worker, batches of 2; fair | `StoredOrReported`, `CountedBeforeStored`, `ImplementsServer`, `ImplementsSink`, `ReadIsFlushed` |
| `Postgres` | 2 workers, 5 events, batches of 2, pool of 2; fair | `BatchBound`, `OnePlace`, `AtMostOneRow`, `ReportedIsStored`, `BatchAtomic`, `EventuallyFlushed` |
| `Frame` | 1-bit bytes, 4-byte headers, payloads of 0, 1, 5 and 9 bytes, 3 writes; fair | `RoundTrip`, `TornFrameEnds` |
| `Stream` | 2 publishers, 2 consumers on two subjects, 3 events (trade, no payload, undecodable), window of 2, 1 consumer fault, 1 server crash; fair | `StoredOnce`, `AckedIsHandled`, `RepeatsNeedFaults`, `StoredIsAcked` |
| `Operator` | 4 specs: two that can start, one the server refuses, one whose children are refused; 3 user edits, 1 failure; fair | `RunsAsAsked`, `StatusFitsSpec`, `ChildrenConverge`, `StatusConverges` |
| `Feed` | 5 messages, a log every 2 trades; fair | `BackoffDoubles`, `CompleteWhileUp`, `KeepsReading` |
| `LoadTest` | both tools, 2 connections, 2 events each and phase, one drop, restart, foreign event and bad scrape; fair | `ReportIsTrue`, `ToolEnds` |
| `Dashboard` | each hook, 2 queries, 2 overlapping polls, 3 versions, history of 2, 2 faults; fair | `SnapshotIsReal`, `Recovers`, `OutageIsReported` |
| `ClaimShutdownDrains` | expected violation | a handler meets the closed channel and the queue dies with the process |
| `ClaimFanOut` | expected violation | two consumers share the messages instead of both getting all |

The type invariant of `Server` is checked and proved. In the other modules
`TypeOK` is the first conjunct of the inductive invariant that section 4 proves;
the runs spend their properties on what can go wrong.

**Bounds.** The server's interesting cases need more connections than slots, a
queue smaller than the frames in flight so that senders block, two workers so that
one can be lost while the other goes on, and frames of one connection behind each
other in the queue and between those of another. `ServerFlow` has all but the two
workers, `ServerFrames` has these and more frames than the queue holds; the proofs
cover all of them at once. `ServerFlow` is bounded by a constraint (`FewFrames`:
`MaxTotal` frames in all, and one client stays silent with its socket open) and compares states without the
counters and the queue gauge, which no guard reads (`ControlView`); it has no
liveness property, for which neither would be sound. Every connection has the same
frame kinds, so connections are symmetric there; the other runs use no symmetry.
In `Stream` the process that starts last, or again, turns the durable to its own
subject, and the one undecodable message leaves a place in the window free: the
full window, which `StoredIsAcked` names as its exception, is not reached. The
refused spec of `Operator` has a port that is no port number; one with equal ports,
which only the Service's validation refuses, is in the model and not among the
run's specs. In
`Pipeline` the event without payload meets a buffer that lacks one event, so a
batch is filled by a worker, collected by the ticker or left to `Close`.
`Postgres` has more events than two batches hold, so a batch is taken by each of
two workers while the ticker has a remainder. In `Frame` the payload 0 0 0 1 1
would read as a frame of its own if the stream were shifted, and a header can hold every
length that occurs. Fault counters (`MaxPanics`, `MaxFaults`, `MaxCrashes`,
`MaxEdits`, `MaxFailures`, `MaxDrops`, `MaxRestarts`, `MaxOthers`, `MaxBad`) bound
the environment; one or two of each is enough to put a fault between any two
steps. `Feed` cannot pass six sleeps without reaching the cap of the back-off, and
5 messages reach the log cadence twice. Two senders and two phases let one
sender's write outlive its phase while the other goes on; two polls are enough for
one answer to overtake another.

**Deadlock** is checked except in the NatsStream runs: once all events are
written and acknowledged and the faults are used up, nothing is left to do there.
The other modules have an explicit stuttering step where the system may rest
(`Ended`, `Quiet`, `Steady`, `Stopped`, `Over`); the dashboard polls for ever.

**Fairness.** Weak fairness for each goroutine that can run (the Go scheduler) and
for timers: the server's read deadline is part of the handler, the flusher's
ticker and the ten-second context of a flush are steps that must happen. In
`NatsStream` the broker's delivery is strongly fair because MaxAckPending may
disable it for a while; in `Feed` a dial that is repeated for ever succeeds at
some time. In `Frame` only the reader is obliged to go on, and not the deadline.
`Operator` obliges watches, work queue, garbage collector and the pods of a spec
that can start, never those of one that cannot. In `LoadTest` main, senders and
the drain's deadline go on, the server reads from connections it has not dropped,
and scrapes return (`http.Get` has no timeout here, so this is an assumption). In
`Dashboard` the interval goes on, the kubelet restarts the API, and requests end:
the clients of Prometheus and Kubernetes have timeouts, PostgreSQL is assumed to
answer or to break. Clients, users, signals, panics, crashes and outages are never
obliged to happen, and neither is a message from Binance.

## 4. Proofs

Eight modules hold theorems; each `Foo`Proofs extends `Foo`. All of them follow one
plan: an inductive invariant `Inv` whose conjuncts are named after what they say,
lemmas that `Init` establishes it and every step keeps it (one case per action or
per kind of action), the lemma `Invariance == Spec => []Inv`, and the theorems as
consequences. The bounds of the runs are constants here, so
the theorems hold for any number of connections, workers, events, faults and so on.
PROJECT.json lists the theorems with the property each states.

**Server.** `TypeCorrect`, `SlotsAreCounted`, `RejectsAreJustified` follow from
`Base == TypeOK /\ Slots /\ Reading`. `TypeOK` is not inductive: that the two
decrements stay natural needs `Slots` (token and gauge count the handlers between
admission and release), and that a handler reads no more frames than its client
sent needs `Reading`. `FramesAreInOnePlace`, `ConnectionsKeepOrder`,
`DrainedBeforeClose` follow from `Inv == Base /\ Lifecycle /\ Places`. `Lifecycle`
ties main's place to the channel and the workers: a worker holds a frame exactly
between receive and write, one that is done has seen the closed and empty channel,
and past `wg.Wait()` all of them are done or panicked. `Places` is
`ExactlyOnePlace` with `PerConnectionOrder`; neither is inductive alone, because a
frame taken from the queue's head is the oldest of its connection only if no frame
is queued twice. The steps are sorted into four kinds (read, send, receive, settle)
and those that move no frame. `CountersAreTrue` (`CounterAccounting`) is inductive
relative to `Inv`: a frame enters each of the counted sets at most once, because it
is in one worker's hands; the histogram lags by the workers that have written and
not yet observed. The theorems about `Server` use `ServerAssumption` only;
`PipelineAssumption`, which the module also sees, is cited by the theorems about
`Pipeline` alone.

**Delivery.** `ServerImplementsDelivery`: under `Inv` the stage of a frame is its
place (`StagesArePlaces`), so reading is `Hold`, sending is `Enqueue`, receiving is
`Take`, settling is `Settled`, main's steps are `Drain`, `Stop` and `Crash`, and
everything else stutters.

**PostgresSink.** `BatchesAreBounded`, `EventsAreInOnePlace`, `NoDuplicateRows`,
`SuccessIsTrue`, `BatchesAreAtomic` and `CloseFlushesAll` from
`TypeOK /\ BatchBound /\ CloserWaits /\ Quiesced /\ Core`. `Core` adds to `OnePlace`
and `BatchAtomic` what makes them inductive: an actor outside `flush` has no batch
and COMMIT is sent for all of it (`FlushState`), the database holds what the place
of an event allows (`Stored`), a batch stays with one actor (`TakenWhole`), and a
commit that was given up is of a batch whose flush failed and which nobody sends
again (`LateOnes`).
`Quiesced` says that nobody fills a buffer once `Close` has emptied it.

**Pipeline.** `PipelineImplementsServer`, `PipelineImplementsSink`,
`NothingIsMissing` and `CounterIsAhead` from `PipeInv`, the two invariants above
with `Link`: only a worker in `s.Write` is in the sink, main closes it last, and a
worker settles an event as what the sink returned. The two refinements let the
lemmas about the components be used for the composition.

**Frame.** `StreamStaysInStep` for every `Base`. `Layout` says where the frames lie
in the stream, `Content` that header and payload are at their places, `Unfinished`
what may follow the last whole header, `Returned` that `got` is what was given, and
`InStep` that the reader's position and buffer are inside the frame it is about to
return. `HeaderRoundTrip` is the arithmetic: `Uint32(PutUint32(n)) = n` for every
length that does not wrap.

**NatsStream.** `PublishedOnce`, `HandledBeforeAck` and `RepeatsHaveCauses`.
`Publishing` keeps a stored event off the wire. `Causes` is what the bound on
repetitions rests on: handlings, copies received and not handled, and a delivery
the broker may make without another fault add up to at most `1 + faults`.

**Operator.** `PodsRunAsAsked` rests on `StartingIsHonoured`, a lemma about
`Config` and `buildEnvVars`: an environment that `Load` accepts gives the values of
the spec. `StatusIsOfTheSpec` needs `Fresh` (a copy that has not moved is the
stored object) and `Copies` (a cached copy that is not stale is the stored one).

**Feed.** `DelaysDouble` and `TradesAreForwarded`, for every log interval; `Reading`
and `Behind` say that a trade is counted before its frame, and its log comes after
it. `DivStep` is the arithmetic of the log cadence.

**LoadTest.** `ReportsAreTrue`. `Written` counts, over all senders at once: what is
processed or on its way is at most what is sent or about to be counted. `Growth`
relates the server's counter to the first scrape.

**Dashboard.** `PointsWereTrue`. `Sampling` gives every unfinished sample a witness:
versions, in the order of the queries, between the poll's start and now.

Assumptions: `ServerAssumption` (what `config.validate` lets through; finitely many
connections and workers), `SinkAssumption` (batch size and pool are positive,
ticker and `Close` are not workers), `PipelineAssumption` (the postgres sink, in
which nothing panics), `FrameAssumption` (`Base` at least 2, payloads shorter than
4 GiB), `StreamAssumption` (alerts are for trades; the rest are types),
`OperatorAssumption` (the CRD's minimums and sink types), `FeedAssumption`,
`LoadTestAssumption` and `DashboardAssumption` (types). TLC evaluates each of them
in a passing run.

Model-checked only: the liveness properties (`ShutdownEnds`, `SlotReturned`,
`QueuedIsSettled`, `ReadIsFlushed`, `EventuallyFlushed`, `TornFrameEnds`,
`StoredIsAcked`, `ChildrenConverge`, `StatusConverges`, `KeepsReading`, `ToolEnds`,
`Recovers`, `OutageIsReported`). They need fairness and `ENABLED`, which the prover
does not handle.

## 5. Where code and documents disagree

Shown by a run: the two `Claim` runs; PROJECT.json quotes the lines. The
following was met while modelling and has no run of its own.

- `MaxConns = 0` makes a semaphore without a slot (main.go:98) and every client is
  turned away; config.go:19 says "0 = unlimited".
- A cancelled feed stays in `ReadMessage` until the next message or error
  (feed main.go:184); main.go:131 says it "exits when the context is cancelled".
- The log of a timed-out client (main.go:176) never appears: `frame.Read` wraps the
  error, and `err.(net.Error)` does not look through the wrapping.
- `/healthz` looks only at the shutdown flag (metrics.go:105), so it answers 200
  before the listener is open and with every worker gone; TODO.md:30 says "200 when server is accepting
  connections and workers are running".
- `EventErrors` is also incremented for a sink write that failed (main.go:235), once
  for a flush of many events and never for one of the ticker; metrics.go:33 says it
  "counts events that failed to deserialize", as do README.md:258 and NOTES.md:993.
  `CounterAccounting` claims nothing about this counter.
- The dashboard asks for aegispipelines in group `aegis.io` (k8s/client.go:39, and
  dashboard/k8s/rbac.yaml:14); the CRD registers `stream.aegis.io`. Inside a cluster
  the pipeline panel of README.md:265 can only fail; `Recovers` has
  `Group \in ServedGroups` as its condition.
- `aegis_queue_depth`, "current number of jobs in the worker queue"
  (metrics.go:56), is set only by a handler that has just read a frame
  (main.go:187): it keeps its value when clients fall silent.
- `connSem` limits handlers, not sockets: the deferred steps free the slot before
  they close the socket (main.go:150-151).
- A flush that fails has already taken its events out of the buffer and is not
  repeated, the final one included; postgres.go:232 says the final flush is there
  "to ensure no events are lost".
- A second consumer for `aegis.logs` re-filters the durable `price-alerts` and
  takes the trades away from the first (consumer main.go:63-68).
- The consumer never reads the `AEGIS_CONSUMER_THRESHOLD` that
  `k8s/consumer/deployment.yaml` sets; phase `Failed` (aegispipeline_types.go) is
  never set; the feed never dials its TCP connection again.
- The CRD does not enforce what aegispipeline_types.go:67 and :73 say is
  "Required"; the server refuses such a spec, its pods never start, and the phase
  stays `Running` while the pods of the previous spec are ready.
- The CRD puts no bounds on `port` and `metricsPort` (aegispipeline_types.go:47-53).
  With equal ports the API server refuses the Service, with one that is no port
  number both children; `Reconcile` fails before its last step for ever, and the status stays
  that of the spec before.
- Undecodable messages are never acknowledged (consumer main.go:87): as many as
  MaxAckPending (1000 by default) stop the durable. No document says otherwise.
- `/api/trades` answers an empty list without an error for the life of a process
  that found its database down at the start (api/main.go:40), and a shorter list
  when a connection breaks between two rows (`rows.Err()` is not read after the loop
  at line 134). The page shows no error of `useTrades` (App.tsx).
- In stress a failed scrape counts as 0 (main.go:329), and so does any page without the
  counter in both tools: a bad first scrape overstates what was processed, a bad
  last one the loss. `ReportIsTrue` says when the report can be trusted.
- config.go:134 says only stdout and postgres are supported; `validate` accepts
  nats.

## 6. Not modelled

- Log output, histogram buckets, HTTP, JSON and CORS, and payload contents: prices,
  the `int32` conversion of a quantity (feed main.go:223), the trades on the page.
- `queueGauge` is modelled as the code sets it but no property is about it: it is a
  value read before a send and stored by whoever comes last.
- Flags of the tools and their parsing (`rate / len(conns)` with no connections),
  payload generation and the printers of progress and statistics, which only read.
- Frames of 4 GiB, excluded by `FrameAssumption`, and the memory a large announced
  length takes.
- The charts and cards of the web page, which draw the hooks' state.
- The operator's entry point (generated scaffolding), generated protobuf and
  deepcopy code, manifests (their values are constants of the models).

## 7. Plan

1. An abstract specification of the sinks (accepted, then stored or refused) that
   PostgresSink and NatsStream both implement, checked and proved like `Delivery`.
2. Action properties of the components, from the invariants that are proved: rows
   and messages never leave the database and the stream, counters never fall.
3. Safety halves of the liveness properties (what is enabled in every state in which
   something is still owed), as far as they can be said without `ENABLED`.
