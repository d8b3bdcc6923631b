# Verification of kube-delivery-platform

TLA+ models of the delivery platform, checked with TLC on small instances and
proved with TLAPS for all instances where a theorem is listed. File references are
relative to the repository (`src/` below stands for the repository root).

## The system

A client posts a shipment to **shipment-api** (Go), which inserts a row in
PostgreSQL and publishes a `ShipmentCreated` event to a NATS JetStream stream.
**tracking-worker** (Python, asyncio) pulls the events through one durable consumer
that all its replicas share, and walks the row through
`PLACED -> PROCESSING -> IN_TRANSIT -> DELIVERED`. The rest of the repository
deploys these two programs.

| Component | State | Operations | Interacts with |
| --- | --- | --- | --- |
| JetStream stream and durable consumer (external) | per message: stored, pending, waiting, acked or given up; delivery count | publish, pull, ack, nak, ack_wait, max_deliver | both services |
| shipments table | status of each row | INSERT, UPDATE | both services |
| tracking-worker consumer (`consumer.py`, `main.py`) | `_running`, the fetched batch, the message in hand, position in the lifecycle loop | start, process_message, stop, exit | stream, table |
| tracking-worker database pool (`repository.py`, `main.py`) | `_pool`, `_healthy`, monitor task | connect, ping, close, update, monitor | table, health server thread |
| tracking-worker NATS session (`consumer.py`) | `_nc`, `_psub` | connect, the reconnect branch of start, is_connected | stream, health server thread |
| shipment-api create (`handlers.go`, `postgres.go`, `nats.go`) | one goroutine per request, the NATS client's reconnect buffer | POST, shutdown | stream, table, client |
| shipment-api read, list, ready | none | GET | table |
| shipment-api start-up (`cmd/server/main.go`) | attempt counters | retryConnect twice, then listen | kubelet's startup probe |
| tracking-worker process (`main.py`) | position in `main`, the two tasks | connect, serve, stop, exit | pool, session, kubelet |
| GitOps promotion (`build-and-publish.yml`, `gitops-deploy.yml`, `scripts/collect_image_digests.py`) | runs, artifacts, attestations, two concurrency groups, pull requests, the digests on main | build, collect, promote, merge | Argo CD |
| Argo CD staging application | the image names it applied | automated sync | Rollout, worker Deployment |
| canary rollout, analysis | weight, pause, measurements (Argo Rollouts) | step, measure, abort, promote | ingress, Prometheus |
| traffic generator (`scripts/generate_demo_traffic.py`) | none | POST with a timeout | shipment-api |
| chart, policies, observability, compose, CI report scripts | configuration | - | - |

What is hard: several workers on one durable consumer with redelivery after
`ack_wait`; updates that are not conditional on the preceding status; acks and naks
nobody confirms; a delivery budget (`max_deliver` = 3) that restarts and crashes
spend; two writes to two systems with no transaction around them; shutdown in the
middle of a message; a pool two tasks share without a lock; two connections that come
and go apart from each other while one flag each says whether the worker is ready; a
retry budget that has to fit a probe window; builds that cancel each other around
promotions that are merged late; merges that arrive in the middle of a canary.
`PROJECT.json` lists each hazard at its line.

Per component, correctness means: a status found part-way is on its way on
(worker); an ack is never ahead of the table (worker); every event ends (worker); a
201 means stored and published, and no event precedes its row (API); a shipment the
client was told of is delivered (both); readiness follows both
dependencies, the worker finds its way back to what returns, and a shutdown ends
(process); the kubelet leaves a container alone that is within its retry budget
(start-up); staging only changes to attested images, pairs images of two commits only
when an operator asks for it, and never goes back by itself (promotion); a candidate
that fails every measurement is contained, and staging settles on what main says
(canary).

## Modules

| Module | Models | Composes |
| --- | --- | --- |
| `DeliveryStream` | the stream and its durable consumer, as operators on `msgState`, `deliveries` | |
| `ShipmentStore` | the table's status column and its two writing statements | |
| `TrackingWorker` | the worker processes; the publisher is the environment | extends the two above |
| `TrackingWorkerProofs` | theorems about types, rows and acks | extends `TrackingWorker` |
| `TrackingWorkerOrderProofs` | theorems about holders and the order of updates | extends the proofs above |
| `ShipmentApi` | create requests and replicas | extends the two above |
| `ShipmentApiProofs` | theorems about `ShipmentApi` | |
| `ShipmentLifecycle` | abstract: what the platform promises of a shipment | |
| `DeliveryPlatform` | API and workers over one table and stream; refines `ShipmentLifecycle` | instances of the two |
| `DeliveryPlatformProofs` | theorems about the two together, with the refinement | |
| `ApiStartup` | `retryConnect` against the startup probe, in seconds | |
| `ApiStartupProofs` | theorems about `ApiStartup` | |
| `WorkerDatabase` | the worker's pool, its monitor, its half of readiness | |
| `WorkerSession` | the worker's NATS connection and subscription, the other half | |
| `WorkerProcess` | `main` around both: connect, serve, stop, exit, restart | extends the two above |
| `WorkerProcessProofs` | theorems about `WorkerProcess` | |
| `StagingState` | abstract: the digests of staging on main change pair by pair until an operator mixes two | |
| `GitOpsPromotion` | builds, collector, promotions, merges; refines `StagingState` | extends it |
| `GitOpsPromotionProofs` | theorems about `GitOpsPromotion`, with the refinement | |
| `CanaryRollout` | steps of the Rollout and its analysis, with errors and missed turns | |
| `StagingDelivery` | main, Argo CD's sync, the canary, the worker Deployment | extends `StagingState`, `CanaryRollout` |
| `StagingDeliveryProofs` | theorems about `StagingDelivery` and its canary | |
| `MC...` | values of the constants for TLC | |

### DeliveryStream and ShipmentStore

JetStream is external; it is modelled from the configuration in
`services/shipment-api/internal/events/nats.go` and
`services/tracking-worker/src/consumer.py`. A message moves
`absent -> stored -> out -> {acked, backoff, due} -> ... -> acked | dropped`.
A pull marks the whole batch `out` and counts a delivery of each of its messages. An
ack settles a pending message even if it belongs to an earlier delivery; a nak only
counts for a message that is out. When `ack_wait` or a nak delay passes, the message is
`due`; at `MaxDeliver` deliveries a due message is given up. Order and the 24 h
retention are left out.

`UpdateStatus` is the worker's UPDATE: any existing row takes the new status, a
missing row is no error. `InsertRow` is the API's INSERT.

### TrackingWorker

A worker is one asyncio task, so an action is the code between two awaits:

| Action | Code |
| --- | --- |
| `Fetch`, `FetchTimesOut` | `psub.fetch` in `start`, returning or raising `NatsTimeoutError` |
| `TakeMessage` | the `for msg in msgs` loop up to the first await of `process_message`: decode and poison checks (`AfterDecode`) and, for a valid event, the first round's `_running` test |
| `EnterStep`, `BreakOff` | the `_running` test of the later rounds |
| `Update`, `UpdateFails` | sleep and `update_shipment_status`, which may raise before or after the commit |
| `Ack`, `AckRaises`, `Nak`, `NakRaises`, `SettlementLost` | `msg.ack`, `msg.nak`, on a connection that is open, closed, or breaking |
| `Stop`, `DrainEnds`, `Exit` | the shutdown of `main`: `stop()`, `drain()`, cancel and return; the first two only while the consumer awaits (`Settling` excludes the points at which it does not) |
| `Crash`, `Restart` | the container is killed; the kubelet starts another |
| `AckWaitExpires`, `NakDelayEnds`, `Drop` | the server's timers |

`Timely` is an assumption, not code: when TRUE, `ack_wait` never passes for a message a
live worker still holds. Both settings are checked, because nothing in the code
enforces it (5 messages of 3 x 0.2 s fit in 10 s, a slow database does not).
`cut` and `brokenOff` are history variables: the shipments left part-way and the
messages acked after a loop was broken off.

### ShipmentApi

A request is one goroutine: `Receive`, `Refuse` or `Accept`, `Insert` or
`InsertFails`, `Publish`, `Confirm` or `PublishFails`. The event is visible to
consumers from `Publish` on, before `Confirm` answers. `PublishFails` covers the three
things a failed `PublishMsg` can mean: never stored, stored with the PubAck lost, kept
in the reconnect buffer and stored later (`FlushBuffered`). `HangUp` cancels the
request's context, which can fail the insert - committed or not. The publish ignores
the context, as `nats.go` does. `Shutdown`, `ShutdownEnds`, `Crash` and `Restart` are
the life of a replica.

### DeliveryPlatform and ShipmentLifecycle

Every step is a step of one service. Rows and events are fresh per request and nobody
but the handler makes any (`DrawnAssumption`: the shipments and messages of an instance
are those its requests draw). The refinement maps `status` to the row and
`told` to the response code. The abstract lifecycle allows a walk to start over from
PROCESSING: `process_message` replays the whole list on redelivery.

### ApiStartup

`ApiStartup` uses the numbers of the code (30 attempts, 2 s) and of `values.yaml`
(2 s, 3 s, 40) unscaled; only the duration of an attempt is a set.

### WorkerDatabase, WorkerSession, WorkerProcess

The first two hold the state and the actions of one dependency each and say nothing
about when they run; `WorkerProcess` has the position in `main` (`phase`) and puts the
actions where the code calls them: `main` runs `Connect`, then the steps of
`consumer.connect()`, then both tasks run until `main` cancels them.

| Action | Code |
| --- | --- |
| `ConnectDatabase` | `connect_database_with_retry` in `main` |
| `ConnectSession`, `ConnectRaises` | `await consumer.connect()` and its `except` |
| `StartTasks` | the two `create_task` calls |
| `MonitorRuns` | `monitor_database`: ping, close, connect |
| `ConsumerRuns`, `ReconnectRaises`, `ConsumerUpdates`, `StatementRuns` | `start`, its retry branch, the statements of a message |
| `Signal`, `DrainEnds`, `DrainRaises`, `CloseAndExit` | the end of `main` |
| `Kill`, `Restart` | a signal before the handlers exist, the end of the grace period, a crash; the kubelet |

`WorkerDatabase` distinguishes connections that broke (the next statement raises) from
connections that went silent (a statement waits for TCP to give up, because no statement
has a timeout). In `WorkerSession` the client sees a broken connection sooner or later
and reconnects by itself; `nats.connect` may wait forever for a broker that is down;
`pull_subscribe` fails as long as the API has not created the stream. Closing a pool
whose connections fail meanwhile may raise (`CloseRaises`): `monitor_database` does not
catch it, nobody awaits the task before the end of `main`, and from then on the pool is
never rebuilt (`monitor = "dead"`). A drain on a broken
connection raises (`DrainRaises`); with the broker down and nothing noticed yet it may
raise or end (`DrainEnds`). `start` looks at `_psub` only: after a failed subscribe each
retry opens one more connection and forgets the last (`forgotten`), and a subscription
once made is never renewed.
What a message does is `TrackingWorker`'s subject; here it is a statement in flight.

### StagingState and GitOpsPromotion

Commits are numbered, and the digest of an image is the commit it was built from. A
push takes the build concurrency group from the run that holds it and cancels that run,
with the promotion it called. Each commit's run keeps what its matrix jobs left behind
(`todo`, `files`, `outputs`); a rerun takes up all jobs or those that failed, an
artifact may expire in between, and `Collect` accepts exactly the two files of its own
run. A build dispatched by hand takes the group, attests what it builds and promotes
nothing. A promotion carries its pair and the values file of the commit it checked out:
the run's own commit for a build, the head of main for an operator, who may dispatch any
two digests: `gitops-deploy.yml:28-35` takes them as two inputs, and lines 60-82 verify
each alone. `mixed` is a history variable: an operator has asked for digests of two
commits. One promotion runs and one waits, and a new one replaces the one that waits. A
pull request is opened before its checks are dispatched, so a cancellation in between
leaves it without checks. `Merge` is git's merge of the two digest lines: a line only one side changed
is taken, a line both changed differently is a conflict.

Assumed of people and GitHub: a proposal without its checks is not merged; a cancelled
run leaves both groups at once. Production is promoted by the same
workflow, dispatched by hand, and has a file and a group of its own.

`StagingState` is what this owes to the rest: up to the first time an operator asks for a
mixed pair, `main` changes from a pair of one commit to another such pair; after that,
each line of it only changes to the image of some commit. `GitOpsPromotion` implements it
(the property `StagingSpec`), and `StagingDelivery` builds on it, mixed pairs included.

### CanaryRollout and StagingDelivery

Pauses (30 s) and the analysis interval (10 s) are counted in ticks of ten seconds. Each
tick gives each metric a turn. The interval counts from the end of the last measurement,
so a slow query moves those after it: a metric may miss turns, as many as it likes. A
measurement that is due and the end of a pause have no order, so the last one may or may
not fall within a step. What a query answers is chosen at each measurement
from the cases the conditions tell apart: no sample at all, requests but no 5xx series, a
ratio of zero, of at most 1%, of more, or no answer (`unreachable`). No answer is an
error, neither good nor failed: the rollout aborts at the fourth failed measurement of a
metric, and at one error more in a row than `ErrorLimit`, Argo's
`consecutiveErrorLimit`, which the chart leaves at its default of 4.

So the chart promises less than "six good measurements before a promotion":
`AnalysedBeforeStable` counts turns at which the metric did not fail, and a turn may be a
good measurement, an error or one missed. A candidate whose queries err or come late can
be promoted on few good measurements, or on none.
`FailingCandidateIsContained` is about a candidate measured at every turn.

`Sync` is Argo CD applying main; a changed image in the middle of a rollout starts the
steps and the analysis anew. The pods of a candidate are assumed to become available
some time.

## Runs

| Run | Instance | Shows |
| --- | --- | --- |
| `worker_overlap` | two events of one shipment, two workers, not Timely, 2 deliveries, 1 disruption | `TypeOK`, `PartWayIsInFlight`, `AckedIsDelivered`, `FirstDeliveryIsMonotone`, `EventuallySettled`, `EventuallyDelivered` while deliveries overlap and duplicates interleave |
| `worker_timely` | a valid and an undecodable message, two workers, Timely, 2 deliveries, 2 disruptions, 1 shutdown | `SingleHolder`, `OrderlyProgression`, `EventuallySettled`, `EventuallyDelivered` |
| `api_create` | three requests (one malformed), two replicas, 1 fault | `TypeOK`, `CreatedIsStoredAndPublished`, `EventHasRow`, `OrphanIsReported`, `EventuallyFinished` |
| `platform` | two requests (one invalid), one replica, two workers, 1 fault on each side | `NoUpdateWithoutRow`, `ProgressHasCause`, the refinement `ImplementsLifecycle`, `CreatedIsDelivered` |
| `startup_budget` | the numbers of the repository, attempts that fail at once | `TypeOK`, `NotKilledWhileRetrying`, `GivesUpOnlyAfterBudget` |
| `worker_process` | two outages of each dependency, a stream that may appear late, two signals or kills | `TypeOK`, `NoPoolDroppedInUse`, `NoConnectionForgotten`, `OutageIsNoticed`, `BrokerOutageIsNoticed`, `ReadyAgain`, `ShutdownEnds` |
| `promotion` | two pushes, two reruns or dispatched builds, one manual promotion of any two digests, one lost artifact | `TypeOK`, `PairFromOneCommit`, `MainIsAttested`, `AutomaticPromotionAdvances`, the refinement `StagingSpec`, `NoRunIsStuck` |
| `canary` | merges of two commits, mixed ones included, at any moment, every result of both queries, errors of the success-rate query | `TypeOK`, `FailingCandidateIsContained`, `AnalysedBeforeStable`, `StagingSettles` |

Four runs show a disagreement between the code and what the repository says of it:

| Run | Said | Shown |
| --- | --- | --- |
| `worker_regresses` | `docs/BEGINNER_GUIDE.md:79`: updates are conditional on the preceding state | while a slow worker that wrote IN_TRANSIT still holds the message, its redelivery to another worker takes the shipment back to PROCESSING |
| `worker_ack_cut_short` | `consumer.py:154`: ack upon complete progression | a shutdown arrives during the first update, the loop breaks at its second round, and the message is acked with the shipment PROCESSING |
| `startup_slow_connect` | `tests/contract/test_helm_rollout_contract.py:188`: the kubelet must not restart the API while it retries | attempts of one second suffice for that |
| `canary_clean` | `docs/GITOPS.md:38`: the analysis asks for at most 1% of 5xx | a candidate that never answered a 5xx has no series to divide, the empty result fails, and the rollout is aborted; `tests/contract/test_helm_rollout_contract.py:103` rules out the usual way to make it a zero |

Four more disagreements are visible in the models without a run of their own.
Undecodable bytes and JSON that is no object are naked until given up, where
`docs/BEGINNER_GUIDE.md:81` says malformed events are acknowledged (`AfterDecode`; the
theorems cover any payload). Three restarts spend the deliveries of a prefetched event
that no worker looked at, where `docs/BEGINNER_GUIDE.md:71` says restarts need no
republishing (this is why `EventuallyDelivered` counts shutdowns). A fourth failed
measurement aborts a canary, where `docs/GITOPS.md:41` says three do (`FailureLimit`).
An exception out of the pool's `close()` leaves a worker whose pool is never rebuilt,
where the docstring at `main.py:53` says the monitor rebuilds a failed pool
(`CloseRaises`; this is what `ReadyAgain` excuses, and nothing else).

### Bounds

- Two workers and two or three messages are enough for every interplay the code has: a
  worker interacts with others only through one message's state and one row.
- `MaxDeliver` is 2 (3 in the code, and in the violation runs): one redelivery is what
  overlaps, and `EventuallyDelivered` is stated relative to it, so 2 disruptions
  against 2 deliveries reach the boundary from both sides.
- `BatchSize` is 1 or 2 instead of 5: with 2 a message waits behind another in a batch.
- `MaxDisruptions`, `MaxStops`, `MaxApiFaults`, `MaxOutages`, `MaxBrokerOutages`,
  `MaxEnds` bound how often the environment interferes; no property depends on their
  being reached, and the theorems hold for all values. Two outages of each dependency
  let one begin while the worker still recovers from the other.
- `MaxForgotten` is where the count of forgotten connections saturates; the property is
  about the steps that change it.
- `MaxPushes` is 2: the promotions' hazards are about an older and a newer build, and
  what staging ran before is a third pair; with one manual promotion there are mixed pairs
  of both kinds, and builds that are promoted after them. `MaxReruns`, `MaxManual` and
  `MaxExpired` bound people; two reruns let an old build return after a newer one and
  back.
- `Enough` is 9 turns, as many as the three pauses hold; larger counts are not told
  apart.
- `ErrorLimit` is 1 for TLC and any number in the proofs: a row of errors within the
  limit, one beyond it and one that an answer breaks all happen. In `canary` only the
  success-rate query errs; the model treats both metrics alike.

### Fairness

Weak fairness only, on what the platform does by itself: an asyncio task that is ready
runs, a handler goroutine runs, a shutdown in progress ends, the kubelet restarts a
container that is down, the server's timers fire, the NATS client reconnects, the
kernel gives up on a silent connection; workflow jobs and steps that are due run; Argo CD
syncs, ten seconds pass, and the pods of a candidate become available. Publishing,
requests, shutdowns, hang-ups, faults, outages, the recovery of a dependency, pushes,
reviews and merges are never assumed, nor that `nats.connect` gives up on a broker that
is down: `ReadyAgain` and `StagingSettles` carry what they need as a premise. The steps of one
message in one worker share one fairness condition: between fetch and settlement
exactly one of them is enabled.

## Proofs

`TrackingWorkerProofs` proves, for every number of workers, messages and shipments,
both settings of `Timely`, any payloads, any bounds:

- `TypeCorrect`: `Spec => []TypeInv`, by induction over the actions, and its corollary
  `WellTyped`: `Spec => []TypeOK`;
- `SafetyInvariant`: `Spec => []IInv`;
- `PartWayOnlyInFlight`: `Spec => []PartWayIsInFlight`;
- `AckedMeansDelivered`: `Spec => []AckedIsDelivered`.

Assumptions: those the modules name about their constants, nothing else.
`PartWayIsInFlight` is not inductive by itself. `IInv` adds that the program counter
agrees with the message in hand (`ProcessShape`: a worker between messages holds none,
one in the loop holds a valid event within the lifecycle, one about to ack a valid
event completed the loop or broke it off), that a worker past its first update left the
row out of PLACED (`BegunIsWritten`), and that so did an acked delivery
(`AckedIsWritten`). The argument is about the last writer of a row: `Update` is the
only step that writes, the writer itself is the witness until it writes again, and each
way to leave the loop early (break, failure, crash) records the shipment in `cut`.
`AckedIsDelivered` then follows: an acked event's row is not PLACED, so it is DELIVERED
or part-way, and part-way means in flight. Steps are grouped by what they write:
updates, failed updates, other worker steps, server steps.

`TrackingWorkerOrderProofs` builds on these facts:

- `HoldersCorrect`: `Spec => []HolderInv`, who may hold a message. If `ack_wait`
  outlasts every batch (`TimelyHolder`), or the message is in its first delivery
  (`FirstHolder`, which needs no timing), it has one holder. The argument: only a
  fetch hands a message out, it takes `due` or fresh messages only, and each handing
  out is counted. `OneHolder` (`SingleHolder`) follows;
- `OrderCorrect`: `Spec => []OrderInv`. With one holder and one event per shipment,
  the row is where the holder's position in the loop says: in a first pass
  (`FirstPass`) and in a timely replay (`InStep`);
- `FirstDeliveryMonotone` (`FirstDeliveryIsMonotone`) and `OrderlyUpdates`
  (`OrderlyProgression`) are read off the one step that writes, `Update` or a
  committed `UpdateFails`.

`ShipmentApiProofs` proves, for every number of requests and replicas, any bodies and
any number of faults: `TypeCorrect`, `SafetyInvariant` (`Spec => []IInv`),
`CreatedMeansStoredAndPublished`, `EventFollowsRow`, `OrphansAreReported`. `IInv`
strengthens the properties by `RequestShape`: the phase a handler is in says which of
its two writes were made, and a buffered publish belongs to a request that is over
and was not told 201.

`DeliveryPlatformProofs` proves of the two services together, for every number of
replicas, workers, requests, faults, stops and deliveries: `SafetyInvariant`,
`UpdatesFindTheirRow` (`NoUpdateWithoutRow`), `ProgressIsCaused` (`ProgressHasCause`),
and, for `Timely`, `PlatformImplementsLifecycle` (`ImplementsLifecycle`). Assumptions:
`DrawnAssumption` and that `NoMessage` is no message. The proof is by what one service
may do to the other: an API step inserts at most one row a handler waits for and stores
at most one event whose row exists (`ApiEffect`); a worker step creates and deletes
neither row nor event (`WorkerEffect`). The first preserves what workers know, because
nobody holds an event of a row that is not there yet (`ProgressHasRow`); the second
preserves what requests know. `IInv` has one part per side (`RequestInv` with
`FailedInsertIsSilent`; `HandInv`, `OneHand`) and two that tie them together
(`BegunIsPublished`: a row leaves PLACED through its event; `RowFollows`: under
`Timely`, a worker past its first update finds the row as it left it). The refinement is
read off these: an insert is `Create`, an answer is `ConfirmCreated` or
`ReportFailure`, a failing insert may be both at once, an update is `Advance`, at the
first status `StartOver` or a stutter, and everything else is a stutter. `Timely` is
needed: without it a slow worker writes IN_TRANSIT over DELIVERED.

`GitOpsPromotionProofs` proves, for every number of pushes, reruns, manual promotions
and lost artifacts: `TypeCorrect`, `OnePairOneCommit` (`PairFromOneCommit`),
`DesiredIsAttested` (`MainIsAttested`), `BuildsOnlyAdvance`
(`AutomaticPromotionAdvances`) and `PromotionImplementsStaging` (`StagingSpec`).
An operator's digests are free in all of them. The inductive invariant says what a
promotion can carry: the outputs of a run are nothing or its own pair (`BuildShape`), the
digests in the tree of a commit are older than the commit, and those of a build's base
older than the build (`TreeShape`, and `Sound` in `GroupShape` and `ProposalShape`),
what was opened is attested, and as long as nobody mixed (`MixedStays`), all pairs, bases
and trees are whole. Two lemmas are about git's merge: it takes each line from one of
the two sides (`MergeTakesLines`), and of whole sides it makes a whole (`MergeIsWhole`).
`BuildsOnlyAdvance` does not need whole pairs: a build's pair differs from its
base in both lines, so a merge that does not conflict finds on each line the base, which
is older, or the pair itself.

`WorkerProcessProofs` proves, for any number of outages, signals, kills and restarts:
`TypeCorrect`, `PoolOutlivesStatements` (`NoPoolDroppedInUse`) and
`ConnectionsAreKept` (`NoConnectionForgotten`). What has to be added is
`SubscribedStays`: the consumer is in the connecting branch of `start` only while there
is no subscription. The lemmas follow the modules: what each group of actions of
`WorkerDatabase` and `WorkerSession` keeps is stated once and used by every action of
`main` that calls it.

`ApiStartupProofs` proves, for all numbers of attempts, delays, attempt durations and
probe settings: `TypeCorrect`, `NoEarlyGivingUp` (`GivesUpOnlyAfterBudget`) and
`WindowOutlastsRetries`: `NotKilledWhileRetrying` holds if no attempt takes longer than
`slowest` and two budgets of such attempts end before the probe failure that kills
(`2 * Budget(slowest) < ProbeWindow`). The repository's numbers satisfy it for attempts
that answer or are refused at once, 116 s against 119 s, and for no slower ones (176 s
for one second), which is what `startup_slow_connect` shows. The invariants count time:
`SleptBefore` from below, `WithinBudget` from above.

`StagingDeliveryProofs` proves, for any number of merges in the middle of rollouts and
whatever the measurements find, are in error or too late: `TypeCorrect`,
`FailingIsContained` (`FailingCandidateIsContained`) and `StableWasAnalysed`
(`AnalysedBeforeStable`). Steps, pauses and the failure limit are the chart's numbers;
the limit of errors is any number. The invariant (`Measured`) is that the turns keep up
with the steps: one before the first pause and one for each tick of the pauses since, the
one that is still open included (`OneTurnMore`, `MeasureCounts`). A rollout that is past
the second step has had more turns than failures are tolerated, and one that is promoted
nine, of which at most three failed.

Where TLC comes in: each inductive invariant was checked on the run of its component
before it was proved, that of `DeliveryPlatform` also without `Timely` and with a
shutdown.

Only model-checked, because liveness under fairness is out of the prover's reach:
`EventuallySettled`, `EventuallyDelivered`, `EventuallyFinished`, `CreatedIsDelivered`,
`OutageIsNoticed`, `BrokerOutageIsNoticed`, `ReadyAgain`, `ShutdownEnds`,
`NoRunIsStuck` and `StagingSettles`. Every invariant and every action property of the
passing runs is a theorem, and so are both refinements, of `ShipmentLifecycle` and of
`StagingState`.

## Not modelled

The API's read-only handlers (get, list, ready), configuration, metrics, logging and
middleware change no state the properties could see. The listing echoes a limit its
repository clamps (in the list of hazards) and pages by OFFSET over a growing table;
nothing in the repository promises more. The chart beyond the Rollout, its
analysis and the startup probe, the policies, the other Argo CD applications,
observability and compose files are declarations interpreted by external systems; the
report scripts format text. Not in the models of components that are there: the 24 h
retention of the stream, deletion of the stream or the durable consumer, rebuilds of a
commit as digests of their own, tag builds,
conflicts in other parts of the values file, the manual commands of Argo Rollouts, and
samples of a measurement's window that are not the candidate's.

## Plan

Done: the modules and proofs above. Every component with state and control of its own
is modelled, and every safety property the runs check is proved. What could follow:

1. `EventuallyDelivered` rests on the delivery budget; the safety half of it - a settled
   event of an undelivered shipment was given up after `MaxDeliver` deliveries, each of
   which a disruption or a stop ended - can be stated with a history of endings and
   proved.
2. The same for `StagingSettles`: that a rollout that is over and healthy runs what main
   says is a state property once Argo CD's last sync is related to main.
3. Lemmas about the operators of `DeliveryStream` on their own, for use by a model with
   retention or with several consumers.
