# A TLA+ development for the DBHP benchmarking platform

The platform lets contestants upload a trading engine, builds it, runs it in a
sandbox under a fleet of trading bots, measures it and ranks it. This directory
holds TLA+ specifications of its parts, the TLC configurations that check them
on small instances, and TLAPS proofs. All paths below are relative to the
repository; line numbers are in `PROJECT.json` ("map").

## 1. Inventory of the system

| Part | State | Operations | What makes it hard |
|---|---|---|---|
| Control plane, benchmark runs (`services/control-plane-api/internal/benchmark`) | `benchmark_runs`, `benchmark_run_audit` | `CreateRun`, `CancelRun`, `TransitionState` | concurrent gRPC handlers, a count outside the transaction, row locks, rollback |
| Control plane, contestants and tokens (`.../contestant`, `.../middleware`) | `contestants`, `api_tokens` | register, issue, revoke | revocation racing a request that has been authenticated |
| Submission engine (`services/submission-engine`) | Redis rate-limit keys, artifact registry, `submissions` | `Upload`, status query | concurrent uploads, late scripts, three systems without a transaction |
| Build pipeline (`services/build-pipeline`) | `submissions.status`, Kubernetes Jobs, image registry | watcher, spawner, executor, publisher | polling, restarts, calls that take effect and yet report failure |
| Reference matching engine (`libs/rme`) | order book, cancel index | limit, market, cancel, snapshot | two structures that must agree, inverted keys, loops |
| Sandbox controller (`services/sandbox-controller`) | pods, overlay networks, endpoint registry | reconcile, crash, lifetime, health | concurrent reconciliation, timeouts, cleanup after failure |
| Bot fleet manager (`services/bot-fleet-manager`) | fleet records, pods, heartbeats | schedule, provision, release, stop | partial creation, timeouts, stale records, capacity |
| Telemetry ingester (`services/telemetry-ingester`) | offsets, channels, windows, tables | consume, process, publish | crash after commit, redelivery, bounded channels |
| Leaderboard (`services/leaderboard-service`) | standings in Redis, hub clients | score, publish, fan out, stream | slow clients, shutdown, a channel shared by streams |
| Frontend hooks (`services/leaderboard-frontend/src/hooks`) | connection, standings | reconnect, merge | reordered messages around a reconnection |

How they interact: the submission engine and the build pipeline share the
`submissions` table (one inserts `UPLOADED` rows, the other polls for them) and
the registries; the control plane's `TransitionState` is the call by which the
others report the progress of a run; sandbox controller and bot fleet manager
share the endpoint registry; bots and sandboxes write to Kafka, which the
telemetry ingester reads; its metrics reach the leaderboard through Redis.
Several wirings do not exist yet in the code: `sandbox-controller/main.go` does
not start its reconciler, `build-pipeline/main.go` does not start the executor,
and the telemetry ingester has no Kafka reader. The modules model the packages
as they are written, and say where a caller is assumed.

What makes each part correct:

* runs: the status moves only along `allowedTransitions`, terminal is final, the
  audit trail and the status never disagree, the number of live runs is bounded;
* matching: price-time priority, conservation of quantity, an uncrossed book, an
  index that agrees with the queues;
* uploads: no more than five per rolling hour, and no id without an artifact;
* builds: one Job per submission, no status going backwards, no `BUILT` without
  an image, every upload picked up;
* sandboxes and fleets: nothing leaked or released while in use, capacity
  respected, one final status for a run;
* telemetry and leaderboard: nothing lost or counted twice, standings that only
  rise, clients that are always released.

`PROJECT.json` lists the hazards behind these sentences, each at its line.

## 2. Modules

| Module | Models | Checked by |
|---|---|---|
| `RunStatus` | statuses and `allowedTransitions` | (used by the next two) |
| `RunLifecycle` | abstract: a run moves and is audited in one step | refined by `BenchmarkRuns` |
| `BenchmarkRuns` | the run service, one SQL statement per step | `runs` |
| `Orders` | events, fills and rejections of the matching engine | (used by the next two) |
| `PriceTimeBook` | abstract: a set of orders, priority as a relation | refined by `MatchingEngine` |
| `MatchingEngine` | levels, queues, cancel index, loops | `engine` |
| `Artifacts` | what is uploaded, as the validator and the executor look at it (operators) | (used by the next two) |
| `UploadGate` | the upload handler and its rate limiter | `upload`, `submissions` |
| `BuildPipeline` | watcher, spawner, Jobs | `submissions` |
| `SubmissionPipeline` | the two composed over the `submissions` table | `submissions` |
| `Telemetry` | the telemetry ingester | `telemetry`, `telemetry_lost` |
| `ScoreHub` | the WebSocket hub and its connections | `hub` |
| `Leaderboard` | standings, snapshot, hub and a browser's hook, composed | `leaderboard` |
| `SandboxReconciler` | the reconcile loop, overlays, pods, endpoint registry, prober | `sandbox` |
| `SandboxSupervisors` | pod watcher, crash handler, lifetime enforcer, health checker | `supervisors` |
| `Scheduler` | the placement of bots on nodes and their scenarios | `schedule` |
| `BotFleet` | provisioning, release and shutdown of fleets, their store and pods | `fleet` |

Proofs stand in modules of their own: `BenchmarkRuns_proofs`,
`MatchingEngine_proofs`, `UploadGate_proofs`, `BuildPipeline_proofs`,
`SubmissionPipeline_proofs`, `SandboxReconciler_proofs` (also
`SandboxSupervisors`), `BotFleet_proofs` (also `Scheduler`) and
`Leaderboard_proofs` (also `ScoreHub` and `Telemetry`). Where one of them is
about two modules that share no state, these have different names for their
initial states, actions and types (`SchedulerInit`, `SupervisorsNext`,
`TelemetrySpec` and so on), so that both can be extended.

`MC*` modules only give constants their values and number interchangeable
requests. Operators commented "Mutant of ..." or "Slip" are faulty variants of an
operator; no specification uses them. They stand beside the operator to record
which mistake each property would catch ("mutants" in `PROJECT.json`).

### BenchmarkRuns

A handler serves one call at a time; its program counter is the next SQL
statement. A transaction's writes become visible at its commit, so the model
keeps them in the handler until then, and `Abort` (a failed statement, a
cancelled context, a dead process) discards them. `SELECT ... FOR UPDATE` is
`LockRow`: it waits for the lock and reads the last committed status.
`CountRuns` is outside the transaction, as in the code. `RunIds` bounds the runs
ever created; the fresh id is picked at the start of `CreateRun`, which is
equivalent as nobody else can know it. Columns without influence on any guard
(bot count, scores, actor) are left out.

### MatchingEngine

One step is one iteration of a matching loop. `MaxPrice` stands for `u64::MAX`,
so the inversion of the bid keys is exact. `fill_against_ask` and
`fill_against_bid` are one pair of actions parameterised by the side. `placed`,
`filled`, `clock` and `time` are history. Order ids are unique, as `lib.rs`
requires, and `seq_num` is left out: the comments say that it decides time
priority, but no matching code reads it and the priority is that of arrival.

### UploadGate

One step is one external call: read the clock, run the Lua script, validate,
push, insert. A request carries any artifact of `Uploadable`: a size class, its
first bytes, the entries of the archive, and whether it matches the checksum its
uploader sent; `ValidateArtifact` of module `Artifacts` accepts it or names the
error, and so the status of the answer. Every call may fail, before or after it
took effect, and the engine may die between any two steps. The registry writes
to a file, so a failed or interrupted push leaves the artifact, a part of it or
nothing (`StorePart`). `Tick`
lets time pass, but no more than `MaxDelay` between a request's clock reading
and its script. `RollingWindow` is therefore stated for windows shortened by
that delay: a late script prunes by its own, older time, but others have already
pruned by theirs, so the full window can be exceeded by requests that were
delayed between the two. `blobs` is keyed by the request id, as in the code
(the comment that it is overwritten by the submission id does not hold).

### BuildPipeline

The watcher's poll is split at every database and Kubernetes call. There is one
watcher (one container per service in `docker-compose.yml`), and it may be
restarted at any point. A Job goes from `pending` through `compile`, `publish`
and `store` to the verdict it then writes, and Kubernetes may kill it anywhere.
The Job's stages are package `executor` with package `publisher` as its
publisher. Jobs are never deleted by the code, so a second Job of the same name
is refused. `StatusSettles` says when a status may change at all: never once the Job
has ended and the poll is done with the row (`Settled`), and otherwise only forward,
except that the watcher's `BUILD_INFRASTRUCTURE_ERROR` and the verdict of a Job that
was created although `Jobs.Create` failed replace one another. `DetectManifest` of `Artifacts` decides whether a Job can compile: it
looks at the top of the extracted directory, where the validator also looked one
level deeper and did not take directories for files. The extraction is not in the
repository and is taken to keep the paths. An ELF binary has no entries, so the
executor finds no manifest and the build fails. By itself the module has the
submission engine as its environment (`StoreArtifact`, `Arrive`);
`SubmissionPipeline` shows that the upload handler behaves so
(`ImplementsBuildPipeline`).

### Telemetry

One partition and its consumer. A fetch, a dispatch and a commit are three steps
of `Consumer.Run`; a send to a full channel waits, as in the code. The processor
(an anonymous goroutine of `main.go`) puts an event into both windows with one
reading of the clock, which is one step here, then inserts the row and, for an
event with an error code, calls `RecordError`; each statement may fail, and is
then not repeated. `RecordError` writes the bot id `error-recorder` into a UUID
column and so never adds a row. `RestartIngester` stands for a crash and for SIGTERM with
a new start: both lose the channels and the windows and go on from the committed
offset. The published values are not state: `Snapshot` (the filtered copy), `SortedValues`,
`percentileAt` and `MaxTPS` are operators of the windows, and `MetricsAreExact`
compares them with the windows themselves in every state, hence whenever the ticker
fires. `Snapshot` is a recursive function and `SortedValues` an ascending
rearrangement, so that they can be proved about. Seconds are the unit of time. The optional
database is taken to be configured. `main.go` does not call `Consumer.Run` (no
Kafka reader is injected); the module models the package as it would be called.

### ScoreHub and Leaderboard

`ScoreHub` has one step per case of the hub's `select`, and the goroutine of each
connection with its program counter: `register` and `unregister` are rendezvous
on unbuffered channels, so a writer in one of them waits for the hub. A write has
no deadline, so nothing makes it return (`WriteMessage` has no fairness), and
only a failing write tells the writer that its peer is gone (`conn` is then
`lost`). After the hub has stopped, writers wait for it until the process ends;
`Restart` ends the process and starts another. By itself the module numbers the
messages; it also has `wire` and `read`, what was written to the socket and how
much of it the peer has read.

`Leaderboard` extends it with the sorted set, the snapshot request and the hook
`useLeaderboard`: several requests, one socket or timer. `Accept` is the server's
upgrade, `OnOpen` the browser's event, and the hub registers the connection at
its own time between or after them. Connections that the browser does not use may
belong to strangers. Nothing in the repository calls `UpdateStanding` and
`Broadcast`; the model takes a scorer that calls them in this order and
broadcasts the standing. The browser asks for `/api/v1/leaderboard/ws` and flat
messages, the service serves `/v1/ws/leaderboard` and documents nested ones: the
model takes them to be connected. React's double mounting in development is left
out.

### SandboxReconciler

A call of `Reconcile` is a program counter per run; every call it makes to
Kubernetes or Redis is a step, which may fail without effect, or take effect and
lose its answer (`Fails`). `NotFound` on a deletion and `AlreadyExists` for an
overlay are successes, as in the code; `AlreadyExists` for the pod is an error.
An address is the ordinal of the pod that has it, so the endpoints of a pod and
of its successor can be told apart. `answered` and `failed` are history. External
are the pods' fates, the caller, which serialises the calls for one sandbox and
writes the returned status back (or loses it), and restarts. `Served` is
`GetSandboxEndpoints`. Resource limits, security contexts and CIDRs are left out.

### SandboxSupervisors

Four goroutines of package `controller` over one running sandbox and one context:
`WatchPod`, `HandleCrash`, `EnforceLifetime`, `HealthChecker.Run`. Timers may fire
at any time, since no property depends on how long the intervals are. The release
that `HandleCrash` starts and the collection that `EnforceLifetime` starts run in
goroutines of their own, which may never return. `SendEvent` hands a `CRASHED`
event to the owner, whom the model takes to call `HandleCrash` at once; nothing in
the repository does so yet. `ReleaseResources` of the enforcer is called without
a deadline, so the enforcer itself need not return.

### Scheduler

`Schedule` is a function; it is modelled as its loops run, one bot or one
skipped node per step, then one scenario's turn per step, so that the
bookkeeping of the loops is state (`turn` counts the iterations of the
interleaving, five to a round). Every order of nodes with equal loads and every
choice among equal remainders is possible, as `sort.Slice` is not stable.
Weights are natural numbers where the code has floats. Node names and bot ids
are positions. The properties hold for the loads the request states; the caller
(`grpc/server.go`) states 0 for every node, so two fleets placed side by side
can exceed what a node takes, which no property here contradicts.

### BotFleet

A call of `ProvisionFleet` and of `StopFleet` is a program counter; each call it
makes to Kubernetes or to the store is a step. A `Create` fails with or without
effect, a `Delete` of a release may fail and is only logged, and a context that
has ended makes calls fail without effect: the client's for the deployment and
for the release after a failed `Create`, the release's own after a timeout. So a
client that goes away while pods are created leaves them behind. Pods become
ready and go at their leisure or never. `Restart` forgets the store and the calls
but not the pods. Receiving, listing nodes and scheduling are one step, as they
share nothing; events sent to the client change nothing. `alone` and `quiet` are
history: they exclude calls that overlap with another for their run, since the
code serialises nothing there. Two such calls share a record, and pods are named
by eight characters of the run id, so runs whose ids begin alike share the pods'
names: both are in the instance, and the properties say what remains true.
`main.go` registers no gRPC service; the module models the package.

## 3. Runs and what they show

| Run | Instance | Shows |
|---|---|---|
| `runs` | 3 runs of a contestant, 2 handlers, limit 1, three statuses asked for | every pair of concurrent creations, transitions and cancellations, with rollback at every statement; the limit is overshot by less than the number of handlers |
| `engine` | 4 orders, prices 0 and 1, quantities up to 2 | every sequence of orders and cancellations, refinement of the abstract book, termination |
| `upload` | 4 requests of a contestant, 2 per window of 2, delay 1, time up to 3; a valid artifact and one for each reason to refuse it | rate limit and answers under racing, late and failing calls |
| `submissions` | 2 submissions, batch of 2; artifacts with the manifest at the top, one level down and too deep, one corrupt, one too large | the watcher, the Jobs and the handler with all failures and restarts |
| `telemetry` | 3 messages (2 events, fills, garbage), channels of 1, windows of 1 and 2 s, time up to 2 | commits, windows, percentiles and progress under full channels, failed commits and restarts |
| `telemetry_lost` | 2 messages | **violation**: a committed event is lost |
| `hub` | 2 clients, 4 messages, queues of 1 | no panic, no uncounted loss, no stuck publisher or connection |
| `leaderboard` | 1 contestant with scores up to 2, 1 connection, 1 request in flight | the table under every order of snapshots, messages, lost connections, restarts and unmounting |
| `sandbox` | 2 runs of one submission, one with two protocols, one with none; 2 pods in turn; 2 failing calls or restarts | isolation, clean-up and served endpoints under every interleaving of the two reconciliations and the pods' fates |
| `supervisors` | one sandbox, 3 failed probes | every race of watcher, crash, expiry, health check and cancellation |
| `schedule` | up to 3 nodes, loads and capacities up to 2 (or 3 by default), fleets of 0, 3 and 4 bots, 4 distributions | fleets are refused only when they do not fit, loads levelled after every bot, exact shares |
| `fleet` | 2 provisionings of runs of 2 and 1 bots with names in common, 1 stop, 1 restart | what callers were told agrees with the cluster, nothing left of fleets given up or stopped, every call returns |

Why the bounds are enough. Runs of different ids meet only in the count, and
three of them against a limit of one fill it, overshoot it and are refused. Two
handlers show every pairwise race; the three statuses make paths of up to four
rows, with refused and accepted moves in each status; the proofs cover all
statuses and any number of runs and handlers. Two prices and two quantities let an
order sweep two levels, be filled partly or wholly, and rest; four orders let two
queue at one price, a third trade with them and a fourth see the result. The
order of ids is fixed and only the first order may have quantity 0
(`MCMatchingEngine`), which loses no behaviour but renamings and repetitions of
an order that has no effect. Four uploads against a limit of two let a window
fill, expire and be refilled by a late script. Two submissions let one of a
batch change while the other is processed. Three messages through channels of
one place make every channel full while another message is at hand, and two
latencies over three samples separate the ranks from their neighbours. Four
messages are what it takes to fill a writer's hand, its queue, the hub's queue
and the publisher's; two clients, to see one of them slow and the other not. A
browser has one connection at a time, so one is enough for it, with a stranger
taking it in between. Two runs of one submission compete for the pod's name,
runs of different submissions share nothing; two pods in turn make an address
stale, and two faults let a clean-up fail after the call it cleans up for. Three
nodes make one full, one ahead and one behind at the same time, and four bots go
round them once and begin again; the weights leave remainders that are equal
or zero, and more of them than slots to fill. Two provisionings are one after the other or
side by side, for one run or for runs whose ids begin alike; a fleet of two can
fail half deployed; one stop meets either.

Types are checked together with the bookkeeping they belong to, as a conjunct of a
named invariant (`BookConsistent`, `BuildsConsistent`, `OffsetsConsistent`,
`PageConsistent`, `ClusterConsistent`, `SupervisionConsistent`,
`PlacementConsistent`, `FleetsConsistent`); those of `UploadGate` are part of
`BuildsConsistent` and those of `ScoreHub` of `PageConsistent`, in the modules
composed from them.

Deadlock is checked except where the instance really ends: the clock of `upload`
and `submissions` stops at `MaxTime`, a build pipeline without new submissions
comes to rest, sandboxes and their supervisors come to an end, `Schedule` returns,
and so do the calls of `fleet`.

### Fairness

* `runs`: strong fairness of each handler's steps. PostgreSQL answers
  statements and serves the waiters of a row lock in order; strong, as a waiter
  is enabled only between other holders. Nothing makes calls arrive.
* `engine`: weak fairness of the matching step, which is a plain loop.
* `submissions`: the ticker keeps firing (`Poll`), a watcher
  that is up goes on (`Watch`), the database accepts the update to `BUILDING`
  again and again and so does so in the end (strong fairness of `markBuilding`,
  as restarts and failures interrupt it), a pod that runs goes on (`Execute`) and
  `activeDeadlineSeconds` ends a Job that does not (`KillJob`). Kubernetes is not
  obliged to start a pod, and uploads are not obliged to arrive or to proceed.
* `telemetry`: weak fairness of fetching, of the processor and of the fill drain,
  which are loops of their own goroutines; strong fairness of the dispatch and of
  the commit, as restarts interrupt both: the process lives long enough, again
  and again, to finish a dispatch and to have a commit accepted. Nothing makes
  the clock, the ticker or the producers go on.
* `hub`, `leaderboard`: weak fairness of every case of the hub's `select` (the
  runtime picks among ready cases at random), of the writers except in a write,
  of a `Broadcast` the channel can take, of the browser's timer, and of the end of
  a process that was told to stop. Nothing makes a peer read or go away.
* `supervisors`: weak fairness of what a deadline or a ticker brings about: the
  wait for the release (30 s) and for the collection (60 s), the stop (35 s), the
  probes; of the calls that follow, `UpdateRunStatus` being taken to return. The
  release and collection goroutines, the container and the owner have none.
* `fleet`: weak fairness of the steps of a call (`ProvisionFleet`,
  `ShutdownFleet`): both waits have a deadline, and a request to Kubernetes is
  answered or fails. Pods need not become ready nor go when they are deleted, and
  clients need not leave.

### What the violation says

`AtLeastOnce`: `consumer.go:144-145` promises at-least-once delivery. The offset
is committed when the event is in a channel in memory; a process that ends then
has neither stored it nor will read it again. `OffsetsConsistent` says what does
hold.

Met while modelling, without a run of its own: `service.go:26-27` and
`status.go:104-106` promise at most three live runs, but `CreateRun` counts before
its transaction begins, so concurrent calls are all admitted (`OvershootBounded`
is what does hold); `reconciler.go:28` creates the overlay before the pod, but
pods are named by submission and overlays by run, so the second of two runs of a
submission finds a pod, adopts its phase and address and never gets an overlay
(`IsolatedOnceAcknowledged` is what does hold: the run the pod was made for keeps
its); `ReleaseFleet` sets `TERMINATED` after its caller set `TIMEOUT`, so the
store no longer tells why the fleet went (`PhaseTellsOutcome` states it as it is);
`scorer.go:3-11` gives a zero to runs that ended badly, but its list of statuses
lacks `NETWORK_SETUP_FAILED`, `COLLECTION_TIMEOUT` and `FAILED` of `status.go`;
`service.go:247-248` says that terminal
failures are accepted from any live status, but `allowedTransitions` decides, and
e.g. a crash reported while the run is `COLLECTING` is refused; `job_watcher.go:4-5`
promises `BUILD_INFRASTRUCTURE_ERROR` for a pod that does not start within 60
seconds, but `WatchBuildJob` is called by tests only and the submission stays
`BUILDING`; `useLeaderboard.ts:35-36` promises an always-current table, but the
snapshot is not fetched again when the first connection opens, so a score that was
stored after the snapshot was read and broadcast before the hub registered the
connection is missed; `watcher.go:18-20` exempts requested stops from `CRASHED`, but
only the reason `Completed` is exempted, so a container that exits with an error
after SIGTERM is reported as a crash; a probe that is cut off by its context counts
as a failed one (`healthcheck.go:89-91`), so a cancelled check may still report the
sandbox unhealthy; `started_at` and `completed_at` are never
written (`V3__create_benchmark_runs.sql:29-30`); a Job whose creation reported an
error may still run, and its verdict and the watcher's `BUILD_INFRASTRUCTURE_ERROR`
replace one another in whichever order they are written: a submission may have been
`BUILT` before, or become so after, a status that says its container did not start
(`status.go:31-33`), and neither `executor.go:100`'s "final build status" nor the one of
`job_spawner.go:68` is final then (`StatusSettles` is what does hold: it happens once,
and nothing changes afterwards); a watcher that dies between marking and spawning leaves the submission
`BUILDING`; an archive with its manifest one directory down passes validation
(`artifact.go`, `isRootManifest`) and then fails to build (`manifest.go`);
`seq_num` is documented as the time priority of orders and read by no matching
code; the telemetry ticker publishes under the constant run id `active-run`, and
an empty window as a p99 of 0; `RecordError` cannot insert its row.

## 4. Proofs

The theorems below hold for every value of the constants that satisfies the
assumptions named in each module. `Spec => []P` is written as P.

| Module | Theorem | What it proves |
|---|---|---|
| `BenchmarkRuns_proofs` | `TypeCorrect`, `AuditCorrect`, `OvershootCorrect` | `TypeOK`, `AuditExplainsStatus`, `OvershootBounded` |
| | `TerminalFinality` | `TerminalIsFinal` (action property) |
| | `Refinement` | `ImplementsLifecycle` |
| | `NoHandlerStuck` | a call in progress proceeds, or waits for the row lock of a call that does |
| `MatchingEngine_proofs` | `AlwaysSafe`, `BookAlwaysConsistent` | its invariant; `BookConsistent` |
| | `EngineImplementsPriceTimeBook` | `ImplementsPriceTimeBook` |
| | `SnapshotAlwaysMatchesLedger` | `SnapshotMatchesLedger` |
| | `MatchingAlwaysAdvances` | matching has a next step, and each one ends it or lowers the quantity |
| `UploadGate_proofs` | `AlwaysSafe`, `LimitHolds`, `AnswersAlwaysTrue` | its invariant; `RollingWindow`, `AnswersAreTrue` |
| `BuildPipeline_proofs` | (lemmas) | the pipeline's invariant is kept by each of its steps |
| `SubmissionPipeline_proofs` | `AlwaysSafe`, `BuildsAlwaysConsistent`, `BuiltAlwaysHasImage`, `BuiltAlwaysFromManifest` | both invariants together; `BuildsConsistent`, `BuiltHasImage`, `BuiltFromManifest` |
| | `StatusAlwaysSettles` | `StatusSettles` (action property) |
| | `HandlerFeedsPipeline` | `ImplementsBuildPipeline` |
| `SandboxReconciler_proofs` | `AlwaysSafe`, `ClusterAlwaysConsistent`, `PodsAreIsolated`, `ServedEndpointsAnswered` | its invariant; `ClusterConsistent`, `IsolatedOnceAcknowledged`, `ServedWhereProbed` |
| | `SupervisionAlwaysConsistent` | `SupervisionConsistent` of `SandboxSupervisors` |
| `BotFleet_proofs` | `AlwaysSafe`, `FleetsAlwaysConsistent`, `GivenUpAlwaysLeavesNothing`, `StoppedAlwaysLeavesNothing` | its invariant; `FleetsConsistent`, `GivenUpLeavesNothing`, `StoppedLeavesNothing` |
| | `SchedulerSafe`, `FleetsThatFitArePlaced`, `LoadAlwaysLevelled`, `SharesAlwaysExact` | `Scheduler`'s invariant; `RefusedOnlyIfFull`, `PlacementConsistent`, `SharesAreExact` |
| `Leaderboard_proofs` | `AlwaysSafe`, `PageNeverOverstates`, `PageAlwaysConsistent`, `AlwaysRegisteredIsOpen`, `DropsAlwaysCounted` | its invariant; `NeverOverstates`, `PageConsistent`, `RegisteredIsOpen`, `DropsAreCounted` |
| | `HubAlone` | the last two for `ScoreHub` by itself |
| | `IngesterSafe`, `OffsetsAlwaysConsistent`, `WindowAlwaysFollowsLog`, `MetricsAlwaysExact` | `Telemetry`'s invariant; `OffsetsConsistent`, `WindowFollowsLog`, `MetricsAreExact` |
| | `PeakAlwaysExact` | the peak rate of `MetricsAreExact` |
| | `NearestRank` | `percentileAt` of an ascending sequence is its nearest-rank percentile |

### The inductive invariants and why they are needed

`BenchmarkRuns`. `SafetyInv` adds to types and audit trail what holds between a
handler's steps: its arguments are known once it has a call (`ArgumentsKnown`),
what it read under the row lock is still the row's status while it holds the lock
(`ReadIsCurrent`), a handler past validation is about to make an allowed move
(`WritesAreAllowed`), and the ids being inserted are distinct and unused
(`FreshIds`). `ReadIsCurrent` is what makes the row lock matter: without it
`CommitTransition` could append to a trail that no longer ends in the status it
read. `OvershootBounded` is inductive by itself together with the types: an
admission adds a handler to `Admitted` below the limit, and a commit moves a unit
from `Admitted` to the count, so the sum never exceeds the bound. `NoHandlerStuck`
rests on `LocksAreHeld`, the converse of `ReadIsCurrent`: whoever holds the lock of
a row is between its `SELECT ... FOR UPDATE` and the end of its transaction, where
no statement waits. A call takes one lock and every way out of it, `Abort`
included, gives the lock back, so a waiter never waits for a waiter.

`MatchingEngine`. The index is written when an order rests and removed when the
last of it trades, so the equality of index and queues is split in two
(`RestingIndexed`, `IndexedRests`); `QueuesOrdered` (times strictly ascend) is why
no order is in a queue twice and why the head is the oldest; `IncomingIsLatest`
says that the order in hand is younger than all that rest, which is what appending
it relies on. The refinement then maps each step: the best key is the best price,
the head of its queue has priority over all others, and so a trade, a rest, a
cancellation of the levels is the same of the set of orders. The same invariant
gives `MatchingAlwaysAdvances`: no level is empty, so the loops find an order, and
no resting order is empty, so a fill takes at least one unit.

The snapshot adds up quantities twice, along a queue and over a set of orders.
`LedgerInv` says that an order keeps the side and price it was submitted with until
it is indexed under them; with `IndexedRests`, `RestingIndexed` and `RestsOnce` the
positions of a queue and the open orders of its price are then in one-to-one
correspondence, and `QuantityConserved` makes the summands equal. That the sums are
equal is lemma `SumOfImage`: the community operator `SumFunction` takes elements out
in an order fixed by CHOOSE; `SumOfOne`, proved by induction on the size of the set,
shows that any element may be taken out first. Only sets of positions are summed
over, so `Ids` need not be finite.

`UploadGate`. `RecentAreKept` carries the argument of the rate limiter: the key
still holds an entry for every request let through within the window, and does not
expire before them, though late scripts prune by an older clock. `RollingWindow`
then follows by counting: at the moment a request is let through, all requests of
a shortened window that contains it are in the key, and the key has room
(`WindowsBounded`). `Progress` ties each step of a request to what it has stored.

`BuildPipeline` and `SubmissionPipeline`. `UnmarkedIsFresh`, `BatchIsFresh` and
`JobsAreTrue` say what the position of the watcher and of a Job mean for the row
and the registries: a row that is still `UPLOADED` has no Job, and what a poll has
fetched is unmarked except for the one in hand, so no submission is built twice;
a Job that is past a stage has what the stage leaves. `StatusSettles` needs one fact
more, `VerdictsOwned`: a verdict of the Job is in the row only once the Job has ended,
and the watcher's only once the poll is done with the row, so that whoever overwrites
the other's verdict is the last to write. `SELECT ... LIMIT` is a
recursive function, whose facts are proved by induction on the length of the
table (lemma `Induction`). The composition is proved from the parts: each needs
of the other only what `BothSafe` says, and `HandlerFeedsPipeline` is the lemma
that the handler inserts only rows the pipeline's environment may insert.

`SandboxReconciler`. `RunSafe` says, for each step of a call, what its overlay,
its pod and its entries in the registry may be: `OverlayOfCall` is the order of
creation and deletion, `CleanupOfCall` what a given-up sandbox has left, and
`EntriesOfCall` which of the endpoints written so far were answered.
`PodsNamed` (a pod is under its run's submission) is what keeps two runs of a
submission apart. `SandboxSupervisors` needs only `EnforcerMakesSense`: the
enforcer calls `ReleaseResources` after its collection has ended or timed out.

`BotFleet`. What a call knows (its record in the store and the list it deletes
from) and what it has left behind (its pods) are two sets; `LeftIsKnown` says that
the second is within the first at each step, but for pods whose own `Create` or
`Delete` failed, and `KnownIsLeft` the converse, which `READY` relies on. The
converse holds only while nobody takes the names away (`Undisturbed`).

`Scheduler`. `RoundRobin` gives the number of bots of a node in closed form: as
many as the loop has visited it, or all its places. From it, `LoadIsLevelled` is
arithmetic; and the branch marked "Should not happen" is not taken because
`PassedOverFull` would make every node full after a whole round, while
`EachBotHasAPlace` says that fewer places are taken than bots were asked for.
`SharesAreExact` rests on `ScenariosInv`: a scenario has as many bots as it has had
turns, or all that are due to it, and the bots given out are the sum of these. Two
facts about the numbers come before it: the total weight times the bots left over
is the sum of the remainders (`RemainingFacts`), so fewer than five are left over,
and therefore no scenario with remainder zero is rounded up (`OneIsMissing`),
whatever order the sort gives to equal remainders. So the loop writes exactly
`fleetSize` scenarios, and `interleaved[pos]` never leaves the slice.

`ScoreHub` and `Leaderboard`. `WriterKnows` ties the position of a writer to the
registration and the closing of its queue (a queue is closed once, when its client
leaves the map); `LossIsCounted` is kept because only a fan-out to a full queue
loses something, and it counts it; `SeesWhatIsDue` is the equation between what
was fanned out since the registration and what is on the wire, in hand and in the
queue. The page's part says that tables and messages on their way are no newer
than the standings, which only rise. The hub's invariant is stated for any set of
messages, so it serves both compositions.

`Telemetry`. `HandledInOrder` places the committed offset, the start and all that
was handled relative to the position of the consumer. `WindowFollowsLog` is an
order-preserving bijection between the events taken or waiting and those
dispatched, extended by one element at each dispatch. `BucketsCount` allows for the
lazy eviction of the peak's buckets: a bucket is exact, or empty and too old.
`NearestRank` needs no state: it is the arithmetic of `Rank`
(`int(p*n + 0.9999)`) and counting in an ascending sequence. What it is applied to
is a one-to-one list of the fresh samples: `CopyOne` keeps that along the loop that
copies them (`SnapshotFacts`, by induction on the length of the window),
`OrderExists` gives an ascending rearrangement of finitely many numbers by taking
out the greatest, and `SamePercentile` carries the count of samples at or below a
value from the list to the window.

### Assumptions

They are those of the modules, and say what the code gives by its types: bounds
are natural numbers, capacities and windows positive; a "none" value is none of
the values it stands beside (`AbsentAssumption`, `NilAssumption`,
`GateConstants`, `BuildConstants`, `BotFleetAssumption`, `HubAssumption`,
`TelemetryAssumption`, where Go has nil or a zero value); constants that are
functions have the domains and ranges their comments say (`SandboxAssumption`,
`SchedulerAssumption`, `PipelineAssumption`); a failure threshold is positive
(`SupervisorsAssumption`); messages of the leaderboard are score updates
(`LeaderboardAssumption`). `Handlers` and `RunIds` of `BenchmarkRuns` are finite,
as the count of its limit needs. `HubAlone` takes numbered messages and a `None`
that is not a number. No other theorem has a hypothesis besides its specification,
except `NearestRank`: an ascending, non-empty sequence and a percentage in 1..100.

### What the proofs found

`FleetsConsistent` was stated for runs nobody stops and calls that are alone for
their run. That is not enough with three calls: of two concurrent calls for a run
whose id begins like that of a third, one may release the pods the other
recorded, after the third has taken over the names, and so delete a pod of a fleet
that was reported `READY` (`ReleaseFleet` deletes by name). TLC confirms it with
three handlers. The property now asks that all calls whose names are alike are
alone (`CallsLike`), and is proved.

### Only model-checked

* Every liveness property (`EveryCallReturns`, `EventCompletes`, `PickedUp`,
  `EveryMessageHandled`, `NobodyIsStuck`, `TriesAgain`, `SupervisorsAct`,
  `CallsReturn`): liveness under fairness is outside the prover's reach. The safety
  half is proved for two of them: for `EveryCallReturns` that nobody waits for one
  who waits (`NoHandlerStuck`), for `EventCompletes` that a natural number falls at
  every step and there is a step to take (`MatchingAlwaysAdvances`); what is left to
  TLC there is that fair steps are taken.
* `AtLeastOnce` is refuted by a run.

## 5. Plan

Done: every module of the table above is modelled and checked, and its safety
invariants, action properties and refinements are proved; liveness is checked.

Next, as modelling: contestants and tokens, the fill validator, the leaderboard's
stream server.

## 6. Not modelled

* Contestants and tokens: single statements on independent rows.
* The heartbeat monitor: a map of times under one lock, whose failure callback
  only logs, so nothing depends on what it reports.
* The bots' rate limiter and order generators: nothing in the repository runs a
  bot; the limiter is called by tests only and the generators format messages.
* The fill validator and the scorer: functions without state.
* The leaderboard's gRPC stream: `main.go` does not start it, and nothing feeds
  the channel it reads.
* `WatchBuildJob`, the image builder, log truncation, dependency enumeration and
  the toolchains' commands: wrappers of programs outside the repository.
* Read-only queries (`GetFleetStatus`, submission status, build log), logging,
  metrics names, generated code, the rendering of the frontend, the seeding tool
  and the deployment files.
