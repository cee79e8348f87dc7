# GammaBoard in TLA+

GammaBoard runs adaptive Monte-Carlo integration on a fleet of worker processes
that meet only in a PostgreSQL database. This directory models the parts of it
whose correctness depends on interleavings, failures, restarts, or algorithms
with many cases. Paths below are relative to the crate (`src/` of the
repository); the line-by-line correspondence is `map` in `PROJECT.json`.

## 1. Inventory

| Component | State it keeps | Operations | Talks to | Module |
|---|---|---|---|---|
| Work queue (`stores/queries/work_queue.rs`) and evaluator (`runners/evaluator.rs`) | `batches`, `batch_results`; prefetch buffer, active batch, submission | insert, claim, submit, fail, release, reclaim, clean up | sampler, nodes | `WorkQueue` |
| Evaluator task context (`runners/evaluator.rs`) | cached runtime of the last task | load, build, install, evaluate, stop | work queue, tasks | `EvalContext` |
| Sampler queue, aggregator (`runners/queue.rs`, `sampler_aggregator.rs`), recovery (`stores/recovery.rs`, `core/checkpoint.rs`) | local buffer, insert tasks, cursors, accumulator, checkpoint row | tick, save, complete, fail, restore | work queue, node runner | `SamplerRecovery` |
| Generation buffer and samplers (`sampling/`) | the draw being cut, awaited feedback, sampler snapshot | draw, take, accept, train | aggregator | `Generation` |
| Batch sizing (`runners/queue.rs`, `core/tasks.rs`) | size, rolling cost, tuning in force | observe, refresh, restore, cap | aggregator, operators | `BatchSizing` |
| Batch ids (`core/batch_ids.rs`) | last millisecond, counter, entropy | next ids | sampler queue | `BatchIds` |
| Accumulators and estimates (`evaluation/accumulator/`, `core/stratification.rs`) | sums, bins, strata, plan | accumulate, merge, project, hand over | evaluator, aggregator | `Estimates` |
| Sample domain and layout (`utils/domain.rs`, `evaluation/batch.rs`, `sampling/`, `process_worker` payloads) | – (data) | decode, cut, materialize, validate, pack | sampler and evaluator processes | `SampleDomain`, `SampleLayout` |
| Process workers (`process_worker.rs`) | child process, pipes, deadlines | request, read, time out, drop | samplers, evaluators | `ProcessWorker` |
| Control plane and node runner (`stores/queries/control_plane.rs`, `runners/node_runner/`) | `nodes`: lease, pool, desired and current role, shutdown and resume marks | announce, assign, pause, expire, suspend, start, stop | every role | `NodeControl` |
| Launching (`stores/pg_store/external_launch.rs`, `worker_resume.rs`, `connection_budget.rs`, `api/node_launch.rs`) | requests, launcher lease, reservations | reserve, claim, submit, report, suspend, resume | launcher, node runner | `WorkerLaunch` |
| Worker groups, automatic assignment (`api/nodes.rs`, `node_launch/resources.rs`) | – | normalize, plan, assign | control plane | `AutoAssign` |
| Task queue and task control (`stores/queries/tasks.rs`, `api/runs.rs`, `runners/task_control.rs`, `stage_context.rs`) | `run_tasks`, stage snapshots, advisory lock | edit, activate, resolve, complete, fail | sampler, controllers | `TaskQueue` |
| Run documents (`api/run_definition.rs`, `core/run_spec.rs`, …) | frozen definitions | freeze, expand, instantiate, spawn, export, duplicate | controllers | `Documents` |
| Campaigns (`runners/integration_campaign.rs`, `stores/queries/campaign_budget.rs`) | children, grants | observe, grant, place, end | tasks, samplers | `Campaign` |
| Scans and tuning (`runners/parameter_scan.rs`, `hyperparameter_tuning.rs`, `parameter_grid.rs`) | children, trials, output | plan, create, observe, end | tasks | `Trials` |
| Controller node allocation (`runners/controller_child.rs`) | desired placements | read, plan, publish | control plane | `AssignmentPlan` |
| Run removal (`server/run_removals.rs`, `stores/pg_store.rs`) | operations, lock | request, drain, delete | control plane, task control | `RunRemoval` |
| Task panels and results (`server/task_panels/`, `services/measurement.rs`) | history rows, cursors, live accumulator | poll, merge, thin, measure | sampler, controllers | `TaskPanels` |
| Performance reports (`runners/busy_time.rs`, `server/performance_panels/`, `api/performance.rs`) | counters, windows, history | publish, load, measure | workers, dashboard | `Telemetry` |
| Deploy supervisor (`cli/deploy.rs`) and database commands (`local_db.rs`, `cli/db.rs`) | child processes, deadlines; cluster and files | start, supervise, drain, clean up; start, stop, reset, restore | nodes, server | `Deploy`, `LocalDb` |
| Evaluator engines, panel contents, authentication, command line, logging | – | – | – | – |

What is hard. A database statement is atomic, but its caller may lose the
connection before or after it commits, and a statement of a process that has
moved on may still run. Workers crash, let their lease lapse, and are reassigned
while they still work. Inserts, fetches, cleanup and aggregation writes of one
sampler run concurrently. After any of this the task has to resume from a
checkpoint that was saved earlier, with results that were partly merged already.
Controllers, operators and dashboards act on what they read some statements ago.
Child processes stall or die in the middle of a frame. The list of such places,
with the properties that guard them, is `hazards` in `PROJECT.json`.

What makes each component correct:

* work queue: a claim belongs to one worker; a result is that of the current
  claim and is never replaced; each lost claim costs one retry; no claim in use
  is taken away; no batch is stuck;
* sampler, generation and recovery: the accumulator contains the first draws, each
  once; values go back to the samples and the grid they belong to; the saved
  checkpoint can always be recovered; the task ends, exactly when everything it
  produced is merged, and is never failed without a cause;
* estimates: whatever the batching, the statistics are those of exactly the merged
  samples, under one plan of strata;
* control plane: one sampler per pool and per run; a recorded role belongs to the
  process that runs it; a request reaches the process it was meant for;
* tasks: in order, each after its predecessor has left its stage, on sources the
  preflight promised; edits never reach what has started;
* controllers: grants never exceed the cap, trials enumerate their space, plans made
  from stale reads are refused, and every controller ends;
* launching: one job per reservation; the workers that were admitted fit the connections
  PostgreSQL has, up to the cases listed under "Limits of the promises";
* views: what a panel stops at is final, and a measurement that calls itself valid
  compares one incarnation of each worker;
* deployment: a signalled deployment ends, leaves no children, and does not stop the
  database under a sampler that saves.

## 2. Modules

Each module has its state as `VARIABLES`, one action per handler, statement or step,
and its properties at the end; the `MC...` modules hold the TLC instances (below) and the
eight `...Proofs` modules the theorems (section 4). Definitions marked "Mutant" are plausible bugs of the definition
that follows; nothing uses them except the mutation entries of `PROJECT.json`.

### WorkQueue

State: `rows` and `result` are the tables `batches` and `batch_results`; `grants`
counts claims (a history variable); `lease`, `assigned`, `desired` are the columns
of `nodes` the queries read; the rest are the fields of `EvaluatorRunner`
(`LatentPrefetchBuffer`, `ActiveBatch`, `ResultSubmitBuffer`) and the statements
that nobody waits for any more (`lateClaims`, ...). One action per query and per
step of the evaluator's tick; each query is used both by its action and by the
late variant.

Decisions worth knowing:

* A token that occurs nowhere is as good as a new uuid, so four tokens suffice;
  with fewer the prefetch of an evaluator would starve for want of a name.
* A database error of a tick is retried while the role runs and ends `stop()`
  while it drains (`AbandonRole`).
* `LeaseExpires` costs a fault for a live process and is free for a dead one.
* `InsertBatches` and `CleanupCompleted` are the sampler as the queue sees it;
  `DiscardBatch` is recovery deleting speculative work.

### SamplerRecovery and OrderedIngestion

State: `rows` (status and draw of each batch of the task), `ckpt` (the checkpoint
row), `batches` (`runs.batches_completed`), `task`, `holder` and `desired` (the
current and the wanted sampler node), `mem` (the runner and its queue in each
process), `late` (statements of dropped runners), `failures` (the retry state).
A runner passes through *loading*, *built*, *running*, *stopping*, *publishing*,
*saving*, *saved*; completion, stop and failure share the path, as
`persist_state` does in the code.

Abstractions:

* A batch has one sample, so the sample sums of the code are counts. Draw *n* is
  the *n*-th batch a sampler state produces; restored, it produces the same draws
  again (what `SavedSampler` promises). The accumulator is the set of merged draws.
* `Accurate` are the numbers of samples at which an error target is met. Whether
  an evaluator asks for work, a cleanup is due, or a flush is due is free.
* Cleanup deletes any subset of what it may delete (it has a limit and skips
  retried batches).
* Ids only grow, also from process to process. `BatchIds` shows the former of one process;
  of the latter see the limits in section 3.
* The id reserved as the boundary of a fetch is represented by `nextId`: no later
  insert gets a smaller one.
* An insert is answered when it commits. In the code the count of open batches
  may see a row both in the table and in the buffer for one tick, which only
  postpones the end.
* Errors are database errors; engine errors are in `Generation`.
* `EvaluateBatch` stands for `WorkQueue`: a pending batch becomes completed.

`Overlap = FALSE` adds an assumption on the environment: an activation begins when
no other process has a runner and no statement of a dropped runner is under way
(`Settled`). The code does not enforce it; see the finding `sampler_overlap`.

`OrderedIngestion` is the abstract promise. Two variables, the live and the saved set
of draws. The live set grows by merging, always to a prefix `1..n`; the saved one
becomes the live one; the live one falls back to the saved one; nothing else. In the
refinement mapping the live set is that of the process built from the checkpoint, or
the saved one if there is none.

### Generation

What the aggregator does with a draw: buffer it, cut it into units (`TakeBatches`),
assemble the values (`AcceptFeedback`), train. The samplers of the code (havana
training and inference, naive, raster, PDF raster) and an external process are
variants of one state: what is drawn next, the version of the grid, what is awaited. A
sample is its place in the production order plus the version of the grid it came from,
and its value has the same name, so that a value that reaches the wrong sample or the
wrong grid is seen. `Save` stores sampler, buffer, accumulator and cursors as one
image; `Crash` restores it. The coprime stride of the raster is computed, not assumed.

### BatchSizing, BatchIds

`BatchSizing`: the adaptive size with dead band and pause, fixed sizes, tunings stored
by operators, the size restored from a checkpoint, and the cap of a training window.
Costs are small integers; smoothing moves the mean part of the way (any value nearer).
`BatchIds`: the id arithmetic with small widths, a clock that moves both ways, and
processes that take over from each other.

### Estimates

The way from evaluated samples to an estimate: `Stripped`/`Classify`/`Gated` for the
stratum of a point, the accumulators (`scalar`, `vector`, `full`, `gammaloop`, `empty`,
`stratified`) as records of exact integer sums, `MergeState`, projections to bins, the
plan of strata made by `PrepareEstimator`. Actions are those of a stage: start, produce,
merge, train, save, restart, stop early, finish. Numbers are integers, one beyond
`MaxFloat` is not finite, means are scaled so that the divisions of the parallel updates
are exact for up to four samples. `merged` remembers the samples; the properties
recompute every statistic from it by its definition.

### SampleDomain, SampleLayout

`SampleDomain` has the trees of `utils/domain.rs` with every reading of them (fixed
dimensions, path lookup, strata, flattening), recursive as in the code. `SampleLayout`
takes a process sampler's answer through decoding, cutting, materializing, validating
and packing. Discrete coordinates are values; continuous ones are named by their place
in the answer, so that losing or swapping one is seen.

### ProcessWorker

Host and child around two pipes: writing a request, reading frames, progress, text on
stdout, broken frames, answers to other ids, deadlines, end of file, drop with its grace
period and kill. The child is user code: it may do any of this in any order.

### NodeControl

The `nodes` table with lease, epoch, pool, desired and current assignment, shutdown and
resume marks, and all statements on it; processes that share a name; the supervisor's
loop of renewal, polling, stopping, building, starting, retrying and leaving. A role
only runs, finishes or fails here. `Fault` covers lost answers, lapsed leases, crashes.

### WorkerLaunch

Requests with their backend, names and launcher lease, jobs, nodes, launchers (claim,
visit, intend, sbatch, receipt, pass), local launches, the deployment binding and the
connection arithmetic of `check_worker_connection_budget`. The scheduler and the
launcher script (`ops/ubelix/ubelix.py`) are part of it: no transaction spans them.

### TaskQueue, Documents

`TaskQueue`: rows of a run's queue, editors with their optimistic check and preflight,
control loops with leader and lock, and the role that resolves sources from stage
snapshots, runs, saves its stage and completes. A definition is where evaluator, sampler
and accumulator come from (`WellFormed` says which ones
`core/tasks.rs` accepts). `Documents`: a document has one field with a value or a
placeholder, an optional evaluator, at most one child (inline or in a file) and
replacements; freezing, expansion, defaults, validation, spawning and duplication are
operators on such trees, applied while files change.

### Campaign, Trials, AssignmentPlan, AutoAssign

`Campaign`: the controller's tick as a sequence of transactions, the durable grants, and
children's samplers that produce within a grant, publish and are rolled back; accuracy
may change with every observation. `Trials`: scans, grid, random and model-based search;
the optimiser suggests any point not yet used. `AssignmentPlan`: two nested controllers
plan from a read and publish with a comparison, against operators. `AutoAssign`:
`normalize` on resource groups, `plan_auto_roles`, and one assignment after the other.

### TaskPanels, Telemetry

`TaskPanels`: history rows with increasing ids, one live accumulator per run, readers
(browser, controller, completion measurement) whose handlers are sequences of
statements; merging by sample count, thinning levels, cursor. A point carries the task
and the recovery era it belongs to. `Telemetry`: busy time of overlapping operations,
window metrics, asynchronous reports with epochs, intervals formed from them, and the
measurement over several snapshots.

### EvalContext, RunRemoval, Deploy, LocalDb

`EvalContext`: the evaluator's cached runtime and what a failed load or build leaves.
`RunRemoval`: background operation, lock, clear, drain, delete, against assignments and
nodes that build. `Deploy`: the supervisor from start-up to clean-up, its deadlines as
ticks, workers that come and go on their own, a second deployment. `LocalDb`: each
command as the sequence of programs it runs, any of which may fail or be cut short.

### The MC modules

`MCWorkQueue` and `MCSamplerRecovery` hold the symmetries of instances of one module.
The other four put many instances side by side. `MCFleet`, `MCRuns`, `MCSamples` and
`MCLive` declare a variable `part` and every variable of their modules; a behaviour
chooses its part in `Init`, runs that instance's `Next`, and leaves the variables of the
other parts at one unused value (`Off`, in `MCSamples` `Void`). Their state graph is the disjoint union of the graphs of
the instances, so a property `part = "x" => X!P` says of the instance exactly what `P`
says. Variables with the same name in two modules are shared by the parts, not by the
behaviours. The modules interact through the tables each one models for itself: what a
module takes from another is one of its own actions (`EvaluateBatch` of `SamplerRecovery`
stands for `WorkQueue`, `TickStep` of `Campaign` for task control), and the README says
which.

## 3. Runs

| Run | Instances | Shows |
|---|---|---|
| `wq_claims` | 2 batches, 2 nodes, 4 tokens, 2 retries, 2 faults | types, one batch per token, retry accounting, results of current claims, stable results, held claims kept |
| `wq_live` | 1 batch, 1 fault, fair | every batch is resolved |
| `sampler_crash` | 1 process, 3 draws, 6 ids, 2 concurrent inserts, 1 fault, fair | exactly-once merging, recoverability, no spurious failure, whole completion, refinement of `OrderedIngestion`, and that the task ends |
| `sampler_race` | 2 processes that overlap, 1 draw, 1 id, 2 starts, 2 faults | a boundary that was chosen for a completed id stays valid |
| `fleet` | see below | roles, launches, plans, automatic assignment, removal, deployment, database |
| `runs` | see below | task queue, campaigns, trials, documents, panels, telemetry |
| `samples` | see below | generation, sizes, ids, layouts, process workers, contexts, estimates |
| `live` | see below, fair | shutdowns, launch requests, queues, campaigns and deployments end |
| `wq_failed_batch`, `wq_expired`, `sampler_overlap`, `sampler_counts` | | violations, below |

Bounds of the first four runs. Two batches are needed for a token to be reused on another
row; since the queries treat rows one by one, the second fault of `wq_claims` is explored
only while a single batch is in play (`Explored`). Two nodes give a claimant and a
successor. Two retries distinguish a requeue from a permanent failure. Three draws with
two concurrent inserts give an insert that commits after a later one, a completed prefix
that stops in the middle, an error target met with work still open, and a crash with
retained, merged and speculative work at once. Six ids allow the three draws to be
produced twice. `MaxFaults` counts errors, crashes, lapsed leases and operator actions
together; in `sampler_crash` one fault is explored, and being below `MaxStarts` (three) no
repeated start failure explains a failed task. The proofs cover every number of faults and
of draws. `sampler_race` is small in data because two processes that overlap, with two
faults, reach every conflict of statements on a single id.

### `fleet`

* *standalone*, *nested* (`NodeControl`): three processes, two of one name, and a run of
  its own, two operator requests; two processes of one name, a controller run and its
  child, three requests; one fault each. Two processes of a name are what a takeover needs,
  the third is the competitor for the sampler slot.
* *external*, *budget* (`WorkerLaunch`): two launchers and two requests for one name with
  one fault; two names for connections that suffice for two workers or for one that
  samples, three requests, so that a worker can be resumed, and a local launch that fails.
  `MaxTokens` bounds the claim tokens in use at a time and not the claims: a fresh token is
  one that neither the request nor a launcher holds.
  Both modules are proved for all bounds, so the instances need only let every action happen.
* *planned*, *replanned* (`AssignmentPlan`): a root controller over an integration and a
  nested controller with two children; three workers and one change by the operator, two
  workers and two changes.
* *chosen* (`AutoAssign`): four workers from six recipes that can sample, evaluate, both
  or nothing, with two spellings of several resources.
* *removal* (`RunRemoval`): two removals from the dashboard and one from the command
  line, two nodes, one fault.
* *deployment* (`Deploy`): two nodes, two deployments after each other; a sampler may be
  under construction when it is suspended and take any time.
* *database*, *stubborn* (`LocalDb`): every command in every order with three
  interruptions; and with a `pg_ctl stop` that fails.

`RolesOwned`, `LaunchedOnce`, `PlansAgree`, `PlacementsBest`, `RemovalDrains`,
`DeployCleansUp` and `DatabaseKept` are the conjunctions of the named properties of
these modules; each comment says what it excludes. `PlacementsBest` is about the choices
themselves: automatic assignment keeps as many runs active as any choice of roles could, and
a nested plan depends on the selected set alone and spreads its evaluators evenly.

### `runs`

* *edited*, *controlled* (`TaskQueue`): two editors with stale reads; two control loops
  with a fault, the role that runs the tasks, and definitions with every kind of source.
  The module is proved for all bounds.
* *campaign* (`Campaign`): two children whose sizes exceed the cap together, up to two
  samplers, one fault: a grant has to be returned, a quantum repeated, a child rolled back;
  the cap of five leaves only a part of the third quantum of two.
* *grid*, *suggested* (`Trials`): three spaces of one to three parameters, at most two
  trials of a random search (grids have up to eight); a range whose end is off its step; a
  model that suggests used points; one fault anywhere in either, so that a model-based search
  can forget a child.
* *documents* (`Documents`): two files that change, refer to each other and may form a
  cycle; placeholders, replacements and bindings of one name on each level.
* *panel*, *child* (`TaskPanels`): a browser on a task whose successor has another type,
  three history rows; a controller on tasks of one type, four rows; a rollback in between.
* *busy*, *measured*, *counted* (`Telemetry`): two overlapping operations and two reports;
  two workers that restart between two snapshots.

Deadlock is checked: `Rest` is the step of the parts that may come to an end.

### `samples`

* *generated* (`Generation`): all six kinds of sampler, windows of three, generations of
  three draws cut in chunks of at most two, two faults.
* *sized* (`BatchSizing`), *numbered* (`BatchIds`: a clock that also steps back, two
  processes), *laidout* (`SampleLayout`: boxes, ragged trees, sparse labels), *process*
  (`ProcessWorker`: three requests, all kinds of output), *context* (`EvalContext`: three
  tasks that share evaluators or transforms pairwise, three faults).
* *pooled*, *stratified*, *gammaloop* (`Estimates`): up to three samples in batches of one
  or two, with a value whose square overflows, a point outside every prefix, ties, an
  empty stratum, two stages, a crash.

### `live` and the fairness assumed

The control-plane loops that the code repeats by itself are fair: heartbeat, polling and
role steps of a process; a launcher's pass and its claims, and the reconciliation that a
registration runs; ticks of every live control loop; the controller tick and the samplers
it placed; the supervisor and the clock of a deployment. The lease of a process or launcher
that is gone runs out in the end, because nobody renews it. Strong fairness is used once: a
role that is ready keeps trying to save its stage while other statements interleave.

Operators, schedulers and faults owe nothing: a live process renews its lease as long as it
likes, a job may wait or run for ever, and a role that is wanted never has to fail. Where an
action has an ordinary branch and a fault (`LeaseLapses`, `LauncherLeaseExpires`,
`BeginStop`), the fairness names the ordinary branch. What ends only because somebody
interferes is not claimed:

* `ShutdownHonoured`: the process asked to leave does so, loses its name or has its request
  withdrawn; or, after a fault, the answer with the request was lost, and it stays for as long
  as nobody asks again (`Unheard`).
* `RequestResolves`: the request ends; or, after a fault, one of its workers is from some
  moment on in a submission without a receipt and without a job (`Ambiguous`); or in a job
  that the scheduler keeps waiting (`Queued`). A launcher's window between the intent and `sbatch` looks
  like the former for a moment and does not count.
* `QueueDrains` and `CampaignEnds` assume that the run stays assigned and that the campaign
  has a slot.

In `deploy` children survive a first kill.

`wq_live`: the same kind of loops in `WorkQueue`; no fairness for errors, the operator or
the lapse of a live lease, and a role is stopped only when its assignment is gone.
`sampler_crash`: in addition every batch is evaluated in the end (`BatchResolves` of
`WorkQueue`), and strong fairness of a producing tick, because
evaluators ask for work again and again. `BatchResolves` assumes that some wanted
evaluator is not detached (lost its assignment to an expired lease without seeing its
target change) and excludes the batches of an orphaned role (stop and clearing both failed
in one outage).

### Violations

* `wq_failed_batch`: `fail_batch` and `fail_run_task` are two transactions; a
  process that ends in between leaves a failed batch in an active task, against
  "persistent failures fail visibly" (`docs/execution-model.md:359`).
* `wq_expired`: owner and token are compared, the lease is not, against "An
  expired/superseded worker cannot publish its late result"
  (`docs/execution-model.md:357`). The accepted result is nevertheless a correct one.
* `sampler_overlap`: the successor's recovery deletes batches of a sampler that is
  still stopping, and the checkpoint this one then saves cannot be recovered.
* `sampler_counts`: a committed aggregation write that is answered with an error is
  counted again in `runs.batches_completed`.

### Limits of the promises

The models also contain behaviour that a document or a comment describes more strongly
than the code does. The properties above are stated so that they hold; what they leave
open is listed here.

* `control_plane.rs:80`: a paused standalone sampler that dies keeps its pool slot until
  it is unassigned by hand (`tests/e2e/contracts.rs:689`, `docs/operations.md:21`).
* `node_runner/reconcile.rs:145`: a worker whose recorded role was cleared while its lease
  had lapsed, with its target unchanged, keeps running it unrecorded.
* `control_plane.rs:772`: a shutdown request is cleared by the statement that reports it;
  with the answer lost the worker stays (`node_runner/mod.rs:525`). `ShutdownHonoured` names
  that outcome.
* `control_plane.rs:797`: the lapsed process of a worker that was already resumed wipes
  the assignments saved for its replacement (`docs/operations.md:24`).
* `api/nodes.rs:129`: a local launch that fails half-way frees the connections of workers
  that are still going to register (`connection_budget.rs:26`).
* `worker_resume.rs:93`: the admission of resumed workers counts them as workers without a
  role, although a resumed sampler keeps its role and its connections
  (`connection_budget.rs:3`).
* `external_launch.rs:148`: a registration that the launcher did not see can be overwritten
  by a scheduler failure (`docs/cluster-launches.md:34`).
* `api/runs.rs:917`: the preflight does not follow samplers, so an accepted task may find
  none when it is activated (`api/runs.rs:633`).
* `integration_campaign.rs:265`: a sampler that restarts between the read of the placements
  and the end of the task is running when it ends (`docs/execution-model.md:316`).
* `hyperparameter_tuning.rs:717`: a child created by a tick that died before its output was
  stored is observed by no later tick of a model-based search (`controller_child.rs:86`). It
  is neither counted nor is its point avoided: `Bounded` and `SuggestionsNew` leave out what
  was `Forgotten`.
* `process_worker.rs:139`: the deadline starts after the request was written; a child that
  stopped reading blocks a large one. `process_worker.rs:425`: the stdout limit counts the
  whole life of the worker, not the text before a frame.
* `batch_ids.rs:33`: ids of a successor may lie below those of its predecessor
  (`queue.rs:1083`); `SamplerRecovery` assumes that they do not.
* `accumulator/scalar.rs:333`: the bin limit holds for a batch, not for the stage.
* `api/nodes.rs:397`: automatic assignment takes a node that was assigned after it read the
  list (`api/nodes.rs:413`).
* `api/nodes.rs:303`: the first poll that sees no sampler starts the node deadline. A worker
  that was still building then, and is recorded as a sampler before the sampler deadline, is
  judged by neither, and Postgres may stop under it: `DrainedBeforeStop` (`Judged`) is about
  the samplers recorded at the suspension and those recorded later while no such early
  deadline was set. `cli/deploy.rs:238`: a failed start stops a database that the
  previous deployment left running for its samplers.
* `controller_child.rs:341`: a controller's read may return the next stage's accumulator as
  the result of the stage it asked for.
* `pg_store.rs:726`: a node that was still building when removal drained the tree starts its
  role on the deleted run (`docs/operations.md:53`).
* `sampler_io.rs:32`: a dropped runner's insert may commit after the next activation rolled
  the queue back; the passing runs assume `Settled`.
* `controller_child.rs:86`: two control loops that overlap may create two children with one
  label; only the lock prevents it.

## 4. Proofs

Each theorem is for every value of the constants that the module's named assumption
allows; TLC evaluates the same assumptions in the runs. The invariants below were checked
with TLC as invariants of small instances before they were proved.

The theorems are about the modules themselves, and the runs of section 3 about instances
with the same definitions. Where a run checks one property per module (`RolesOwned`,
`LaunchedOnce`, `QueueKept`, `BudgetShared`, `RemovalDrains`, `DeployCleansUp`,
`DatabaseKept`, `PlansAgree`, `ContextOwned`, `IdsGrow`, `SizesRespected`,
`AnswersInStep`), the module has the conjunction under that name and its theorem is
`RolesSafe`, `LaunchSafe`, `QueueSafe`, `BudgetSafe`, `RemovedWhenDrained`, `DeployCleans`,
`DatabaseSafe`, `PlansSafe`, `ContextsOwned`, `IdsOrdered`, `SizesSafe`, `WorkerSafe`.

### WorkQueue (`WorkQueueProofs`)

`TypeCorrect`, `TokensUnique`, `RetriesAccounted`, `ResultsCurrent`, `ResultsStable`
and `LiveClaimsKept`, each the property of the same run, from `WorkQueueAssumption`.

The invariant is `DbInv /\ MemOK`. `DbInv` joins the types of the tables with
`ClaimTokenUnique`, `RetryAccounting` and `ResultOfCurrentClaim`: none is inductive
alone (a submission keeps `ResultOfCurrentClaim` only if the token it checks belongs
to one row; a claim keeps `ClaimTokenUnique` only because a repeated token finds its
row). `MemOK` gives the types of the processes and of late statements. Each database
statement is shown once to keep `DbInv`, and every action, prompt or late, cites
that lemma. `ResultsStable` and `LiveClaimsKept` are step properties derived from
the invariant; the second follows the claim a live owner tracks through reclaim,
release and claim.

### SamplerRecovery (`SamplerRecoveryProofs`)

`TypeCorrect` and `BoundaryHolds` hold of every behaviour. `OrderKept` (`ExactlyOnce`),
`CheckpointRecoverable`, `CompletionWhole`, `NoTaskFailed` and `RecoveryImplements` (the
specification implements `OrderedIngestion`) assume `Overlap = FALSE`, without which they
are false (`sampler_overlap`); `NoTaskFailed` also assumes `MaxFaults < MaxStarts`, because
enough failed starts do fail a task.

`RecoveryInv` has six parts. `Alone`: one process has a runner, and none while a statement
of a dropped runner is under way. `ProcsOK`: a process is off, or loading nothing but the
checkpoint, or `Sound`. `CkptOK`: the work a checkpoint has not merged is in the table.
`LateAfter`: late inserts lie beyond the checkpoint. `EndOK`: a completed task is whole. And
the types. The centre is `Backlog`: the ids between the completion and the production
cursor, found in the table or in an insert that is not settled, carry exactly the draws that
are produced and not merged, in the same order. The accumulator can only be `1..n`
because what a fetch brings is a `Segment`, the first batches beyond the cursor; that needs
`FetchOK` (a boundary below every open insert), hence `Queue` (every row at or below the
production cursor) and `StopOK` (nothing is open when a checkpoint is written). The lemmas
`BacklogSpawn`, `SegmentMerged` and their kind are about these operators with the tables as
parameters; each action is then one lemma that keeps `RecoveryInv`. For the refinement each
step is shown to map to a merge, a save, a fall-back or a stutter.

### NodeControl (`NodeControlProofs`)

`NodesTyped`, `OneSamplerPerPool`, `OneSamplerRunning`, `RolesHaveOwners`,
`RequestsReachTheirProcess`, and of steps `ReleasedByOwner` and `SuspendedWorkersKept`, from
`NodeAssumption`. `NodeInv` adds to the properties that a row's process was started under the
row's name and only such a row records a role, and says of pairs of rows what
`PoolSamplerUnique` and `CurrentSamplerUnique` say by counting. Statements that neither give a lease nor record a
role are `Passive`, and one lemma covers all of them. `RolesSafe` has them together.

### WorkerLaunch (`WorkerLaunchProofs`)

`LaunchTyped`, `StartedOnce`, `DeploymentsSeparate`, `FulfilledMeansConnected` and
`ConnectedForGood`, from `LaunchAssumption`. That a reservation starts at most one process is
not inductive, because a launcher holds nothing between its reading, the intent, `sbatch` and
the receipt. `LaunchInv` ties what a launcher has read to its token: as long as the token is
current, what it takes for pending is pending or connected, but for the worker it is
submitting itself (`LauncherOK`); launchers of one request have different tokens and at
most one is between intent and receipt (`LaunchersApart`); a process exists exactly where one was
started, and none before its intent was recorded (`ReqOK`); a live worker has a running job of
the bound deployment (`NodeOK`); a local launch starts only what it has left (`LocalOK`).

`ConnectionsSuffice` (`WithinBudget`) and `LaunchSafe` also assume `MaxLapses = 0`: a worker
whose lease lapses while it runs leaves the sum of `check_worker_connection_budget`, and no
admission could know of it. Workers left over by a failed local launch (`Escaped`) and the
role of resumed samplers (`Resumed`) are outside the sum in the code and in the property.
The invariant charges a worker from its reservation until it is gone (`Charged`, `Heavy`,
`Budgeted`), which is more than the live ones the property counts. That no process announces
itself uncharged is `Admitted`: a process that is queued or about to be started (`Due`) is
one that the tables still wait for (`Expected`), a request that ended has heard of all its
workers (`LedgerOK`), and a row passes to another request only when its process has ended
(`JobsOK`). Each statement then charges nobody new, or has made its admission's comparison.

### TaskQueue (`TaskQueueProofs`)

`QueueTyped`, `QueueStaysValid`, `TasksInOrder`, `CompletedLeavesStage`, `PromisesKept`
(`SourcesKept`) and the step property `HistoryStays`, from `TaskQueueAssumption`, which
includes that definitions are `WellFormed`. `QueueInv`: an editor holds an edit that is valid
for the list it has seen, and its commit compares that list (`EditorOK`); at most one task
is active and everything before it has ended; a stage snapshot belongs to a row that has been
active, with nothing before it left to run, and lacks an evaluator only if no completed task
before it could have given one (`StagesOK`); a completed row has a snapshot; what a
control loop or the role works on was started, and the role's sources are staged
(`CtlOK`, `RoleOK`). `SourcesKept` follows: what the preflight saw above a task is still
there, because nothing at or above a row that was started can be edited. That a queue has a first
pending row uses a least natural number, taken from the library's well-foundedness of `<`.

### Campaign (`CampaignProofs`)

`CampaignTyped`, `GrantsWithinCap` (`CapKept`), `OneQuantum` (`QuantumOnce`),
`CompletionDrained` (`CompletedDrained`) and `PilotsComeFirst` (`PilotsFirst`), from
`CampaignAssumption`. The grants are summed with the library's fold, whose defining function
is only known to be chosen. A smallest counterexample among the subsets of a finite set
(`LeastSet`) stands in for induction: it shows that the function exists, that two of them agree,
and that a sum of natural numbers grows with its terms (`SumExists`, `SumUnique`, `SumGrows`).
`CampaignInv`: a sampler runs between its child's checkpoint and its grant (`SamplerOK`);
what is persisted of a child lies within its grant, and the grant within one quantum of what
the child ever completed (`ChildOK`); what a tick has seen of a child was so, and what is
final still is (`SeenOK`); the grants it read are in force until it asks, its requests are
for one quantum, and one that ends the campaign found it drained and piloted (`CtlOK`). The last
stays true while samplers crash and are rolled back, because it speaks of what was once
published (`PromiseStays`). A repeated tick is harmless because the next request is counted
from the completed samples and not from the grant.

### Operations (`OperationsProofs`)

One module for what operators and controllers do; every part is an `INSTANCE` of its module,
so a theorem assumes the constants of one part only.

* `RemovedWhenDrained` (`RunRemoval`, from `RemovalAssumption`). The workers to be waited for
  are written down when the drain begins; `RoleInv` says that each of them runs what it has
  recorded, `LockInv` that clearing, draining and deleting happen under the lock and that
  nobody waited for has a lease at the deletion, `EntryInv` that a removal under way is the
  one entry that says so, which gives one operation at a time.
* `PortsFreed`, `DatabaseWaits`, `DeployCleans` (`Deploy`). `PortsFreed` and `DeployCleans`
  assume that killing works, as the `deployment` instance does; with a kill that fails they are
  false. `DatabaseWaits` assumes nothing of the workers: a suspension may meet any of them
  idle, building, sampling or saving. `ChildrenInv` follows backend and nginx through the
  cleanup; `AskedInv`: who is to be judged is stopping and has been built; `DrainInv`: a node
  deadline is earlier than the sampler deadline only if nobody was left to save when it was
  set, and the cleanup goes on, with no deadline passed, only when none of them is saving.
* `RestoredExactly`, `RowsKept`, `DatabaseSafe` (`LocalDb`). A command that is cut short leaves
  a tail of its programs (`Place`), and `RestoreInv` says for each such tail what the database
  then holds. `NoOrphanServer` holds, and is stated, only if `pg_ctl stop` works.
* `FinalsAgree`, `PlotsOwn` (`TaskPanels`). The writer's half of `PanelsInv` (`QueueInv`,
  `RowsInv`): tasks run in order, results along a task's rows only grow, and a completed task's
  last row is its final one. The reader's half: what a request holds is about its task, a task
  it read as done stays done, and who stopped polling has the final result (`StopInv`).
  `PlotsOwn` assumes that the tasks of a run differ in accumulator type, since a plot of the
  live accumulator is told by its type alone.
* `PlansSafe` (`AssignmentPlan`, from `RunAssumption` and that `None` is no assignment).
  `SnapOK` is the centre: since a plan's snapshot was read, no node became the sampler of a run
  that is this controller's to place, whatever the other level and the operator did. Placing
  takes positions of finite sets, for which the module proves that every element has one
  (`Rank`), that the plan puts samplers on runs without one, and no two on the same.
* `ChildrenBounded`, `TrialsCompleted` (`Trials`, from `TrialsAssumption`, `SpacesAssumption`
  and that `None` is no child; `SpacesAssumption` says that the recursive size of a grid is a
  natural number, which TLC evaluates for the spaces of the run and no prover can derive). A
  tick counts its room before it creates, and may be cut short between the two, so the
  invariant is that watched children and remaining room together stay within the concurrency
  (`TickInv`). The trials of a tick are those of the plan, or at least the remembered ones, and
  one is completed only if its child is, with a measurement (`EndInv`).

### Execution (`ExecutionProofs`)

* `ContextsOwned` (`EvalContext`): the cached context is some task's own context, whole, and a
  batch in hand that is loaded has that of its own task; a build that fails leaves the
  cache as it was, and a panic fails its batch alone.
* `IdsOrdered` (`BatchIds`): the generator stands where its last id was, and its clock is
  ahead of the real one only by whole runs of the counter, for every width and entropy.
* `SizesSafe` (`BatchSizing`): the size lies within the configuration in force, is the fixed
  one if there is one, and the mean cost lies between costs that occurred; a training window
  keeps the cap of its first chunk. The division of the cap among evaluators takes a few lemmas
  on quotients.
* `TimedOutKilled`, `WorkerSafe` (`ProcessWorker`): `Order` says that the numbers in the stdout
  pipe, the request being served and the numbers in the stdin pipe increase in this order and
  lie below the next one. An answer with the awaited number is therefore the newest, and nothing
  is left behind it.
* `BusyTime`, `DifferencesValid`, `MeasurementSteady` (`Telemetry`, assuming that `None` is
  neither a row nor an integer). `Lane`: what is accounted and what has passed since add up to
  the busy time. `Behind` and `Precedes`: a row of a living runner's epoch is behind the runner,
  and an earlier row behind a later one, in counters, busy time and wall time. `Apart`: no
  runner was started within the life of the one a row is of. A valid measurement has equal
  epochs from one snapshot to the next, hence (least counterexample) from first to last, and no
  birth fits between.

### Only model-checked

* Liveness (`BatchResolves`, `TaskEnds`, the five properties of `live`) and everything
  with `ENABLED`: beyond the prover.
* `AutoAssign`, and `MembershipOnly` and `Balanced` of `AssignmentPlan` (`PlacementsBest`):
  they compare the greedy choice with every other one, by counting and sorting.
* `GridExact` (what a recursion over parameters computes) and `SuggestionsNew` of `Trials`;
  `ZoomExact` and `WindowsCoverOnce` of `Telemetry`, which are folds over a history;
  `HistoryShown` of `TaskPanels`, which counts rows in powers of two; `Generation` and `Estimates`,
  whose statistics are sums over sequences of samples.
* `SampleDomain`, `SampleLayout` and `Documents` use recursive operators on trees and stay
  with TLC.

## 5. Not modelled

* Evaluator engines (symbolica, gammaloop, unit and test functions) and the floating-point
  part of samplers and accumulators: `Estimates` and `Generation` model which samples enter
  which sums and grids, not the numbers a grid takes.
* Contents and layout of dashboard panels, authentication, HTTP routing, the TypeScript
  frontend except the polling and merging of task panels.
* The command line, logging and notebook helpers: parsing and formatting around the
  operations modelled here.
* Preflight checks of individual configuration fields, other than those on which the queue,
  resources or documents depend.
* PostgreSQL itself: a statement or transaction is one action, row locks and advisory locks
  are guards.

## 6. Plan

The models cover the components of the inventory, and the safety properties that do not rest on
recursion, counting against all alternatives or sums over data are proved. What would say most
next:

1. `Generation`: values return to the samples and the grid they belong to, with sequences of
   awaited units in place of the recursive cutting;
2. `SuggestionsNew` of `Trials`, from an invariant on the points that a tick has planned;
3. `WorkQueue` as the environment of `SamplerRecovery`: that `EvaluateBatch` is what the work
   queue does to one row.
