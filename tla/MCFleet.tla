------------------------------ MODULE MCFleet ------------------------------
(***************************************************************************)
(* The modules of the worker fleet on small instances, side by side: a     *)
(* behaviour is one of the part it starts in, whose variables alone move.  *)
(* Variables of the other parts are Off.                                   *)
(***************************************************************************)
EXTENDS Integers, Sequences, FiniteSets, TLC

CONSTANTS
  None, Off,
  n1, n2, p1, p2, p3,      \* names and processes of NodeControl
  root1, ctrl1, child1,    \* a run of its own, and a controller with a child
  w1, w2, w3, l1, l2, q1, q2, q3,   \* names, launchers and requests of WorkerLaunch
  m1, m2, j1, j2, cli1,    \* nodes and removals of RunRemoval
  d1, d2                   \* nodes of Deploy

VARIABLES
  part,
  runs, proc, ops, faults, job, node, pool, desired,
  nodes, askedOf,
  req, work, starts, lch, local, bound, lapses,
  selected, snap,
  caps, recipe, auto,
  recorded, lease, lock, entries, held, plan, assigns,
  pc, db, child, signal, elapsed, nodeDeadline, timedOut, stopping, asked, deploys,
  dir, up, orphan, exists, schema, rows, backup, cmd, todo, ok

nodeVars    == <<nodes, askedOf>>
launchVars  == <<req, work, starts, lch, local, bound, lapses>>
planVars    == <<selected, snap>>
autoVars    == <<caps, recipe, auto>>
removalVars == <<recorded, lease, lock, entries, held, plan, assigns>>
deployVars  == <<pc, db, child, signal, elapsed, nodeDeadline, timedOut, stopping, asked, deploys>>
dbVars      == <<dir, up, orphan, exists, schema, rows, backup, cmd, todo, ok>>
vars == <<part, runs, proc, ops, faults, job, node, pool, desired, nodeVars, launchVars, planVars,
          autoVars, removalVars, deployVars, dbVars>>

NodeOff    == nodes = Off /\ askedOf = Off
LaunchOff  == req = Off /\ work = Off /\ starts = Off /\ lch = Off /\ local = Off /\ bound = Off /\ lapses = Off
PlanOff    == selected = Off /\ snap = Off
AutoOff    == caps = Off /\ recipe = Off /\ auto = Off
RemovalOff == /\ recorded = Off /\ lease = Off /\ lock = Off /\ entries = Off /\ held = Off
              /\ plan = Off /\ assigns = Off
DeployOff  == /\ pc = Off /\ db = Off /\ child = Off /\ signal = Off /\ elapsed = Off
              /\ nodeDeadline = Off /\ timedOut = Off /\ stopping = Off /\ asked = Off /\ deploys = Off
DbOff      == /\ dir = Off /\ up = Off /\ orphan = Off /\ exists = Off /\ schema = Off
              /\ rows = Off /\ backup = Off /\ cmd = Off /\ todo = Off /\ ok = Off

-----------------------------------------------------------------------------
(* The instances.                                                          *)

\* Three processes, two of which share a name, and one run.
Standalone == INSTANCE NodeControl WITH
  Names <- {n1, n2}, Procs <- {p1, p2, p3}, NameOf <- (p1 :> n1) @@ (p2 :> n1) @@ (p3 :> n2),
  Runs <- {root1}, Parent <- (root1 :> None), Launched <- {n1}, Controllers <- {},
  MaxStarts <- 1, MaxOps <- 2, MaxFaults <- 1

\* A controller and its child, two processes of one name.
Nested == INSTANCE NodeControl WITH
  Names <- {n1}, Procs <- {p1, p2}, NameOf <- (p1 :> n1) @@ (p2 :> n1),
  Runs <- {ctrl1, child1}, Parent <- (ctrl1 :> None) @@ (child1 :> ctrl1), Launched <- {n1},
  Controllers <- {ctrl1}, MaxStarts <- 2, MaxOps <- 3, MaxFaults <- 1

\* Two launchers of external requests for one name, through faults.
External == INSTANCE WorkerLaunch WITH
  Names <- {w1}, Reqs <- {q1, q2}, Launchers <- {l1, l2}, MaxConnections <- 27, PgReserved <- 3,
  MaxDeployments <- 2, MaxTokens <- 3, MaxOps <- 1, MaxLapses <- 0, MaxFaults <- 1

\* Two names for connections of two workers, or of one that samples: requests enough to resume one
\* of them, and a local launch that fails.
Budget == INSTANCE WorkerLaunch WITH
  Names <- {w2, w3}, Reqs <- {q1, q2, q3}, Launchers <- {l1}, MaxConnections <- 27, PgReserved <- 3,
  MaxDeployments <- 1, MaxTokens <- 1, MaxOps <- 2, MaxLapses <- 0, MaxFaults <- 1

\* Run 1 owns the pool; its children are 2, an integration, and 3, a controller of 4 and 5.
Below == (1 :> {2, 3}) @@ (3 :> {4, 5})
Choices == (1 :> {<<>>, <<3>>, <<2, 3>>, <<3, 2>>}) @@ (3 :> {<<4>>, <<4, 5>>, <<5, 4>>})
Planned == INSTANCE AssignmentPlan WITH
  Workers <- 1 .. 3, Root <- 1, Children <- Below, Selections <- Choices, MaxOps <- 1
Replanned == INSTANCE AssignmentPlan WITH
  Workers <- 1 .. 2, Root <- 1, Children <- Below, Selections <- Choices, MaxOps <- 2

\* Nodes that can only sample, only evaluate, or both, in several spellings; and refused ones.
Recipes ==
  { ("cores" :> 6), ("cpus" :> 1) @@ ("gpu" :> 1) @@ ("gres" :> <<0>>),
    ("tier" :> 1) @@ ("cpus-per-task" :> 4) @@ ("gres" :> <<1, 1>>),
    ("gpu" :> 1) @@ ("gres" :> <<1>>),
    ("mem" :> 1) @@ ("mem_per_cpu" :> 1), ("cores" :> 1) @@ ("cpus" :> 2) }
Chosen == INSTANCE AutoAssign WITH
  Workers <- 1 .. 4, Recipes <- Recipes, SamplerReq <- ("cpus" :> 2), EvaluatorReq <- ("gpu" :> 1),
  MaxSamplers <- 2, MinEvaluators <- 1, EvaluatorLimit <- 2, MaxOps <- 1

\* Two removals from the dashboard and one from the command line.
Removal == INSTANCE RunRemoval WITH
  Nodes <- {m1, m2}, Jobs <- {j1, j2, cli1}, Cli <- {cli1}, MaxAssigns <- 2, MaxFaults <- 1

Deployment == INSTANCE Deploy WITH
  Nodes <- {d1, d2}, EnsureStarted <- TRUE, SamplerDrain <- 2, NodeStop <- 1,
  KillFails <- FALSE, Deploys <- 2

AllCommands == {"start", "cluster", "stop", "delete", "reset", "backup", "restore"}
Database == INSTANCE LocalDb WITH Commands <- AllCommands, StopFails <- FALSE, Faults <- 3
Stubborn == INSTANCE LocalDb WITH Commands <- AllCommands, StopFails <- TRUE, Faults <- 2

ASSUME Instances ==
  /\ Standalone!NodeAssumption /\ Nested!NodeAssumption
  /\ External!LaunchAssumption /\ Budget!LaunchAssumption
  /\ Planned!RunAssumption /\ Chosen!PolicyAssumption /\ Removal!RemovalAssumption
  /\ Deployment!DrainAssumption /\ Deployment!DeploysAssumption /\ Deployment!FlagAssumption
  /\ Database!CommandsAssumption /\ Database!FaultsAssumption /\ Stubborn!FaultsAssumption

-----------------------------------------------------------------------------
(* The sum.                                                                *)

\* What is off in a part, and what its steps leave alone.
NotNode ==
  /\ LaunchOff /\ PlanOff /\ AutoOff /\ RemovalOff /\ DeployOff /\ DbOff
  /\ job = Off /\ node = Off /\ pool = Off /\ desired = Off
notNode == <<part, launchVars, planVars, autoVars, removalVars, deployVars, dbVars,
             job, node, pool, desired>>
NotLaunch ==
  /\ NodeOff /\ PlanOff /\ AutoOff /\ RemovalOff /\ DeployOff /\ DbOff
  /\ runs = Off /\ proc = Off /\ pool = Off /\ desired = Off
notLaunch == <<part, nodeVars, planVars, autoVars, removalVars, deployVars, dbVars,
               runs, proc, pool, desired>>
NotPlan ==
  /\ NodeOff /\ LaunchOff /\ AutoOff /\ RemovalOff /\ DeployOff /\ DbOff
  /\ runs = Off /\ proc = Off /\ faults = Off /\ job = Off /\ node = Off
notPlan == <<part, nodeVars, launchVars, autoVars, removalVars, deployVars, dbVars,
             runs, proc, faults, job, node>>
NotAuto ==
  /\ NodeOff /\ LaunchOff /\ PlanOff /\ RemovalOff /\ DeployOff /\ DbOff
  /\ runs = Off /\ proc = Off /\ faults = Off /\ job = Off /\ node = Off /\ desired = Off
notAuto == <<part, nodeVars, launchVars, planVars, removalVars, deployVars, dbVars,
             runs, proc, faults, job, node, desired>>
NotRemoval ==
  /\ NodeOff /\ LaunchOff /\ PlanOff /\ AutoOff /\ DeployOff /\ DbOff
  /\ ops = Off /\ node = Off
notRemoval == <<part, nodeVars, launchVars, planVars, autoVars, deployVars, dbVars,
                ops, node>>
NotDeploy ==
  /\ NodeOff /\ LaunchOff /\ PlanOff /\ AutoOff /\ RemovalOff /\ DbOff
  /\ runs = Off /\ proc = Off /\ ops = Off /\ faults = Off /\ job = Off /\ pool = Off /\ desired = Off
notDeploy == <<part, nodeVars, launchVars, planVars, autoVars, removalVars, dbVars,
               runs, proc, ops, faults, job, pool, desired>>
NotDb ==
  /\ NodeOff /\ LaunchOff /\ PlanOff /\ AutoOff /\ RemovalOff /\ DeployOff
  /\ runs = Off /\ proc = Off /\ ops = Off /\ job = Off /\ node = Off /\ pool = Off /\ desired = Off
notDb == <<part, nodeVars, launchVars, planVars, autoVars, removalVars, deployVars,
           runs, proc, ops, job, node, pool, desired>>

Init ==
  \/ part = "standalone" /\ Standalone!Init /\ NotNode
  \/ part = "nested" /\ Nested!Init /\ NotNode
  \/ part = "external" /\ External!Init /\ NotLaunch
  \/ part = "budget" /\ Budget!Init /\ NotLaunch
  \/ part = "planned" /\ Planned!Init /\ NotPlan
  \/ part = "replanned" /\ Replanned!Init /\ NotPlan
  \/ part = "chosen" /\ Chosen!Init /\ NotAuto
  \/ part = "removal" /\ Removal!Init /\ NotRemoval
  \/ part = "deployment" /\ Deployment!Init /\ NotDeploy
  \/ part = "database" /\ Database!Init /\ NotDb
  \/ part = "stubborn" /\ Stubborn!Init /\ NotDb

Next ==
  \/ part = "standalone" /\ Standalone!Next /\ UNCHANGED notNode
  \/ part = "nested" /\ Nested!Next /\ UNCHANGED notNode
  \/ part = "external" /\ External!Next /\ UNCHANGED notLaunch
  \/ part = "budget" /\ Budget!Next /\ UNCHANGED notLaunch
  \/ part = "planned" /\ Planned!Next /\ UNCHANGED notPlan
  \/ part = "replanned" /\ Replanned!Next /\ UNCHANGED notPlan
  \/ part = "chosen" /\ Chosen!Next /\ UNCHANGED notAuto
  \/ part = "removal" /\ Removal!Next /\ UNCHANGED notRemoval
  \/ part = "deployment" /\ Deployment!Next /\ UNCHANGED notDeploy
  \/ part = "database" /\ Database!Next /\ UNCHANGED notDb
  \/ part = "stubborn" /\ Stubborn!Next /\ UNCHANGED notDb
Spec == Init /\ [][Next]_vars

-----------------------------------------------------------------------------
(* The properties of the parts: invariants and action properties.          *)

\* Node control plane (control_plane.rs, node_runner): whatever leases lapse, processes crash,
\* share a name and supersede each other, and operators assign, pause, suspend and remove, a run
\* has one sampler in the pool and one on record, a row records the role its own process runs,
\* only that process releases it, a shutdown request reaches the process it was made of, and the
\* assignments of a suspended worker are kept for its resume.
RolesOwned ==
  /\ [](part = "standalone" =>
         /\ Standalone!TypeOK /\ Standalone!PoolSamplerUnique /\ Standalone!CurrentSamplerUnique
         /\ Standalone!ShutdownTargeted /\ Standalone!CurrentOwned)
  /\ [](part = "nested" => Nested!TypeOK /\ Nested!CurrentSamplerUnique /\ Nested!CurrentOwned)
  /\ [][part = "standalone" => Standalone!OnlyOwnerReleases /\ Standalone!SuspendedKept]_vars
  /\ [][part = "nested" => Nested!SuspendedKept]_vars

\* Worker launches (external_launch.rs, ubelix.py, connection_budget.rs): through launcher
\* crashes, lost leases and superseding, a reservation starts at most one process, live workers
\* fit the connections they were admitted for and are of the bound deployment, a fulfilled request had its
\* workers, and a worker recorded as connected stays so.
LaunchedOnce ==
  /\ [](part = "external" =>
         /\ External!TypeOK /\ External!OneJobPerReservation /\ External!CohortsSeparate
         /\ External!WithinBudget /\ External!FulfilledTruthful)
  /\ [](part = "budget" => Budget!WithinBudget /\ Budget!FulfilledTruthful)
  /\ [][part = "external" => External!ConnectedStays]_vars

\* Nested assignment plans (controller_child.rs, update_desired_assignments): plans made from
\* stale reads of two levels of controllers, and the operator's changes, never put a node to
\* work outside its pool role, nor two samplers on a run, nor free a node or move a sampler
\* that is still selected.
PlansAgree ==
  /\ [](part = "planned" => Planned!PoolOwned /\ Planned!OneSampler)
  /\ [](part = "replanned" => Replanned!PoolOwned /\ Replanned!OneSampler)
  /\ [][part = "planned" => Planned!SamplerStays /\ Planned!NeverFreed]_vars
  /\ [][part = "replanned" => Replanned!SamplerStays /\ Replanned!NeverFreed]_vars

\* Automatic assignment (plan_auto_roles, normalize_resources): the greedy choice keeps as many
\* runs active as any choice of roles could, and a stored recipe is a fixed point of the
\* normalization its node's capabilities came from.  Nested plans (controller_child.rs): a plan
\* depends on the selected set alone, not on priorities, and spreads the evaluators evenly.
PlacementsBest ==
  /\ part = "chosen" => Chosen!TypeOK /\ Chosen!BestBundles /\ Chosen!CanonicalRecipe
  /\ part = "planned" => Planned!TypeOK /\ Planned!MembershipOnly /\ Planned!Balanced

\* Run removal (run_removals.rs): one dashboard operation at a time, and no worker that ran a
\* role of the tree when removal began and still has its lease runs it when the tree is deleted.
RemovalDrains ==
  /\ [](part = "removal" => Removal!TypeOK /\ Removal!OneOperation)
  /\ [][part = "removal" => Removal!HeldDrained]_vars

\* Deployment (deploy.rs): whatever fails and whenever it is signalled, a deploy that returned
\* left neither backend nor nginx behind, and Postgres is not stopped under a suspended sampler
\* that the drain was waiting for.
DeployCleansUp ==
  /\ [](part = "deployment" => Deployment!TypeOK /\ Deployment!NoOrphans)
  /\ [][part = "deployment" => Deployment!DrainedBeforeStop]_vars

\* Local database commands (db.rs): after any history of interrupted commands a restore that
\* reports success has exactly the backup's rows, no start destroys rows, and no server is left
\* on a removed directory where pg_ctl stop works.
DatabaseKept ==
  /\ [](part = "database" => Database!TypeOK /\ Database!RestoreExact /\ Database!NoOrphanServer)
  /\ [](part = "stubborn" => Stubborn!TypeOK /\ Stubborn!RestoreExact)
  /\ [][(part = "database" => Database!StartKeepsRows) /\ (part = "stubborn" => Stubborn!StartKeepsRows)]_vars

Symmetry == Permutations({p1, p2}) \cup Permutations({w2, w3}) \cup Permutations({l1, l2}) \cup Permutations({d1, d2})
=============================================================================
