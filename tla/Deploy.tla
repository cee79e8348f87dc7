------------------------------- MODULE Deploy -------------------------------
(***************************************************************************)
(* `gammaboard deploy` (cli/deploy.rs): the foreground supervisor that     *)
(* starts the local Postgres, the API backend and nginx, waits for their   *)
(* health, supervises them, and on a signal, a dashboard shutdown or a     *)
(* child's death suspends the workers, waits for the samplers to save      *)
(* (api/nodes.rs) and stops everything.  Workers are separate processes:   *)
(* they run on while the supervisor starts, stops or is started again, and *)
(* a sampler saves its checkpoint into the database as it stops.           *)
(***************************************************************************)
EXTENDS Naturals, FiniteSets

CONSTANTS
  Nodes,          \* the worker nodes
  EnsureStarted,  \* database.ensure_started: the supervisor owns Postgres
  SamplerDrain,   \* cleanup.sampler_drain_timeout_seconds, in ticks
  NodeStop,       \* cleanup.node_stop_timeout_seconds, in ticks
  KillFails,      \* the termination of a child may fail
  Deploys         \* bound: how often the operator runs deploy

DrainAssumption == SamplerDrain \in Nat /\ NodeStop \in Nat /\ SamplerDrain + NodeStop > 0
DeploysAssumption == Deploys \in Nat \ {0}
FlagAssumption == {EnsureStarted, KillFails} \subseteq BOOLEAN

VARIABLES
  pc,        \* where deploy_run stands
  db,        \* Postgres is up
  child,     \* child["backend"], child["nginx"]: the process
  signal,    \* an interrupt or a SIGTERM is pending
  elapsed,   \* ticks since the suspension began
  nodeDeadline, \* node_deadline: a tick, or Unset
  timedOut,  \* sampler_drain_timed_out, and once the wait is over its outcome
  node,      \* node[n]: what the worker process is doing
  stopping,  \* stopping[n]: shutdown_requested_at is set
  asked,     \* ghost: the nodes a deployment suspended and its drain is to judge, until they leave
  deploys    \* how often deploy was run

vars == <<pc, db, child, signal, elapsed, nodeDeadline, timedOut, node, stopping, asked, deploys>>
deployVars == <<pc, child, elapsed, nodeDeadline, timedOut, deploys>>
drainVars == <<elapsed, nodeDeadline, timedOut>>
nodeVars == <<node, stopping, asked>>

Unset == SamplerDrain + NodeStop + NodeStop + 1  \* past every deadline
Running == {"up", "leaving"}
Exited == {"none", "ok", "failed", "killed"}
Waiting == {"suspend", "drain"}

Init ==
  /\ pc = "idle" /\ db = ~EnsureStarted
  /\ child = [c \in {"backend", "nginx"} |-> "none"]
  /\ signal = FALSE
  /\ elapsed = 0 /\ nodeDeadline = Unset /\ timedOut = FALSE
  /\ node = [n \in Nodes |-> "off"] /\ stopping = [n \in Nodes |-> FALSE] /\ asked = {}
  /\ deploys = 0

(***************************************************************************)
(* Startup.  Everything that can refuse the deployment without having      *)
(* started anything comes first.                                           *)
(***************************************************************************)
\* The operator runs deploy: signals are registered, the configuration, the ports and
\* the frontend build are checked, or the command fails having touched nothing.
Begin ==
  /\ pc = "idle" /\ deploys < Deploys
  /\ pc' \in {"database", "done"}
  /\ deploys' = deploys + 1 /\ signal' = FALSE
  /\ child' = [c \in DOMAIN child |-> "none"]
  /\ elapsed' = 0 /\ nodeDeadline' = Unset /\ timedOut' = FALSE
  /\ UNCHANGED <<db, nodeVars>>

\* start_db (module LocalDb), then the store, the runtime directories and the nginx
\* configuration; a failure here returns at once and leaves Postgres as it is.
StartDatabase ==
  /\ pc = "database"
  /\ \/ /\ db' = (db \/ EnsureStarted)
        /\ pc' \in {"backend", "done"}
     \/ /\ pc' = "done" /\ UNCHANGED db
  /\ db' \/ pc' = "done"
  /\ UNCHANGED <<child, signal, drainVars, nodeVars, deploys>>

\* start_backend: a spawn that fails returns at once.
StartBackend ==
  /\ pc = "backend"
  /\ \/ child' = [child EXCEPT !["backend"] = "up"] /\ pc' = "backendHealth"
     \/ pc' = "done" /\ UNCHANGED child
  /\ UNCHANGED <<db, signal, drainVars, nodeVars, deploys>>

\* start_nginx: a spawn that fails goes through cleanup_failed_start.
StartNginx ==
  /\ pc = "nginx"
  /\ \/ child' = [child EXCEPT !["nginx"] = "up"] /\ pc' = "nginxHealth"
     \/ pc' = "failedNginx" /\ UNCHANGED child
  /\ UNCHANGED <<db, signal, drainVars, nodeVars, deploys>>

\* wait_for_health: the child answers, or it exits or the 15 s pass.
WaitForHealth(c, at, next) ==
  /\ pc = at
  /\ \/ child[c] \in Running /\ pc' = next
     \/ pc' = "failedNginx"
  /\ UNCHANGED <<db, child, signal, drainVars, nodeVars, deploys>>

\* enqueue_resumed_workers and resolve_local_requests (module WorkerLaunch): workers come
\* up by themselves (Launch below); an error goes through the whole cleanup.
ResumeWorkers ==
  /\ pc = "resume"
  /\ pc' \in {"supervise", "suspend"}
  /\ UNCHANGED <<db, child, signal, drainVars, nodeVars, deploys>>

(***************************************************************************)
(* Supervision and shutdown.                                               *)
(***************************************************************************)
\* supervise_children: a signal, a backend that left successfully or a child that died
\* ends it; signals that came during startup are still pending here.
SeesEndUnsignalled == child["backend"] \notin Running \/ child["nginx"] \notin Running
SeesEnd == signal \/ child["backend"] \notin Running \/ child["nginx"] \notin Running

Supervise ==
  /\ pc = "supervise" /\ SeesEnd
  /\ pc' = "suspend"
  /\ UNCHANGED <<db, child, signal, drainVars, nodeVars, deploys>>

\* The live nodes, and those recorded with a current sampler assignment.
Live == {n \in Nodes : node[n] # "off"}
ActiveSamplers == {n \in Nodes : node[n] \in {"sampler", "saving"}}

Building == {n \in Nodes : node[n] = "building"}

Suspended == [n \in Nodes |-> stopping[n] \/ node[n] # "off"]

\* suspend_nodes_gracefully: every live node is asked to stop, within the bound; one that
\* builds a sampler will notice when it has been built.
SuspendWorkers ==
  /\ pc = "suspend"
  /\ db /\ stopping' = Suspended /\ asked' = asked \cup (Live \ Building)
  /\ pc' = "drain"
  /\ UNCHANGED <<db, child, signal, drainVars, node, deploys>>

TimedOutKept(due) == timedOut
TimedOutAfter(due) == IF due THEN ActiveSamplers # {} ELSE timedOut

\* wait_for_graceful_node_shutdown, one poll: the node deadline starts at the first poll
\* that finds no sampler or comes after the sampler deadline; timedOut is what the last
\* such poll saw.
Poll ==
  LET due == ActiveSamplers = {} \/ elapsed >= SamplerDrain
      deadline == IF due /\ nodeDeadline = Unset THEN elapsed + NodeStop ELSE nodeDeadline
  IN /\ pc = "drain" /\ db
     /\ timedOut' = TimedOutAfter(due)
     /\ nodeDeadline' = deadline
     /\ pc' = IF Live = {} \/ elapsed >= deadline THEN "stopNginx" ELSE "drain"
     /\ UNCHANGED <<db, child, signal, elapsed, nodeVars, deploys>>

\* Time passes; bounded_shutdown allows the two timeouts together.
Tick ==
  /\ pc \in Waiting /\ elapsed < SamplerDrain + NodeStop
  /\ elapsed' = elapsed + 1
  /\ UNCHANGED <<pc, db, child, signal, nodeDeadline, timedOut, nodeVars, deploys>>

\* bounded_shutdown expires, or a statement fails at any time: an error, which counts as a drain that
\* did not complete.
DrainFails ==
  /\ pc \in Waiting
  /\ timedOut' = TRUE /\ pc' = "stopNginx"
  /\ UNCHANGED <<db, child, signal, elapsed, nodeDeadline, nodeVars, deploys>>

\* terminate_child: SIGTERM, five seconds, SIGKILL.
Terminated(c) == [child EXCEPT ![c] = IF @ \in Running THEN "killed" ELSE @]

\* cleanup_deploy: nginx, then the backend; an error skips the rest.
StopChild(c, at, next) ==
  /\ pc = at
  /\ \/ child' = Terminated(c) /\ pc' = next
     \/ KillFails /\ child[c] \in Running /\ pc' = "done" /\ UNCHANGED child
  /\ UNCHANGED <<db, signal, drainVars, nodeVars, deploys>>

StopNginx == StopChild("nginx", "stopNginx", "stopBackend")
StopBackend == StopChild("backend", "stopBackend", "stopDatabase")

\* The last step of cleanup_deploy: the database is left running for a sampler that did
\* not finish.  stop_db ignores a pg_ctl that fails.
StopDatabase ==
  /\ pc = "stopDatabase" /\ pc' = "done"
  /\ IF ~timedOut /\ EnsureStarted THEN db' \in {FALSE, db} ELSE UNCHANGED db
  /\ UNCHANGED <<child, signal, drainVars, nodeVars, deploys>>

\* cleanup_failed_start: nginx if it was started, the backend, Postgres; errors are only
\* reported.
CleanupFailedStart ==
  /\ pc = "failedNginx" /\ pc' = "done"
  /\ \E failed \in SUBSET (IF KillFails THEN {"backend", "nginx"} ELSE {}) :
       child' = [c \in DOMAIN child |-> IF c \in failed THEN child[c] ELSE Terminated(c)[c]]
  /\ IF EnsureStarted THEN db' \in {FALSE, db} ELSE UNCHANGED db
  /\ UNCHANGED <<signal, drainVars, nodeVars, deploys>>

\* The command returned; the shell is free for the next one.  A second deployment starts
\* only on free ports (preflight_deploy_ports).
Return ==
  /\ pc = "done" /\ deploys < Deploys
  /\ \A c \in DOMAIN child : child[c] \in Exited
  /\ pc' = "idle"
  /\ UNCHANGED <<db, child, signal, drainVars, nodeVars, deploys>>

(***************************************************************************)
(* The environment: the operator, the children and the workers.            *)
(***************************************************************************)
\* Ctrl-C or SIGTERM at any moment.
Signal ==
  /\ pc \notin {"idle", "done"} /\ ~signal
  /\ signal' = TRUE
  /\ UNCHANGED <<deployVars, db, nodeVars>>

\* A child dies.
ChildDies(c) ==
  /\ child[c] \in Running
  /\ child' = [child EXCEPT ![c] = "failed"]
  /\ UNCHANGED <<pc, db, signal, drainVars, nodeVars, deploys>>

\* The dashboard asks the backend to shut down: it suspends the workers itself, drains
\* and leaves with status 0 whatever the drain's outcome.
DashboardShutdown ==
  /\ child["backend"] = "up" /\ db
  /\ child' = [child EXCEPT !["backend"] = "leaving"]
  /\ stopping' = Suspended
  /\ UNCHANGED <<pc, db, signal, drainVars, node, asked, deploys>>

BackendLeaves ==
  /\ child["backend"] = "leaving"
  /\ child' = [child EXCEPT !["backend"] = "ok"]
  /\ UNCHANGED <<pc, db, signal, drainVars, nodeVars, deploys>>

\* A worker process registers its node; behind the suspension nothing asks it to stop.
Launch(n) ==
  /\ db /\ node[n] = "off"
  /\ node' = [node EXCEPT ![n] = "idle"] /\ stopping' = [stopping EXCEPT ![n] = FALSE]
  /\ UNCHANGED <<deployVars, db, signal, asked>>

\* reconcile: a node not asked to stop builds the sampler it is assigned, which takes a
\* while during which it is not recorded as a sampler.
BuildSampler(n) ==
  /\ db /\ node[n] = "idle" /\ ~stopping[n]
  /\ node' = [node EXCEPT ![n] = "building"]
  /\ UNCHANGED <<deployVars, db, signal, stopping, asked>>

\* A sampler that is recorded now is seen by a poll after the sampler deadline, or not at all.
Judged == pc = "drain" /\ nodeDeadline >= SamplerDrain

\* start: the assignment is recorded, or the build fails without the database.
SamplerStarted(n) ==
  /\ node[n] = "building"
  /\ node' = [node EXCEPT ![n] = IF db THEN "sampler" ELSE "idle"]
  /\ asked' = IF db /\ stopping[n] /\ Judged THEN asked \cup {n} ELSE asked
  /\ UNCHANGED <<deployVars, db, signal, stopping>>

\* A node that is asked to stop stops its sampler, which saves, or leaves.
BeginStop(n) ==
  /\ db /\ stopping[n] /\ node[n] \in {"idle", "sampler"}
  /\ node' = [node EXCEPT ![n] = IF @ = "idle" THEN "off" ELSE "saving"]
  /\ asked' = IF node[n] = "idle" THEN asked \ {n} ELSE asked
  /\ UNCHANGED <<deployVars, db, signal, stopping>>

\* The checkpoint is written, or cannot be without the database; the node leaves.
EndSaving(n) ==
  /\ node[n] = "saving"
  /\ node' = [node EXCEPT ![n] = "off"]
  /\ asked' = asked \ {n}
  /\ UNCHANGED <<deployVars, db, signal, stopping>>

DeployStep ==
  \/ StartDatabase \/ StartBackend \/ StartNginx
  \/ WaitForHealth("backend", "backendHealth", "nginx")
  \/ WaitForHealth("nginx", "nginxHealth", "resume")
  \/ ResumeWorkers \/ Supervise \/ SuspendWorkers \/ Poll \/ Tick \/ DrainFails
  \/ StopNginx \/ StopBackend \/ StopDatabase \/ CleanupFailedStart

NodeStep == \E n \in Nodes :
  Launch(n) \/ BuildSampler(n) \/ SamplerStarted(n) \/ BeginStop(n) \/ EndSaving(n)

Next ==
  \/ DeployStep \/ NodeStep
  \/ Begin \/ Return \/ Signal \/ DashboardShutdown \/ BackendLeaves
  \/ \E c \in {"backend", "nginx"} : ChildDies(c)

Spec == Init /\ [][Next]_vars

-----------------------------------------------------------------------------
\* Types.
TypeOK ==
  /\ pc \in {"idle", "database", "backend", "backendHealth", "nginx", "nginxHealth", "resume",
             "supervise", "suspend", "drain", "stopNginx", "stopBackend", "stopDatabase",
             "failedNginx", "done"}
  /\ db \in BOOLEAN /\ signal \in BOOLEAN /\ timedOut \in BOOLEAN
  /\ child \in [{"backend", "nginx"} -> Running \cup Exited]
  /\ elapsed \in 0..(SamplerDrain + NodeStop) /\ nodeDeadline \in 0..Unset
  /\ node \in [Nodes -> {"off", "idle", "building", "sampler", "saving"}]
  /\ stopping \in [Nodes -> BOOLEAN] /\ asked \subseteq Nodes /\ deploys \in 0..Deploys

\* Whatever failed during startup and however supervision ended, a deploy that returned
\* leaves neither the backend nor nginx behind to hold the ports (cleanup_failed_start,
\* cleanup_deploy).
NoOrphans == pc = "done" => \A c \in DOMAIN child : child[c] \in Exited

Unsaved == ActiveSamplers \cap asked

\* The supervisor that drained its workers does not stop Postgres under a suspended sampler
\* that is still running or saving, however the drain, its two deadlines and the samplers'
\* own progress interleave (cleanup_deploy): neither one that was recorded when it suspended
\* them nor one that was being built and is recorded while the drain waits, unless a poll that
\* saw no sampler had already set a node deadline before the sampler deadline.
DrainedBeforeStop == pc = "stopDatabase" /\ db /\ ~db' => Unsaved = {}

\* Deployment as a whole: no process is left behind and Postgres waits for suspended samplers.
DeployCleansUp == [](TypeOK /\ NoOrphans) /\ [][DrainedBeforeStop]_vars
=============================================================================
