------------------------------ MODULE MCLive -------------------------------
(***************************************************************************)
(* What must eventually happen in the control plane, on small instances    *)
(* side by side: a behaviour is one of the part it starts in, whose        *)
(* variables alone move; the variables of the other parts are Off.         *)
(***************************************************************************)
EXTENDS Integers, Sequences, FiniteSets, TLC

CONSTANTS
  None, Off,
  n1, p1, p2, root1,    \* a name, its processes and a run of NodeControl
  w1, l1, l2, q1,       \* a name, launchers and a request of WorkerLaunch
  t1, t2,               \* task names of TaskQueue
  k1, k2,               \* children of Campaign
  d1                    \* a node of Deploy

VARIABLES
  part,
  ops, faults, node, ctl, role,
  runs, nodes, proc, askedOf,
  req, work, job, starts, lch, local, bound, lapses,
  queue, stages, open, assigned, editor, lock, live, ids, edits,
  task, kid, grant, placed, slots, out, peak,
  pc, db, child, signal, elapsed, nodeDeadline, timedOut, stopping, asked, deploys

nodeVars == <<runs, nodes, proc, askedOf>>
launchVars == <<req, work, job, starts, lch, local, bound, lapses>>
queueVars == <<queue, stages, open, assigned, editor, lock, live, ids, edits>>
campaignVars == <<task, kid, grant, placed, slots, out, peak>>
deployVars == <<pc, db, child, signal, elapsed, nodeDeadline, timedOut, stopping, asked, deploys>>
vars == <<part, ops, faults, node, ctl, role, nodeVars, launchVars, queueVars, campaignVars,
          deployVars>>

NodeOff == runs = Off /\ nodes = Off /\ proc = Off /\ askedOf = Off
LaunchOff == req = Off /\ work = Off /\ job = Off /\ starts = Off /\ lch = Off /\ local = Off /\
             bound = Off /\ lapses = Off
QueueOff == queue = Off /\ stages = Off /\ open = Off /\ assigned = Off /\ editor = Off /\
            lock = Off /\ live = Off /\ ids = Off /\ edits = Off
CampaignOff == task = Off /\ kid = Off /\ grant = Off /\ placed = Off /\ slots = Off /\ out = Off /\
               peak = Off
DeployOff == pc = Off /\ db = Off /\ child = Off /\ signal = Off /\ elapsed = Off /\
             nodeDeadline = Off /\ timedOut = Off /\ stopping = Off /\ asked = Off /\ deploys = Off

-----------------------------------------------------------------------------
(* The instances.                                                          *)

Node == INSTANCE NodeControl WITH
  Names <- {n1}, Procs <- {p1, p2}, NameOf <- (p1 :> n1) @@ (p2 :> n1), Runs <- {root1},
  Parent <- (root1 :> None), Launched <- {n1}, Controllers <- {}, MaxStarts <- 1, MaxOps <- 2, MaxFaults <- 1

Launched == INSTANCE WorkerLaunch WITH
  Names <- {w1}, Reqs <- {q1}, Launchers <- {l1, l2}, MaxConnections <- 27, PgReserved <- 3,
  MaxDeployments <- 2, MaxTokens <- 3, MaxOps <- 1, MaxLapses <- 0, MaxFaults <- 1

Task(sort, ev, sm, ac) == [kind |-> sort, ev |-> ev, sm |-> sm, ac |-> ac, from |-> None]
Tasks == INSTANCE TaskQueue WITH
  Names <- {t1, t2}, Editors <- {}, Controllers <- {1, 2}, RootEvaluator <- TRUE, MaxSeq <- 3,
  Defs <- {Task("set_accumulator", "none", "none", "config"), Task("sample", "config", "training", "config")},
  MaxEdits <- 0, MaxFaults <- 1

Shared == INSTANCE Campaign WITH
  Children <- {k1, k2}, Cap <- 4, Window <- 1, MinSamples <- 2, MinTotal <- 3, Train <- 0, Size <- 2,
  MaxSlots <- 1, MaxFaults <- 1

\* A child may survive the first kill.
Deployment == INSTANCE Deploy WITH
  Nodes <- {d1}, EnsureStarted <- TRUE, SamplerDrain <- 2, NodeStop <- 1,
  KillFails <- TRUE, Deploys <- 1

ASSUME Instances ==
  /\ Node!NodeAssumption /\ Launched!LaunchAssumption /\ Tasks!TaskQueueAssumption /\ Shared!CampaignAssumption
  /\ Deployment!DrainAssumption /\ Deployment!DeploysAssumption /\ Deployment!FlagAssumption

-----------------------------------------------------------------------------
(* The sum.                                                                *)

\* What is off in a part, and what its steps leave alone.
NotNode ==
  /\ LaunchOff /\ QueueOff /\ CampaignOff /\ DeployOff
  /\ node = Off /\ ctl = Off /\ role = Off
notNode == <<part, launchVars, queueVars, campaignVars, deployVars, node, ctl, role>>
NotLaunch ==
  /\ NodeOff /\ QueueOff /\ CampaignOff /\ DeployOff
  /\ ctl = Off /\ role = Off
notLaunch == <<part, nodeVars, queueVars, campaignVars, deployVars, ctl, role>>
NotQueue ==
  /\ NodeOff /\ LaunchOff /\ CampaignOff /\ DeployOff
  /\ ops = Off /\ node = Off
notQueue == <<part, nodeVars, launchVars, campaignVars, deployVars, ops, node>>
NotCampaign ==
  /\ NodeOff /\ LaunchOff /\ QueueOff /\ DeployOff
  /\ ops = Off /\ node = Off
notCampaign == <<part, nodeVars, launchVars, queueVars, deployVars, ops, node>>
NotDeploy ==
  /\ NodeOff /\ LaunchOff /\ QueueOff /\ CampaignOff
  /\ ops = Off /\ faults = Off /\ ctl = Off /\ role = Off
notDeploy == <<part, nodeVars, launchVars, queueVars, campaignVars, ops, faults, ctl, role>>

Init ==
  \/ part = "nodes" /\ Node!Init /\ NotNode
  \/ part = "launch" /\ Launched!Init /\ NotLaunch
  \/ part = "queue" /\ Tasks!Init /\ NotQueue
  \/ part = "campaign" /\ Shared!Init /\ NotCampaign
  \/ part = "deploy" /\ Deployment!Init /\ NotDeploy

\* These parts may come to rest; the others never do.
Rest == part \in {"nodes", "launch", "queue", "deploy"} /\ UNCHANGED vars

Next ==
  \/ part = "nodes" /\ Node!Next /\ UNCHANGED notNode
  \/ part = "launch" /\ Launched!Next /\ UNCHANGED notLaunch
  \/ part = "queue" /\ Tasks!Next /\ UNCHANGED notQueue
  \/ part = "campaign" /\ Shared!Next /\ UNCHANGED notCampaign
  \/ part = "deploy" /\ Deployment!Next /\ UNCHANGED notDeploy
  \/ Rest

-----------------------------------------------------------------------------
(* Fairness: loops that repeat by themselves and time that passes.         *)
(* Operators, schedulers and faults owe nothing.                           *)

OfNode(A)     == part = "nodes" /\ A /\ UNCHANGED notNode
OfLaunch(A)   == part = "launch" /\ A /\ UNCHANGED notLaunch
OfQueue(A)    == part = "queue" /\ A /\ UNCHANGED notQueue
OfCampaign(A) == part = "campaign" /\ A /\ UNCHANGED notCampaign
OfDeploy(A)   == part = "deploy" /\ A /\ UNCHANGED notDeploy

\* A process that no longer renews.
Dead(p) == p # None /\ proc[p].phase \in {"off", "gone"}

\* The renewal task and the loop of a process are always scheduled, and ten seconds pass
\* after the last renewal of a process that has ended.
NodeFair ==
  /\ \A p \in {p1, p2} :
       /\ WF_vars(OfNode(Node!Announce(p))) /\ WF_vars(OfNode(Node!LeaseFatal(p)))
       /\ WF_vars(OfNode(Node!ConsumeShutdown(p))) /\ WF_vars(OfNode(Node!Reconcile(p)))
       /\ WF_vars(OfNode(Node!ReconcileIdle(p))) /\ WF_vars(OfNode(Node!Stop(p)))
       /\ WF_vars(OfNode(Node!Start(p) \/ Node!StartDeferred(p)))
       /\ WF_vars(OfNode(Node!Leave(p)))
  /\ WF_vars(OfNode(Dead(nodes[n1].uuid) /\ Node!LeaseLapses(n1)))

\* Launchers keep going, and one of them asks again and again for the requests that are free;
\* the lease of a dead one expires; a job that runs registers, and its registration reconciles.
\* Nothing is assumed of the scheduler: a job may wait or run for ever.
LaunchFair ==
  /\ \A l \in {l1, l2} :
       /\ WF_vars(OfLaunch(Launched!Visit(l, w1))) /\ WF_vars(OfLaunch(Launched!Intend(l)))
       /\ WF_vars(OfLaunch(Launched!Sbatch(l))) /\ WF_vars(OfLaunch(Launched!Receipt(l)))
       /\ WF_vars(OfLaunch(Launched!EndPass(l)))
  /\ WF_vars(OfLaunch(\E l \in {l1, l2} : Launched!Claim(l, q1)))
  /\ WF_vars(OfLaunch(~Launched!Renewed(q1) /\ Launched!LauncherLeaseExpires(q1)))
  /\ WF_vars(OfLaunch(Launched!ReconcileFulfilled))

\* Every live control loop keeps ticking, the role and the evaluators keep working.
QueueFair ==
  /\ \A loop \in {1, 2} : WF_vars(OfQueue(Tasks!ControlStep(loop)))
  /\ WF_vars(OfQueue(Tasks!RoleStep)) /\ SF_vars(OfQueue(Tasks!SaveStage)) /\ WF_vars(OfQueue(Tasks!Drain))

\* The control loop keeps ticking, and every placed sampler keeps working and publishing.
CampaignFair ==
  /\ WF_vars(OfCampaign(Shared!TickStep))
  /\ \A k \in {k1, k2} :
       /\ WF_vars(OfCampaign(Shared!StartRole(k))) /\ WF_vars(OfCampaign(Shared!Produce(k)))
       /\ WF_vars(OfCampaign(Shared!Ingest(k))) /\ WF_vars(OfCampaign(Shared!Publish(k)))
       /\ WF_vars(OfCampaign(Shared!EndRole(k)))

\* The supervisor runs, the clock advances and the backend's own bounded drain ends; nothing is
\* assumed of the workers, the children or the operator.
DeployFair == WF_vars(OfDeploy(Deployment!DeployStep)) /\ WF_vars(OfDeploy(Deployment!Tick))

FairSpec ==
  /\ Init /\ [][Next]_vars
  /\ NodeFair /\ LaunchFair /\ QueueFair /\ CampaignFair /\ DeployFair

-----------------------------------------------------------------------------
(* Properties                                                              *)

\* A standing shutdown request ends the process it was made of, whatever role it was starting or
\* running (NodeRunner::run), unless the process loses its name, its resume withdraws the request,
\* or the answer with it is lost and nobody asks again.
ShutdownHonoured ==
  \A p \in {p1, p2} :
    []((part = "nodes" /\ Node!AskedToLeave(p)) =>
         <>((part = "nodes" => Node!HasLeft(p)) \/ [](part = "nodes" /\ Node!Unheard(p))))

\* Every external launch request ends although launchers crash and are superseded, unless its
\* submission stays without a receipt and without a job, which only an operator may repeat, or
\* its job stays queued (external_launch.rs, reconcile_launch_requests).
RequestResolves ==
  []((part = "launch" /\ Launched!AwaitsWorkers(q1)) =>
       <>(\/ (part = "launch" => Launched!Resolved(q1))
          \/ [](part = "launch" /\ Launched!Ambiguous(q1, w1))
          \/ [](part = "launch" /\ Launched!Queued(q1, w1))))

\* A queue whose run stays assigned is worked off, also when a control loop dies with the lock
\* or in the middle of a tick (task_control.rs).
QueueDrains ==
  <>[](part = "queue" /\ assigned) => []<>(part = "queue" => Tasks!Drained)

\* A campaign with samplers ends, completed or failed: no grant is lost, no child waits for a
\* quantum that is never given (integration_campaign.rs, campaign_budget.rs).
CampaignEnds ==
  <>[](part = "campaign" /\ slots > 0) => <>(part = "campaign" => task # "active")

\* A deployment that was signalled returns, even if no worker ever stops and statements hang or
\* fail (bounded_shutdown, the deadlines, SIGKILL).
SignalEnds == (part = "deploy" /\ signal) ~> (part = "deploy" => pc = "done")
=============================================================================
