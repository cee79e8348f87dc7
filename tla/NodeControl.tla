---------------------------- MODULE NodeControl ----------------------------
(***************************************************************************)
(* The node control plane: the nodes table with leases and the three       *)
(* assignments of a worker (pool, desired, current), the statements on it  *)
(* (src/stores/queries/control_plane.rs, src/stores/pg_store.rs,           *)
(* src/stores/worker_resume.rs), and the supervisor of a worker process    *)
(* that renews its lease, polls its desired assignment and stops, builds   *)
(* and starts roles (src/runners/node_runner).                             *)
(*                                                                         *)
(* A process is one incarnation of a worker: its uuid is its identity, and *)
(* several processes may be started under one node name.  What a role does *)
(* is in WorkQueue and SamplerRecovery; here it runs, finishes or fails.   *)
(***************************************************************************)
EXTENDS Integers, FiniteSets

CONSTANTS
  Names,       \* worker names
  Procs,       \* processes (uuids)
  NameOf,      \* the name a process is started with
  Runs,        \* runs: root runs and the children of controllers
  Parent,      \* runs.parent_run_id
  Launched,    \* names whose worker a launch request recorded
  Controllers, \* root runs whose run_kind is not 'integration'
  None,        \* SQL NULL and Rust None
  MaxStarts,   \* max_consecutive_start_failures
  MaxOps,      \* bound on operator and scheduler statements
  MaxFaults    \* bound on crashes, lapsed leases, failed statements and failing roles

VARIABLES
  runs,     \* the runs that exist
  nodes,    \* the nodes table, one row per name
  proc,     \* the supervisor of each process
  askedOf,  \* history: the process a row's last shutdown request was made of
  ops,
  faults

vars == <<runs, nodes, proc, askedOf, ops, faults>>

Roles   == {"evaluator", "sampler"}
Targets == [run : Runs, role : Roles]
Maybe   == Targets \cup {None}

NodeAssumption ==
  /\ NameOf \in [Procs -> Names]
  /\ Parent \in [Runs -> Runs \cup {None}]
  /\ Controllers \subseteq {r \in Runs : Parent[r] = None}
  /\ \A r \in Runs : Parent[r] # None => Parent[r] \in Controllers
  /\ Launched \subseteq Names
  /\ None \notin Names \cup Procs \cup Runs \cup Targets
  /\ MaxStarts \in Nat \ {0} /\ MaxOps \in Nat /\ MaxFaults \in Nat

Root(r) == IF Parent[r] = None THEN r ELSE Parent[r]
Tree(r) == {k \in Runs : k = r \/ Parent[k] = r}

\* A row that was never inserted.  uuid None is '', which no process has.
NoRow == [reg |-> FALSE, uuid |-> None, live |-> FALSE, pool |-> None, desired |-> None,
          current |-> None, shutdown |-> FALSE, resume |-> FALSE, reserved |-> FALSE]

Row == [reg : BOOLEAN, uuid : Procs \cup {None}, live : BOOLEAN, pool : Maybe, desired : Maybe,
        current : Maybe, shutdown : BOOLEAN, resume : BOOLEAN, reserved : BOOLEAN]

\* NodeRunner: where its loop stands, the target it read from the database, the
\* running role and RetryState.
NewProc == [phase |-> "off", step |-> "poll", want |-> None, active |-> None,
            failTarget |-> None, failures |-> 0, blocked |-> None, orphan |-> FALSE]

Proc == [phase : {"off", "starting", "up", "leaving", "gone"}, step : {"poll", "stop", "build"},
         want : Maybe, active : Maybe, failTarget : Maybe, failures : 0 .. MaxStarts,
         blocked : Maybe, orphan : BOOLEAN]

\* Every variable has its type, and a registered row has the lease of a process.
TypeOK ==
  /\ runs \subseteq Runs
  /\ nodes \in [Names -> Row]
  /\ proc \in [Procs -> Proc]
  /\ askedOf \in [Names -> Procs \cup {None}]
  /\ ops \in 0 .. MaxOps /\ faults \in 0 .. MaxFaults
  /\ \A n \in Names : nodes[n].live => nodes[n].uuid # None /\ NameOf[nodes[n].uuid] = n

Init ==
  /\ runs = Runs
  /\ nodes = [n \in Names |-> NoRow]
  /\ proc = [p \in Procs |-> NewProc]
  /\ askedOf = [n \in Names |-> None]
  /\ ops = 0 /\ faults = 0

Fault == faults < MaxFaults /\ faults' = faults + 1
Op    == ops < MaxOps /\ ops' = ops + 1

RowOf(p)  == nodes[NameOf[p]]
Holds(p)  == RowOf(p).uuid = p
LiveNode(p) == Holds(p) /\ RowOf(p).live

-----------------------------------------------------------------------------
(* Statements on the nodes table                                           *)

\* The rows whose assignments outlive their lease: marked for resume, placed by a
\* controller, or reserved by a launch request that has not connected yet.
Kept(w) == \/ w.resume \/ w.reserved
           \/ w.pool # None /\ (w.pool.run \in Controllers \/ Parent[w.pool.run] # None)

\* clear_expired_assignments: only rows with a desired or a current assignment.
ClearExpired(ns) ==
  [n \in Names |->
     LET w == ns[n] IN
     IF w.reg /\ ~w.live /\ (w.desired # None \/ w.current # None)
     THEN [w EXCEPT !.pool = IF Kept(w) THEN @ ELSE None,
                    !.desired = IF Kept(w) THEN @ ELSE None,
                    !.current = None]
     ELSE w]

\* Mutant: a replacement inherits the row as it is.
TakenOverAsIs(w, p) == [w EXCEPT !.reg = TRUE, !.uuid = p, !.live = TRUE, !.reserved = FALSE]

\* announce_node by a process the row does not belong to, after the lease has
\* expired.  Its registration also fulfils the launch request.
TakenOver(w, p) ==
  [w EXCEPT !.reg = TRUE, !.uuid = p, !.live = TRUE, !.current = None, !.shutdown = FALSE,
            !.pool = IF Kept(w) THEN @ ELSE None,
            !.desired = IF Kept(w) THEN @ ELSE None,
            !.reserved = FALSE]

Announced(w, p) == IF w.uuid = p THEN [w EXCEPT !.live = TRUE] ELSE TakenOver(w, p)

\* A standalone run has one sampler in its pool.
Occupied(ns, n, t) ==
  /\ t.role = "sampler" /\ Root(t.run) \notin Controllers
  /\ \E m \in Names \ {n} : ns[m].pool = [run |-> Root(t.run), role |-> "sampler"]

\* assign_worker_pool: resolve the root, keep a placement within the same pool.  A
\* refusal rolls back; a name that is not live still commits the clearing.
AssignPool(n, t) ==
  LET ns   == ClearExpired(nodes)
      pool == [run |-> Root(t.run), role |-> t.role]
  IN /\ Op /\ t.run \in runs
     /\ ~Occupied(ns, n, t)
     /\ nodes' = IF ~ns[n].live THEN ns
                 ELSE [ns EXCEPT ![n].pool = pool,
                                 ![n].desired = IF ns[n].pool = pool /\ @ # None THEN @ ELSE pool]
     /\ UNCHANGED <<runs, proc, askedOf, faults>>

\* update_desired_assignments with one update, whose expectation still holds: a
\* controller places a worker of its pool on a child, on itself, or nowhere.
UpdateDesired(n, t) ==
  LET ns == ClearExpired(nodes) IN
  /\ Op
  /\ ns[n].live /\ ns[n].pool # None
  /\ t # None => /\ t.run \in runs /\ Root(t.run) \in Controllers
                 /\ [run |-> Root(t.run), role |-> t.role] = ns[n].pool
  /\ nodes' = [ns EXCEPT ![n].desired = t]
  /\ UNCHANGED <<runs, proc, askedOf, faults>>

NoDesired(w) == [w EXCEPT !.pool = None, !.desired = None]

\* clear_desired_assignment; clear_all_desired_assignments.
ClearDesired(S) ==
  /\ Op
  /\ \E n \in S : nodes[n].desired # None \/ nodes[n].pool # None
  /\ nodes' = [n \in Names |-> IF n \in S THEN NoDesired(nodes[n]) ELSE nodes[n]]
  /\ UNCHANGED <<runs, proc, askedOf, faults>>

\* clear_desired_assignments_for_run.
ForRun(w, r) == (w.desired # None /\ w.desired.run \in Tree(r)) \/ (w.pool # None /\ w.pool.run = r)
ClearedForRun(r) == [n \in Names |-> IF ForRun(nodes[n], r) THEN NoDesired(nodes[n]) ELSE nodes[n]]

\* pause_worker_pool and resume_worker_pool: the pool is kept meanwhile.
PausePool(r) ==
  /\ Op
  /\ \E n \in Names : nodes[n].pool # None /\ nodes[n].pool.run = Root(r) /\ nodes[n].desired # None
  /\ nodes' = [n \in Names |-> IF nodes[n].pool # None /\ nodes[n].pool.run = Root(r)
                               THEN [nodes[n] EXCEPT !.desired = None] ELSE nodes[n]]
  /\ UNCHANGED <<runs, proc, askedOf, faults>>

ResumePool(r) ==
  /\ Op
  /\ \E n \in Names : nodes[n].pool # None /\ nodes[n].pool.run = Root(r) /\ nodes[n].desired = None
  /\ nodes' = [n \in Names |->
                 IF nodes[n].pool # None /\ nodes[n].pool.run = Root(r) /\ nodes[n].desired = None
                 THEN [nodes[n] EXCEPT !.desired = nodes[n].pool] ELSE nodes[n]]
  /\ UNCHANGED <<runs, proc, askedOf, faults>>

\* finish_run_assignments: the workers of a finished child return to its parent
\* while the parent's task is active (parentActive); all others are released.
FinishRun(r, parentActive) ==
  LET back == parentActive /\ Parent[r] # None IN
  /\ Op
  /\ \E n \in Names : ForRun(nodes[n], r)
  /\ nodes' = [n \in Names |->
                 LET w == nodes[n] IN
                 IF ~((w.desired # None /\ w.desired.run = r) \/ (w.pool # None /\ w.pool.run = r)) THEN w
                 ELSE IF ~back THEN NoDesired(w)
                 ELSE [w EXCEPT !.desired = IF @ = None THEN None ELSE [@ EXCEPT !.run = Parent[r]]]]
  /\ UNCHANGED <<runs, proc, askedOf, faults>>

\* remove_run: the run, its children and every assignment to them.
RemoveRun(r) ==
  LET Gone(t) == IF t # None /\ t.run \in Tree(r) THEN None ELSE t IN
  /\ Op /\ r \in runs
  /\ runs' = runs \ Tree(r)
  /\ nodes' = [n \in Names |-> [nodes[n] EXCEPT !.pool = Gone(@), !.desired = Gone(@), !.current = Gone(@)]]
  /\ UNCHANGED <<proc, askedOf, faults>>

\* request_node_shutdown, also of a name nobody has registered;
\* request_all_nodes_shutdown.
ShutDown(w) == [NoDesired(w) EXCEPT !.reg = TRUE, !.shutdown = TRUE, !.resume = FALSE]

RequestShutdown(n) ==
  /\ Op
  /\ nodes' = [nodes EXCEPT ![n] = ShutDown(@)]
  /\ askedOf' = [askedOf EXCEPT ![n] = nodes[n].uuid]
  /\ UNCHANGED <<runs, proc, faults>>

RequestAllShutdown ==
  LET S == {n \in Names : nodes[n].live \/ nodes[n].resume} IN
  /\ Op /\ S # {}
  /\ nodes' = [n \in Names |-> IF n \in S THEN ShutDown(nodes[n]) ELSE nodes[n]]
  /\ askedOf' = [n \in Names |-> IF n \in S THEN nodes[n].uuid ELSE askedOf[n]]
  /\ UNCHANGED <<runs, proc, faults>>

\* suspend_workers: live workers that are not being shut down already.
SuspendWorkers ==
  LET S == {n \in Names : nodes[n].live /\ ~nodes[n].shutdown} IN
  /\ Op /\ S # {}
  /\ nodes' = [n \in Names |-> IF n \in S THEN [nodes[n] EXCEPT !.resume = TRUE, !.shutdown = TRUE]
                               ELSE nodes[n]]
  /\ askedOf' = [n \in Names |-> IF n \in S THEN nodes[n].uuid ELSE askedOf[n]]
  /\ UNCHANGED <<runs, proc, faults>>

\* enqueue_resumed_workers: every suspended worker whose lease is over and whose launch
\* is on record gets a new launch request.
EnqueueResumed ==
  LET S == {n \in Launched : nodes[n].resume /\ ~nodes[n].live} IN
  /\ S # {}
  /\ nodes' = [n \in Names |-> IF n \in S THEN [nodes[n] EXCEPT !.resume = FALSE, !.reserved = TRUE,
                                                               !.shutdown = FALSE]
                               ELSE nodes[n]]
  /\ askedOf' = [n \in Names |-> IF n \in S THEN None ELSE askedOf[n]]
  /\ UNCHANGED <<runs, proc, ops, faults>>

\* Ten seconds without a renewal: of a dead process always, of a live one as a fault.
LeaseLapses(n) ==
  /\ nodes[n].live
  /\ \/ proc[nodes[n].uuid].phase \in {"off", "gone"} /\ UNCHANGED faults
     \/ proc[nodes[n].uuid].phase \notin {"off", "gone"} /\ Fault
  /\ nodes' = [nodes EXCEPT ![n].live = FALSE]
  /\ UNCHANGED <<runs, proc, askedOf, ops>>

-----------------------------------------------------------------------------
(* The supervisor of a process                                             *)

StartProcess(p) ==
  /\ proc[p].phase = "off"
  /\ proc' = [proc EXCEPT ![p].phase = "starting"]
  /\ UNCHANGED <<runs, nodes, askedOf, ops, faults>>

\* The lease renewal task: registration or renewal.
Announce(p) ==
  /\ proc[p].phase \in {"starting", "up", "leaving"}
  /\ Holds(p) \/ ~RowOf(p).live
  /\ nodes' = [nodes EXCEPT ![NameOf[p]] = Announced(@, p)]
  /\ proc' = [proc EXCEPT ![p].phase = IF @ = "starting" THEN "up" ELSE @]
  /\ nodes' # nodes \/ proc' # proc
  /\ UNCHANGED <<runs, askedOf, ops, faults>>

\* The name belongs to another live process for announce_failure_timeout: the loop
\* ends and the role is stopped.  A process that never registered just exits.
LeaseFatal(p) ==
  /\ proc[p].phase \in {"starting", "up"} /\ proc[p].step = "poll"
  /\ ~Holds(p) /\ RowOf(p).live
  /\ proc' = [proc EXCEPT ![p].phase = IF @ = "starting" THEN "gone" ELSE "leaving"]
  /\ UNCHANGED <<runs, nodes, askedOf, ops, faults>>

\* Mutant: a busy worker does not look for shutdown requests.
ConsumeWhenIdle(p) ==
  /\ proc[p].phase = "up" /\ proc[p].step = "poll" /\ proc[p].active = None
  /\ Holds(p) /\ RowOf(p).shutdown
  /\ nodes' = [nodes EXCEPT ![NameOf[p]].shutdown = FALSE]
  /\ proc' = [proc EXCEPT ![p].phase = "leaving"]
  /\ UNCHANGED <<runs, askedOf, ops, faults>>

\* consume_node_shutdown_request, first statement of a control poll.
ConsumeShutdown(p) ==
  /\ proc[p].phase = "up" /\ proc[p].step = "poll"
  /\ Holds(p) /\ RowOf(p).shutdown
  /\ nodes' = [nodes EXCEPT ![NameOf[p]].shutdown = FALSE]
  /\ proc' = [proc EXCEPT ![p].phase = "leaving"]
  /\ UNCHANGED <<runs, askedOf, ops, faults>>

\* The statement commits and its answer is lost: the loop polls again and finds nothing.
ConsumeLost(p) ==
  /\ proc[p].phase = "up" /\ proc[p].step = "poll"
  /\ Holds(p) /\ RowOf(p).shutdown /\ Fault
  /\ nodes' = [nodes EXCEPT ![NameOf[p]].shutdown = FALSE]
  /\ UNCHANGED <<runs, proc, askedOf, ops>>

\* RetryState::reset_for_desired_target_change.
Retargeted(s, t) ==
  IF t = s.failTarget THEN s
  ELSE [s EXCEPT !.failTarget = t, !.failures = 0, !.blocked = IF @ = t THEN @ ELSE None]

\* reconcile: the desired target is read by name, whoever owns the row.  A target
\* that is already running is left alone, a blocked one is not built again.
Reconcile(p) ==
  LET t == RowOf(p).desired
      s == Retargeted(proc[p], t)
  IN /\ proc[p].phase = "up" /\ proc[p].step = "poll"
     /\ ~(Holds(p) /\ RowOf(p).shutdown)
     /\ proc[p].active # t
     /\ proc[p].active # None \/ s.blocked # t
     /\ proc' = [proc EXCEPT ![p] = [s EXCEPT !.want = t,
                                              !.step = IF s.active # None THEN "stop" ELSE "build"]]
     /\ UNCHANGED <<runs, nodes, askedOf, ops, faults>>

\* A poll that finds the target blocked, or nothing wanted, only resets RetryState.
ReconcileIdle(p) ==
  LET s == Retargeted(proc[p], RowOf(p).desired) IN
  /\ proc[p].phase = "up" /\ proc[p].step = "poll"
  /\ ~(Holds(p) /\ RowOf(p).shutdown)
  /\ proc[p].active = RowOf(p).desired \/ s.blocked = RowOf(p).desired
  /\ s # proc[p]
  /\ proc' = [proc EXCEPT ![p] = s]
  /\ UNCHANGED <<runs, nodes, askedOf, ops, faults>>

\* clear_current_assignment: only under a live lease of this process.
Released(p) == IF LiveNode(p) THEN [nodes EXCEPT ![NameOf[p]].current = None] ELSE nodes

\* A release that finds the lease lapsed leaves the row as it is.
Missed(p) == Holds(p) /\ ~RowOf(p).live /\ RowOf(p).current # None

\* stop_current inside reconcile: stop the runner, then release the row.  A failing
\* release is only logged.
Stop(p) ==
  /\ proc[p].phase = "up" /\ proc[p].step = "stop"
  /\ \E orphan \in BOOLEAN :
       /\ IF orphan THEN Fault /\ UNCHANGED nodes ELSE nodes' = Released(p) /\ UNCHANGED faults
       /\ proc' = [proc EXCEPT ![p].active = None, ![p].orphan = @ \/ orphan \/ Missed(p),
                               ![p].step = IF proc[p].want = None THEN "poll" ELSE "build"]
  /\ UNCHANGED <<runs, askedOf, ops>>

\* set_current_assignment: a live lease, and the unique index on the sampler of a run.
SlotFree(ns, p, t) ==
  /\ LiveNode(p)
  /\ t.role = "sampler" => \A m \in Names \ {NameOf[p]} : ns[m].current # t

\* build_reconciled_runner and start.  The target was read before the stop.
Start(p) ==
  LET ns == ClearExpired(nodes)
      t  == proc[p].want
  IN /\ proc[p].phase = "up" /\ proc[p].step = "build" /\ t # None /\ t.run \in runs
     /\ SlotFree(ns, p, t)
     /\ nodes' = [ns EXCEPT ![NameOf[p]].current = t]
     /\ proc' = [proc EXCEPT ![p] = [@ EXCEPT !.active = t, !.step = "poll", !.want = None,
                    !.failTarget = None, !.failures = 0, !.blocked = None, !.orphan = FALSE]]
     /\ UNCHANGED <<runs, askedOf, ops, faults>>

\* The role cannot start now: no task to run, a taken sampler slot, a lost lease, a
\* run that is gone or a database error.  The next poll decides again.
StartDeferred(p) ==
  /\ proc[p].phase = "up" /\ proc[p].step = "build"
  /\ proc' = [proc EXCEPT ![p].step = "poll", ![p].want = None]
  /\ IF proc[p].want.run \in runs /\ SlotFree(ClearExpired(nodes), p, proc[p].want)
     THEN Fault ELSE UNCHANGED faults
  /\ nodes' \in {nodes, ClearExpired(nodes)}
  /\ UNCHANGED <<runs, askedOf, ops>>

\* RetryState::note_failure.
Failed(s, t) ==
  LET k == IF s.failTarget = t THEN s.failures + 1 ELSE 1
      c == IF k > MaxStarts THEN MaxStarts ELSE k
  IN [s EXCEPT !.failTarget = t, !.failures = c, !.blocked = IF c >= MaxStarts THEN t ELSE @]

\* A build that fails: counted, and after MaxStarts in a row the task is failed and
\* every assignment of the run is cleared (or that statement fails too).
BuildFails(p) ==
  LET t == proc[p].want
      s == Failed(proc[p], t)
  IN /\ proc[p].phase = "up" /\ proc[p].step = "build" /\ t # None
     /\ Fault
     /\ proc' = [proc EXCEPT ![p] = [s EXCEPT !.step = "poll", !.want = None]]
     /\ nodes' \in {nodes} \cup {ns \in {ClearedForRun(t.run)} : s.blocked = t}
     /\ UNCHANGED <<runs, askedOf, ops>>

\* The tick of a role reports that it is done, or that it must be restored:
\* finish_current_assignment.
RoleDone(p) ==
  /\ proc[p].phase = "up" /\ proc[p].step = "poll" /\ proc[p].active # None
  /\ Fault
  /\ proc' = [proc EXCEPT ![p].active = None, ![p].failTarget = None, ![p].failures = 0,
                          ![p].blocked = None, ![p].orphan = @ \/ Missed(p)]
  /\ nodes' = Released(p)
  /\ UNCHANGED <<runs, askedOf, ops>>

\* The tick of a role fails: fail_current_assignment.  An evaluator is retried until
\* it is blocked; otherwise the task fails and the run's assignments are cleared.
RoleFails(p) ==
  LET t == proc[p].active
      s == Failed(proc[p], t)
      giveUp == t.role = "sampler" \/ s.blocked = t
      rel  == Released(p)
  IN /\ proc[p].phase = "up" /\ proc[p].step = "poll" /\ t # None
     /\ Fault
     /\ proc' = [proc EXCEPT ![p] = [s EXCEPT !.active = None, !.orphan = @ \/ Missed(p)]]
     /\ nodes' = [n \in Names |-> IF giveUp /\ ForRun(nodes[n], t.run) THEN NoDesired(rel[n]) ELSE rel[n]]
     /\ UNCHANGED <<runs, askedOf, ops>>

\* SIGTERM or Ctrl-C.
Signal(p) ==
  /\ proc[p].phase = "up" /\ proc[p].step = "poll"
  /\ Fault
  /\ proc' = [proc EXCEPT ![p].phase = "leaving"]
  /\ UNCHANGED <<runs, nodes, askedOf, ops>>

\* expire_node_lease: assignments outlive it only for a resume.
Expired(w) ==
  [w EXCEPT !.live = FALSE, !.shutdown = FALSE, !.current = None,
            !.pool = IF w.resume THEN @ ELSE None, !.desired = IF w.resume THEN @ ELSE None]

\* After the loop: stop the role, end the renewal task, expire the lease by uuid.
Leave(p) ==
  /\ proc[p].phase = "leaving"
  /\ nodes' = IF Holds(p) THEN [nodes EXCEPT ![NameOf[p]] = Expired(@)] ELSE nodes
  /\ proc' = [proc EXCEPT ![p] = [NewProc EXCEPT !.phase = "gone"]]
  /\ UNCHANGED <<runs, askedOf, ops, faults>>

\* The process is killed, or an error other than a database error ends its loop.
Crash(p) ==
  /\ proc[p].phase \in {"starting", "up", "leaving"}
  /\ Fault
  /\ proc' = [proc EXCEPT ![p] = [NewProc EXCEPT !.phase = "gone"]]
  /\ UNCHANGED <<runs, nodes, askedOf, ops>>

Next ==
  \/ \E n \in Names, t \in Targets : AssignPool(n, t) \/ UpdateDesired(n, t)
  \/ \E n \in Names : \/ UpdateDesired(n, None) \/ ClearDesired({n}) \/ RequestShutdown(n)
                      \/ LeaseLapses(n)
  \/ ClearDesired(Names) \/ RequestAllShutdown \/ SuspendWorkers \/ EnqueueResumed
  \/ \E r \in Runs : \/ PausePool(r) \/ ResumePool(r) \/ RemoveRun(r)
                     \/ \E active \in BOOLEAN : FinishRun(r, active)
  \/ \E p \in Procs :
       \/ StartProcess(p) \/ Announce(p) \/ LeaseFatal(p) \/ ConsumeShutdown(p)
       \/ ConsumeLost(p) \/ Reconcile(p) \/ ReconcileIdle(p) \/ Stop(p) \/ Start(p) \/ StartDeferred(p)
       \/ BuildFails(p) \/ RoleDone(p) \/ RoleFails(p) \/ Signal(p) \/ Leave(p) \/ Crash(p)

Spec == Init /\ [][Next]_vars

-----------------------------------------------------------------------------
(* Properties                                                              *)

\* assign_worker_pool admits one sampler to the pool of a standalone run, through
\* pauses, lapsed leases and replacements.
PoolSamplerUnique ==
  \A r \in Runs \ Controllers :
    Cardinality({n \in Names : nodes[n].pool = [run |-> r, role |-> "sampler"]}) <= 1

\* At most one row claims to run the sampler of a run (set_current_assignment).
CurrentSamplerUnique ==
  \A r \in Runs :
    Cardinality({n \in Names : nodes[n].current = [run |-> r, role |-> "sampler"]}) <= 1

\* A shutdown request reaches the process that had the name when it was made, never a
\* replacement registered since (announce_node, consume_node_shutdown_request).
ShutdownTargeted == \A n \in Names : nodes[n].shutdown => nodes[n].uuid = askedOf[n]

\* The role a row records is the role its process runs, unless the process died or a
\* release did not reach the row (announce_node, stop_current, expire_node_lease).
CurrentOwned ==
  \A n \in Names :
    nodes[n].current # None =>
      LET s == proc[nodes[n].uuid] IN s.phase = "gone" \/ s.orphan \/ s.active = nodes[n].current

\* The role recorded under a live lease ends only with the role of its own process, its
\* run or its lease: a superseded process cannot release it (clear_current_assignment).
OnlyOwnerReleases ==
  \A n \in Names :
    nodes[n].live /\ nodes[n].current # None /\ nodes'[n].current = None =>
      \/ nodes[n].current.run \notin runs'
      \/ ~nodes'[n].live
      \/ proc'[nodes[n].uuid].active # nodes[n].current

Assigned(w) == <<w.pool, w.desired>>
GaveUp == \E p \in Procs : proc'[p].blocked # None \/ proc'[p].active # proc[p].active

\* While a worker is marked for resume only an operator's statement, or a role given
\* up, changes its assignments (suspend_workers, expire_node_lease, announce_node).
SuspendedKept ==
  \A n \in Names : nodes[n].resume /\ Assigned(nodes'[n]) # Assigned(nodes[n])
                     => ops' # ops \/ GaveUp

\* A process that holds its name and is asked to shut down, and what it comes to: it ends,
\* loses its name, or its resume withdraws the request (enqueue_resumed_workers).
AskedToLeave(p) == Holds(p) /\ RowOf(p).shutdown /\ proc[p].phase = "up"
HasLeft(p) == proc[p].phase = "gone" \/ ~Holds(p) \/ askedOf[NameOf[p]] # p

\* The answer with the request was lost, which takes a fault, and it was not made again.
Unheard(p) == faults > 0 /\ proc[p].phase = "up" /\ askedOf[NameOf[p]] = p /\ ~RowOf(p).shutdown

\* The control plane as a whole: one sampler in a pool and on record, roles, releases and shutdown
\* requests of the process they are about, and assignments kept for a resume.
RolesOwned ==
  /\ [](/\ TypeOK /\ PoolSamplerUnique /\ CurrentSamplerUnique /\ ShutdownTargeted
        /\ CurrentOwned)
  /\ [][OnlyOwnerReleases /\ SuspendedKept]_vars
=============================================================================
