---------------------------- MODULE WorkerLaunch ----------------------------
(***************************************************************************)
(* Launching workers: reservation of names and database connections        *)
(* (src/stores/worker_resume.rs, src/stores/connection_budget.rs), the     *)
(* launch requests and their external launchers                            *)
(* (src/stores/pg_store/external_launch.rs and the launcher that drives    *)
(* it, ops/ubelix/ubelix.py), local launches (src/api/node_launch.rs), and *)
(* the binding of a database to one deployment.                            *)
(*                                                                         *)
(* A job is one process started for a reserved name: a Slurm job or a      *)
(* local child.  No transaction spans the scheduler and the database.      *)
(***************************************************************************)
EXTENDS Integers, FiniteSets

CONSTANTS
  Names,          \* worker names that can be reserved
  Reqs,           \* ids of launch requests
  Launchers,      \* external launcher processes
  None,
  MaxConnections, \* PostgreSQL max_connections
  PgReserved,     \* superuser_reserved_connections + reserved_connections
  MaxDeployments, \* bound on deployments bound to the database
  MaxTokens,      \* bound on tokens in use: the launchers' and the requests' own
  MaxOps,         \* bound on suspensions, sampler assignments, resets and local launches
  MaxLapses,      \* bound on live workers whose lease lapses
  MaxFaults       \* bound on crashes, expired launcher leases and failed spawns

LaunchAssumption ==
  /\ None \notin Names \cup Reqs /\ IsFiniteSet(Names)
  /\ {MaxConnections, PgReserved, MaxTokens, MaxOps, MaxLapses, MaxFaults} \subseteq Nat
  /\ MaxDeployments \in Nat \ {0}

VARIABLES
  req,      \* node_launch_requests
  work,     \* external_worker_launches: state of each worker of each request
  job,      \* the scheduler: the process started for a reservation
  starts,   \* how often a process was started for a reservation
  node,     \* the rows of nodes that matter here
  lch,      \* the launchers
  local,    \* the local request being spawned and what is left of it
  bound,    \* gammaboard_deployment
  ops, faults, lapses

vars == <<req, work, job, starts, node, lch, local, bound, ops, faults, lapses>>

Open     == {"pending", "submitting", "submitted"}
Terminal == {"failed", "canceled"}

NoReq  == [state |-> "none", backend |-> "external", names |-> {}, started |-> 0, token |-> 0, leased |-> FALSE]
NoNode == [req |-> None, seen |-> FALSE, up |-> None, resume |-> FALSE, sampler |-> FALSE]
Idle   == [pc |-> "idle", q |-> None, tok |-> 0, todo |-> {}, cur |-> None, view |-> [n \in Names |-> "none"],
           dep |-> 0]

\* Every variable has its type; a live row is that of a running job.
TypeOK ==
  /\ req \in [Reqs -> [state : {"none", "pending", "starting", "fulfilled", "failed", "canceled"},
                       backend : {"external", "local"}, names : SUBSET Names,
                       started : 0 .. Cardinality(Names), token : 0 .. MaxTokens, leased : BOOLEAN]]
  /\ work \in [Reqs -> [Names -> {"none", "connected"} \cup Open \cup Terminal]]
  /\ job \in [Reqs -> [Names -> [state : {"none", "queued", "up", "ended"}, dep : 0 .. MaxDeployments]]]
  /\ starts \in [Reqs -> [Names -> Nat]]
  /\ node \in [Names -> [req : Reqs \cup {None}, seen : BOOLEAN, up : Reqs \cup {None},
                         resume : BOOLEAN, sampler : BOOLEAN]]
  /\ \A n \in Names : node[n].up # None => job[node[n].up][n].state = "up"
  /\ bound \in 1 .. MaxDeployments

Init ==
  /\ req = [q \in Reqs |-> NoReq]
  /\ work = [q \in Reqs |-> [n \in Names |-> "none"]]
  /\ job = [q \in Reqs |-> [n \in Names |-> [state |-> "none", dep |-> 0]]]
  /\ starts = [q \in Reqs |-> [n \in Names |-> 0]]
  /\ node = [n \in Names |-> NoNode]
  /\ lch = [l \in Launchers |-> Idle]
  /\ local = Idle
  /\ bound = 1
  /\ ops = 0 /\ faults = 0 /\ lapses = 0

Op    == ops < MaxOps /\ ops' = ops + 1
Fault == faults < MaxFaults /\ faults' = faults + 1

-----------------------------------------------------------------------------
(* The connection budget                                                   *)

PerWorker    == 4
ExtraSampler == 4
Headroom     == 16

Capacity(max, reserved, samplers) ==
  LET free == max - reserved - Headroom - samplers * ExtraSampler
  IN (IF free < 0 THEN 0 ELSE free) \div PerWorker

\* A launch reservation lasts until that worker first connects, and ends when the
\* launch of that worker failed.
Awaits(nd, n) ==
  /\ nd[n].up = None /\ nd[n].req # None
  /\ req[nd[n].req].state \in {"pending", "starting"} /\ ~nd[n].seen
  /\ work[nd[n].req][n] \notin Terminal

\* check_worker_connection_budget, under the advisory lock of all admissions.
Fits(nd, more) ==
  LET live     == {n \in Names : nd[n].up # None}
      reserved == {n \in Names : Awaits(nd, n)}
      samplers == {n \in live \cup reserved : nd[n].sampler}
  IN Cardinality(live) + Cardinality(reserved) + more
       <= Capacity(MaxConnections, PgReserved, Cardinality(samplers))

-----------------------------------------------------------------------------
(* Requests                                                                *)

\* reserve_worker_launch_with_args: names nobody ever had, after the budget check.
Reserve(q, backend, S) ==
  /\ req[q].state = "none" /\ S # {} /\ \A n \in S : node[n].req = None
  /\ Fits(node, Cardinality(S))
  /\ req' = [req EXCEPT ![q] = [NoReq EXCEPT !.state = "pending", !.backend = backend, !.names = S]]
  /\ node' = [n \in Names |-> IF n \in S THEN [NoNode EXCEPT !.req = q] ELSE node[n]]
  /\ UNCHANGED <<work, job, starts, lch, local, bound, ops, faults, lapses>>

\* suspend_workers, for one worker; the process then ends.
Suspend(n) ==
  /\ Op /\ node[n].up # None /\ ~node[n].resume
  /\ node' = [node EXCEPT ![n].resume = TRUE]
  /\ UNCHANGED <<req, work, job, starts, lch, local, bound, faults, lapses>>

\* enqueue_resumed_workers, for one worker, through its original backend.
EnqueueResumed(n, q) ==
  /\ node[n].resume /\ node[n].up = None /\ req[q].state = "none"
  /\ Fits(node, 1)
  /\ req' = [req EXCEPT ![q] = [NoReq EXCEPT !.state = "pending", !.names = {n},
                                             !.backend = req[node[n].req].backend]]
  /\ node' = [node EXCEPT ![n].resume = FALSE, ![n].req = q, ![n].seen = FALSE]
  /\ UNCHANGED <<work, job, starts, lch, local, bound, ops, faults, lapses>>

\* assign_worker_pool with the sampler role: refused when its connections do not fit.
AssignSampler(n) ==
  LET nd == [node EXCEPT ![n].sampler = TRUE] IN
  /\ Op /\ node[n].up # None /\ ~node[n].sampler
  /\ Fits(nd, 0)
  /\ node' = nd
  /\ UNCHANGED <<req, work, job, starts, lch, local, bound, faults, lapses>>

\* The worker of a request has connected since the request was made.
Registered(q, n) == node[n].req = q /\ node[n].seen

\* Request state once no worker is open any more.
Finished(r, ws, complete) ==
  IF ~complete \/ \E n \in r.names : ws[n] \in Open THEN r.state
  ELSE IF \E n \in r.names : ws[n] \in Terminal THEN "failed" ELSE "fulfilled"

\* reconcile_fulfilled_node_launch_requests, by a registration or a reader of the list.
Reconciled(q) ==
  [n \in Names |-> IF work[q][n] \in Open /\ Registered(q, n) THEN "connected" ELSE work[q][n]]

ReconcileFulfilled ==
  LET S == {q \in Reqs : req[q].state = "starting"} IN
  /\ work' = [q \in Reqs |-> IF q \in S THEN Reconciled(q) ELSE work[q]]
  /\ req' = [q \in Reqs |->
       IF q \notin S THEN req[q]
       ELSE IF req[q].backend = "external"
       THEN [req[q] EXCEPT !.state = Finished(req[q], Reconciled(q), \A n \in req[q].names : work[q][n] # "none")]
       ELSE [req[q] EXCEPT !.state =
               IF req[q].started >= Cardinality(req[q].names) /\ \A n \in req[q].names : Registered(q, n)
               THEN "fulfilled" ELSE @]]
  /\ <<work', req'>> # <<work, req>>
  /\ UNCHANGED <<job, starts, node, lch, local, bound, ops, faults, lapses>>

\* bind_deployment for a new deployment.
BindDeployment ==
  /\ bound < MaxDeployments
  /\ \A n \in Names : node[n].up = None
  /\ bound' = bound + 1
  /\ req' = [q \in Reqs |-> IF req[q].backend = "external" /\ req[q].state \in {"pending", "starting"}
                            THEN [req[q] EXCEPT !.state = "canceled"] ELSE req[q]]
  /\ UNCHANGED <<work, job, starts, node, lch, local, ops, faults, lapses>>

-----------------------------------------------------------------------------
(* External launchers                                                      *)

\* Uuid::new_v4: a token that neither the request nor a launcher has.
FreshTokens(q) == {t \in 1 .. MaxTokens : t # req[q].token /\ \A l \in Launchers : lch[l].tok # t}
NewToken(q) == CHOOSE t \in FreshTokens(q) : TRUE

\* Mutant: a request is claimed once.
ClaimableOnce(q) == req[q].backend = "external" /\ req[q].state = "pending" /\ ~req[q].leased

\* An external request that is unfinished and that no launcher holds.
Claimable(q) == req[q].backend = "external" /\ req[q].state \in {"pending", "starting"} /\ ~req[q].leased

\* claim_external_launch: a fresh token, one row per reserved worker.
Claim(l, q) ==
  LET rows == [n \in Names |-> IF n \in req[q].names /\ work[q][n] = "none" THEN "pending" ELSE work[q][n]]
  IN /\ lch[l].pc = "idle"
     /\ Claimable(q)
     /\ FreshTokens(q) # {}
     /\ work' = [work EXCEPT ![q] = rows]
     /\ req' = [req EXCEPT ![q].state = "starting", ![q].leased = TRUE, ![q].token = NewToken(q)]
     /\ lch' = [lch EXCEPT ![l] = [pc |-> "work", q |-> q, tok |-> NewToken(q), cur |-> None, dep |-> bound,
                  todo |-> {n \in req[q].names : rows[n] \in Open},
                  view |-> [n \in Names |-> IF Registered(q, n) THEN "registered" ELSE rows[n]]]]
     /\ UNCHANGED <<job, starts, node, local, bound, ops, faults, lapses>>

\* update_external_worker: the token of the current, unexpired claim.
Owns(l) ==
  LET r == req[lch[l].q]
  IN r.token = lch[l].tok /\ r.leased /\ r.state \in {"starting", "fulfilled", "failed"}

\* Success is authoritative: a late receipt or failure leaves it.
Recorded(old, state) ==
  IF old = "connected" /\ state \in {"submitted"} \cup Terminal THEN "connected" ELSE state

Allowed(old, state) ==
  \/ old = state
  \/ old = "pending" /\ state \in {"submitting", "connected"} \cup Terminal
  \/ old = "submitting" /\ state \in {"submitted", "connected"} \cup Terminal
  \/ old = "submitted" /\ state \in {"connected"} \cup Terminal

\* update_external_worker(name, state): accepted, with the request's new state.
Update(l, n, state) ==
  LET q  == lch[l].q
      s  == Recorded(work[q][n], state)
      ws == [work[q] EXCEPT ![n] = s]
  IN /\ Owns(l) /\ Allowed(work[q][n], s)
     /\ s = "connected" => Registered(q, n)
     /\ work' = [work EXCEPT ![q] = ws]
     /\ req' = [req EXCEPT ![q].state = Finished(req[q], ws, TRUE)]

Refused(l, n, state) ==
  LET s == Recorded(work[lch[l].q][n], state) IN
  ~(Owns(l) /\ Allowed(work[lch[l].q][n], s) /\ (s = "connected" => Registered(lch[l].q, n)))

\* submission_guard: the workspace lock, for the deployment that is active.
GuardFree == \A k \in Launchers : lch[k].pc \notin {"intent", "sbatch", "receipt"}

\* An error ends the pass; the lease is given back if it is still this launcher's.
Abandon(l) ==
  /\ lch' = [lch EXCEPT ![l] = Idle]
  /\ req' = IF Owns(l) /\ req[lch[l].q].state = "starting"
            THEN [req EXCEPT ![lch[l].q].leased = FALSE] ELSE req
  /\ UNCHANGED work

\* Mutant: a submission whose receipt is missing is submitted again.
SubmitsMissing(q, n, st) == st = "pending" \/ (st = "submitting" /\ job[q][n].state \in {"none", "ended"})

\* Only a worker whose submission was never intended is submitted.
Submits(q, n, st) == st = "pending"

\* reconcile_launch_requests for one worker, by the state it had when it was claimed.
Visit(l, n) ==
  LET q == lch[l].q
      st == lch[l].view[n]
      state == CASE st = "registered" -> "connected"
                 [] st = "submitting" -> "submitted"
                 [] OTHER -> "failed"
  IN /\ lch[l].pc = "work" /\ n \in lch[l].todo
     /\ UNCHANGED <<job, starts, node, local, bound, ops, faults, lapses>>
     /\ \/ /\ Submits(q, n, st) /\ GuardFree /\ lch[l].dep = bound
           /\ lch' = [lch EXCEPT ![l].pc = "intent", ![l].cur = n]
           /\ UNCHANGED <<req, work>>
        \/ /\ Submits(q, n, st) /\ lch[l].dep # bound /\ Abandon(l)
        \/ /\ ~Submits(q, n, st)
           /\ \/ st = "registered"
              \/ st = "submitting" /\ job[q][n].state # "none"
              \/ st = "submitted" /\ job[q][n].state = "ended"
           /\ IF Refused(l, n, state) THEN Abandon(l)
              ELSE /\ Update(l, n, state)
                   /\ lch' = IF st = "submitting" /\ job[q][n].state = "ended"
                             THEN [lch EXCEPT ![l].view[n] = "submitted"]
                             ELSE [lch EXCEPT ![l].todo = @ \ {n}]
        \/ /\ ~Submits(q, n, st)
           /\ \/ st = "submitting" /\ job[q][n].state = "none"
              \/ st = "submitted" /\ job[q][n].state # "ended"
           /\ lch' = [lch EXCEPT ![l].todo = @ \ {n}]
           /\ UNCHANGED <<req, work>>

\* The durable intent, before the scheduler is contacted.
Intend(l) ==
  /\ lch[l].pc = "intent"
  /\ IF Refused(l, lch[l].cur, "submitting") THEN Abandon(l)
     ELSE Update(l, lch[l].cur, "submitting") /\ lch' = [lch EXCEPT ![l].pc = "sbatch"]
  /\ UNCHANGED <<job, starts, node, local, bound, ops, faults, lapses>>

Started(q, n, dep) ==
  /\ job' = [job EXCEPT ![q][n] = [state |-> "queued", dep |-> dep]]
  /\ starts' = [starts EXCEPT ![q][n] = @ + 1]

Sbatch(l) ==
  /\ lch[l].pc = "sbatch"
  /\ Started(lch[l].q, lch[l].cur, lch[l].dep)
  /\ lch' = [lch EXCEPT ![l].pc = "receipt"]
  /\ UNCHANGED <<req, work, node, local, bound, ops, faults, lapses>>

Receipt(l) ==
  /\ lch[l].pc = "receipt"
  /\ IF Refused(l, lch[l].cur, "submitted") THEN Abandon(l)
     ELSE /\ Update(l, lch[l].cur, "submitted")
          /\ lch' = [lch EXCEPT ![l].pc = "work", ![l].todo = @ \ {lch[l].cur}, ![l].cur = None]
  /\ UNCHANGED <<job, starts, node, local, bound, ops, faults, lapses>>

\* The pass is over, or the heartbeat thread found the lease lost.
EndPass(l) ==
  /\ lch[l].pc = "work" /\ (lch[l].todo = {} \/ ~Owns(l))
  /\ Abandon(l)
  /\ UNCHANGED <<job, starts, node, local, bound, ops, faults, lapses>>

LauncherCrash(l) ==
  /\ lch[l].pc # "idle" /\ Fault
  /\ lch' = [lch EXCEPT ![l] = Idle]
  /\ UNCHANGED <<req, work, job, starts, node, local, bound, ops, lapses>>

\* A launcher renews the lease of the request.
Renewed(q) == \E l \in Launchers : lch[l].pc # "idle" /\ lch[l].q = q /\ lch[l].tok = req[q].token

\* 120 seconds without a heartbeat: of a dead launcher always, of a live one as a fault.
LauncherLeaseExpires(q) ==
  /\ req[q].leased
  /\ IF Renewed(q) THEN Fault ELSE UNCHANGED faults
  /\ req' = [req EXCEPT ![q].leased = FALSE]
  /\ UNCHANGED <<work, job, starts, node, lch, local, bound, ops, lapses>>

\* repair_submission: under the same lock and a lease of its own, after the scheduler
\* was found to know no such job.
ResetSubmission(q, n) ==
  /\ Op /\ GuardFree
  /\ req[q].backend = "external" /\ req[q].state \in {"pending", "starting"} /\ ~req[q].leased
  /\ FreshTokens(q) # {}
  /\ work[q][n] = "submitting" /\ ~Registered(q, n) /\ job[q][n].state = "none"
  /\ work' = [work EXCEPT ![q][n] = "pending"]
  /\ req' = [req EXCEPT ![q].token = NewToken(q)]
  /\ UNCHANGED <<job, starts, node, lch, local, bound, faults, lapses>>

-----------------------------------------------------------------------------
(* Local launches and the processes                                        *)

\* claim_local_worker_launch: once per request.
ClaimLocal(q) ==
  /\ local.pc = "idle" /\ req[q].backend = "local" /\ req[q].state = "pending"
  /\ req' = [req EXCEPT ![q].state = "starting"]
  /\ local' = [Idle EXCEPT !.pc = "work", !.q = q, !.todo = req[q].names]
  /\ UNCHANGED <<work, job, starts, node, lch, bound, ops, faults, lapses>>

SpawnNode(n) ==
  /\ local.pc = "work" /\ n \in local.todo
  /\ Started(local.q, n, bound)
  /\ local' = [local EXCEPT !.todo = @ \ {n}]
  /\ UNCHANGED <<req, work, node, lch, bound, ops, faults, lapses>>

\* mark_node_launch_request_starting, with the number of processes started.
MarkStarting ==
  /\ local.pc = "work" /\ local.todo = {}
  /\ req' = [req EXCEPT ![local.q].state = "starting", ![local.q].started = Cardinality(req[local.q].names)]
  /\ local' = Idle
  /\ UNCHANGED <<work, job, starts, node, lch, bound, ops, faults, lapses>>

\* A spawn fails: mark_node_launch_request_failed, and the rest is not started.
SpawnFails ==
  /\ local.pc = "work" /\ local.todo # {} /\ Fault
  /\ req' = [req EXCEPT ![local.q].state = "failed",
                        ![local.q].started = Cardinality(req[local.q].names \ local.todo)]
  /\ local' = Idle
  /\ UNCHANGED <<work, job, starts, node, lch, bound, ops, lapses>>

LocalCrash ==
  /\ local.pc = "work" /\ Fault
  /\ local' = Idle
  /\ UNCHANGED <<req, work, job, starts, node, lch, bound, ops, lapses>>

\* nodes_build_guard and announce_node: a free name, and the identity bound now.
Accepts(q, n) == node[n].up = None /\ job[q][n].dep = bound

\* The job runs and its worker announces itself, for the first time or after its lease
\* had lapsed.
Announce(q, n) ==
  /\ job[q][n].state \in {"queued", "up"} /\ Accepts(q, n)
  /\ job' = [job EXCEPT ![q][n].state = "up"]
  /\ node' = [node EXCEPT ![n].up = q, ![n].seen = TRUE]
  /\ UNCHANGED <<req, work, starts, lch, local, bound, ops, faults, lapses>>

Gone(nd, q, n) ==
  IF nd[n].up = q THEN [nd EXCEPT ![n].up = None, ![n].sampler = @ /\ nd[n].resume] ELSE nd

\* A job ends, before it could register or after: it leaves, dies, or is refused.
JobEnds(q, n) ==
  /\ job[q][n].state \in {"queued", "up"}
  /\ job' = [job EXCEPT ![q][n].state = "ended"]
  /\ node' = Gone(node, q, n)
  /\ UNCHANGED <<req, work, starts, lch, local, bound, ops, faults, lapses>>

LeaseLapses(n) ==
  /\ node[n].up # None /\ lapses < MaxLapses
  /\ lapses' = lapses + 1
  /\ node' = [node EXCEPT ![n].up = None]
  /\ UNCHANGED <<req, work, job, starts, lch, local, bound, ops, faults>>

Next ==
  \/ \E q \in Reqs, b \in {"external", "local"}, S \in SUBSET Names : Reserve(q, b, S)
  \/ \E n \in Names : Suspend(n) \/ AssignSampler(n) \/ SpawnNode(n) \/ LeaseLapses(n)
  \/ \E q \in Reqs : ClaimLocal(q) \/ LauncherLeaseExpires(q)
  \/ \E q \in Reqs, n \in Names :
       EnqueueResumed(n, q) \/ ResetSubmission(q, n) \/ Announce(q, n) \/ JobEnds(q, n)
  \/ \E l \in Launchers :
       \/ \E q \in Reqs : Claim(l, q)
       \/ \E n \in Names : Visit(l, n)
       \/ Intend(l) \/ Sbatch(l) \/ Receipt(l) \/ EndPass(l) \/ LauncherCrash(l)
  \/ ReconcileFulfilled \/ BindDeployment \/ MarkStarting \/ SpawnFails \/ LocalCrash

Spec == Init /\ [][Next]_vars

-----------------------------------------------------------------------------
(* Properties                                                              *)

\* A reservation starts at most one process, although sbatch and the database share no
\* transaction and launchers crash, lose their lease and are superseded.
OneJobPerReservation == \A q \in Reqs, n \in Names : starts[q][n] <= 1

\* A worker whose launch failed after it was started: until it registers it is in none of the
\* terms of the budget.
Escaped(n) == req[node[n].req].backend = "local" /\ req[node[n].req].state = "failed"

\* A worker that was resumed: the role it kept is not in the budget that admits it.
Resumed(n) == \E q \in Reqs : q # node[n].req /\ n \in req[q].names

\* The processes with a live lease fit the connections PostgreSQL has beyond its reserve and
\* the headroom: every admission counts what the others were promised, but for the workers
\* that escaped it and the samplers that were resumed.
WithinBudget ==
  LET live == {n \in Names : node[n].up # None /\ ~Escaped(n)}
      samplers == {n \in live : node[n].sampler /\ ~Resumed(n)}
  IN live # {} => PerWorker * Cardinality(live) + ExtraSampler * Cardinality(samplers)
                    <= MaxConnections - PgReserved - Headroom

\* No live worker is of a deployment other than the one the database is bound to, whatever
\* a superseded launcher still submits.
CohortsSeparate == \A n \in Names : node[n].up # None => job[node[n].up][n].dep = bound

\* A fulfilled request really had each of its workers connected: each was started, unless a
\* later request took its name.
FulfilledTruthful ==
  \A q \in Reqs : req[q].state = "fulfilled" =>
    \A n \in req[q].names : node[n].req = q => node[n].seen

\* A worker recorded as connected stays so: a late receipt or a late scheduler failure of a
\* superseded or slow launcher does not undo it.
ConnectedStays ==
  \A q \in Reqs, n \in Names : work[q][n] = "connected" => work'[q][n] = "connected"

\* The launches as a whole: one process for a reservation, workers within the connections and of
\* the bound deployment, and what is reported of them true for good.
LaunchedOnce ==
  /\ [](TypeOK /\ OneJobPerReservation /\ WithinBudget /\ CohortsSeparate /\ FulfilledTruthful)
  /\ [][ConnectedStays]_vars

\* An external request that waits, and what it comes to: it ends; or, after a fault, one of its
\* workers stays in a submission whose job the scheduler does not know, which only an operator
\* may repeat; or it stays in a job that the scheduler neither starts nor ends.
AwaitsWorkers(q) == req[q].state = "pending" /\ req[q].backend = "external"
Resolved(q) == req[q].state \in {"fulfilled", "failed", "canceled"}
Ambiguous(q, n) == faults > 0 /\ work[q][n] = "submitting" /\ job[q][n].state = "none"
Queued(q, n) == job[q][n].state = "queued"
=============================================================================
