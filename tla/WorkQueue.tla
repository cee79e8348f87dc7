------------------------------ MODULE WorkQueue ------------------------------
(***************************************************************************)
(* The durable work queue of one run and the evaluator workers that drain  *)
(* it: the rows of the batches table with their claim tokens               *)
(* (src/stores/queries/work_queue.rs), the lease and assignment columns of *)
(* the nodes table the queue consults (src/stores/queries/control_plane.rs)*)
(* and the pipeline of an evaluator: prefetch, evaluation, submission      *)
(* (src/runners/evaluator.rs), started and stopped by its node runner.     *)
(*                                                                         *)
(* A statement of the database is one atomic step.  Its caller may lose    *)
(* the connection before it runs or before the answer arrives, and a       *)
(* statement whose caller has given up may still run later ("late"), when  *)
(* the caller has already moved on.                                        *)
(***************************************************************************)
EXTENDS Naturals, FiniteSets

CONSTANTS
  Batches,     \* batch ids the sampler may insert
  Nodes,       \* node uuids: one per process start, never reused
  Tokens,      \* claim tokens (uuids); one in use nowhere is as good as new
  None,        \* SQL NULL and Rust None
  MaxRetries,  \* max_batch_retries of the queue configuration
  Mortal,      \* the nodes whose process may be killed
  Retained,    \* the nodes whose desired assignment survives lease expiry
  MaxFaults    \* bound on errors, expiries, kills and operator interventions

ASSUME WorkQueueAssumption ==
  /\ None \notin Batches \cup Nodes \cup Tokens
  /\ MaxRetries \in Nat \ {0}
  /\ Mortal \subseteq Nodes
  /\ Retained \subseteq Nodes
  /\ MaxFaults \in Nat

VARIABLES
  rows,        \* batches: status, owner, claim_token, retry_count
  result,      \* batch_results: the claim whose evaluation was accepted
  grants,      \* history: how often each batch has been claimed
  lease,       \* nodes: lease_expires_at > now()
  assigned,    \* nodes: active_run_id is this run, active_role evaluator
  desired,     \* nodes: the desired assignment is this run's evaluator role
  runner,      \* the node process: "none", "running", "draining", "dead"
  claimToken,  \* LatentPrefetchBuffer.claim_token
  fetching,    \* LatentPrefetchBuffer.pending_prefetch is a request under way
  ready,       \* LatentPrefetchBuffer.ready_batch
  active,      \* EvaluatorRunner.active_batch (its claim)
  evaluation,  \* ActiveBatch.evaluation and FailedEvaluation.outcome
  submission,  \* ResultSubmitBuffer.submission (its claim)
  submitting,  \* ResultSubmitBuffer.pending_submit is a request under way
  lateClaims, lateSubmits, lateFails, lateReleases, \* statements nobody awaits
  taskFailed,  \* run_tasks: the task was failed
  faults       \* how many faults have happened (at most MaxFaults)

db      == <<rows, result, grants>>
nodes   == <<lease, assigned, desired>>
pipe    == <<claimToken, fetching, ready, active, evaluation, submission, submitting>>
late    == <<lateClaims, lateSubmits, lateFails, lateReleases>>
vars    == <<db, nodes, runner, pipe, late, taskFailed, faults>>

Status == {"none", "pending", "claimed", "completed", "failed", "deleted"}
Row    == [status : Status, owner : Nodes \cup {None}, token : Tokens \cup {None}, retry : Nat]
Claim  == [id : Batches, token : Tokens]

DbTypeOK ==
  /\ rows \in [Batches -> Row]
  /\ result \in [Batches -> Tokens \cup {None}]
  /\ grants \in [Batches -> Nat]

NodesTypeOK ==
  /\ lease \in [Nodes -> BOOLEAN] /\ assigned \in [Nodes -> BOOLEAN] /\ desired \in [Nodes -> BOOLEAN]
  /\ runner \in [Nodes -> {"none", "running", "draining", "dead"}]

\* A request under way has its token or its submission, an outcome its batch.
PipeTypeOK ==
  /\ claimToken \in [Nodes -> Tokens \cup {None}]
  /\ fetching \in [Nodes -> BOOLEAN] /\ submitting \in [Nodes -> BOOLEAN]
  /\ ready \in [Nodes -> Claim \cup {None}]
  /\ active \in [Nodes -> Claim \cup {None}]
  /\ evaluation \in [Nodes -> {"none", "ok", "error", "failed"}]
  /\ submission \in [Nodes -> Claim \cup {None}]
  /\ \A n \in Nodes : /\ fetching[n] => claimToken[n] # None
                      /\ submitting[n] => submission[n] # None
                      /\ evaluation[n] # "none" => active[n] # None

LateTypeOK ==
  /\ lateClaims \subseteq Nodes \X Tokens
  /\ lateSubmits \subseteq Nodes \X Claim
  /\ lateFails \subseteq Nodes \X Claim
  /\ lateReleases \subseteq Nodes \X SUBSET Tokens

\* Every variable has its type, and the fields of an evaluator's pipeline agree:
\* no expect() or unreachable!() of the evaluator's tick is ever met.
TypeOK ==
  /\ DbTypeOK /\ NodesTypeOK /\ PipeTypeOK /\ LateTypeOK
  /\ taskFailed \in BOOLEAN
  /\ faults \in 0 .. MaxFaults

Init ==
  /\ rows = [b \in Batches |-> [status |-> "none", owner |-> None, token |-> None, retry |-> 0]]
  /\ result = [b \in Batches |-> None]
  /\ grants = [b \in Batches |-> 0]
  /\ lease = [n \in Nodes |-> TRUE]
  /\ assigned = [n \in Nodes |-> FALSE]
  /\ desired = [n \in Nodes |-> TRUE]
  /\ runner = [n \in Nodes |-> "none"]
  /\ claimToken = [n \in Nodes |-> None]
  /\ fetching = [n \in Nodes |-> FALSE]
  /\ ready = [n \in Nodes |-> None]
  /\ active = [n \in Nodes |-> None]
  /\ evaluation = [n \in Nodes |-> "none"]
  /\ submission = [n \in Nodes |-> None]
  /\ submitting = [n \in Nodes |-> FALSE]
  /\ lateClaims = {} /\ lateSubmits = {} /\ lateFails = {} /\ lateReleases = {}
  /\ taskFailed = FALSE
  /\ faults = 0

-----------------------------------------------------------------------------
(* Helpers                                                                 *)

\* The tokens a runner lists to release_untracked_claims.
Tracked(n) ==
  ({claimToken[n]} \cup {c.token : c \in {ready[n], active[n], submission[n]} \ {None}}) \ {None}

\* Every token that occurs anywhere: Uuid::new_v4 returns none of them.
UsedTokens ==
  {rows[b].token : b \in Batches} \cup {result[b] : b \in Batches}
    \cup UNION {Tracked(n) : n \in Nodes}
    \cup {r[2] : r \in lateClaims} \cup {r[2].token : r \in lateSubmits \cup lateFails}
    \cup UNION {r[2] : r \in lateReleases}

FreshTokens == Tokens \ UsedTokens

Alive(n) == runner[n] # "dead"
Ticking(n) == runner[n] \in {"running", "draining"}
LiveEvaluator(n) == lease[n] /\ assigned[n]

Fault == faults < MaxFaults /\ faults' = faults + 1

\* A request that fails without having run is gone, or runs after all later.
MayLinger(set, request) == \E kept \in {{}, {request}} : set' = set \cup kept

Requeue(r) == [status |-> "pending", owner |-> None, token |-> None, retry |-> r.retry + 1]

-----------------------------------------------------------------------------
(* Statements of the database                                              *)

InsertBatches(S) ==
  /\ S # {} /\ \A b \in S : rows[b].status = "none"
  /\ rows' = [b \in Batches |-> IF b \in S THEN [rows[b] EXCEPT !.status = "pending"] ELSE rows[b]]
  /\ UNCHANGED <<result, grants, nodes, runner, pipe, late, taskFailed, faults>>

Existing(n, t) ==
  {b \in Batches : rows[b].status = "claimed" /\ rows[b].owner = n /\ rows[b].token = t}

\* Mutant: without NOT EXISTS.
ClaimableUnchecked(n, t) ==
  IF LiveEvaluator(n) THEN {b \in Batches : rows[b].status = "pending"} ELSE {}

Claimable(n, t) ==
  IF LiveEvaluator(n) /\ \A b \in Batches : rows[b].token # t
  THEN {b \in Batches : rows[b].status = "pending"}
  ELSE {}

\* claim_batch: a repeated request finds its own row; another takes a pending
\* row that no other transaction has locked (FOR UPDATE SKIP LOCKED).
ClaimBatch(n, t, reply) ==
  /\ UNCHANGED result
  /\ \/ /\ reply \in Existing(n, t)
        /\ UNCHANGED <<rows, grants>>
     \/ /\ Existing(n, t) = {}
        /\ reply \in Claimable(n, t)
        /\ rows' = [rows EXCEPT ![reply].status = "claimed", ![reply].owner = n, ![reply].token = t]
        /\ grants' = [grants EXCEPT ![reply] = @ + 1]
     \/ /\ Existing(n, t) = {} /\ Claimable(n, t) = {}
        /\ reply = None
        /\ UNCHANGED <<rows, grants>>

Owns(n, c) == rows[c.id].owner = n /\ rows[c.id].token = c.token

\* Mutant: the token is not compared.
SubmitByOwner(n, c) ==
  /\ UNCHANGED grants
  /\ IF rows[c.id].owner = n /\ rows[c.id].status \in {"claimed", "completed"}
     THEN /\ rows' = [rows EXCEPT ![c.id].status = "completed"]
          /\ result' = [result EXCEPT ![c.id] = c.token]
     ELSE UNCHANGED <<rows, result>>

\* submit_batch_results: accepted from the current claim only, and only once.
SubmitBatchResults(n, c) ==
  /\ UNCHANGED grants
  /\ IF Owns(n, c) /\ rows[c.id].status = "claimed"
     THEN /\ rows' = [rows EXCEPT ![c.id].status = "completed"]
          /\ result' = [result EXCEPT ![c.id] = c.token]
     ELSE UNCHANGED <<rows, result>>

\* Mutant: a repeated report is counted again.
FailBatchRepeated(n, c) ==
  /\ UNCHANGED <<result, grants>>
  /\ IF Owns(n, c) /\ rows[c.id].status \in {"claimed", "pending"}
     THEN rows' = [rows EXCEPT ![c.id].retry = @ + 1,
                               ![c.id].status = IF rows[c.id].retry + 1 >= MaxRetries
                                                THEN "failed" ELSE "pending"]
     ELSE UNCHANGED rows

\* fail_batch keeps owner and token, so that a repeated notification is known.
FailBatch(n, c) ==
  /\ UNCHANGED <<result, grants>>
  /\ IF Owns(n, c) /\ rows[c.id].status = "claimed"
     THEN rows' = [rows EXCEPT ![c.id].retry = @ + 1,
                               ![c.id].status = IF rows[c.id].retry + 1 >= MaxRetries
                                                THEN "failed" ELSE "pending"]
     ELSE UNCHANGED rows

\* What fail_batch answers.
FailOutcome(n, c) ==
  IF ~Owns(n, c) \/ rows[c.id].status \notin {"claimed", "pending", "failed"} THEN "lost"
  ELSE IF rows[c.id].status = "failed"
          \/ (rows[c.id].status = "claimed" /\ rows[c.id].retry + 1 >= MaxRetries)
       THEN "permanent" ELSE "requeued"

Untracked(n, tokens) ==
  {b \in Batches : rows[b].status = "claimed" /\ rows[b].owner = n /\ rows[b].token \notin tokens}

ReleaseUntrackedClaims(n, tokens) ==
  /\ rows' = [b \in Batches |-> IF b \in Untracked(n, tokens) THEN Requeue(rows[b]) ELSE rows[b]]
  /\ UNCHANGED <<result, grants>>

\* Mutant: the lease is not consulted.
AbandonedUnleased == {b \in Batches : rows[b].status = "claimed" /\ ~assigned[rows[b].owner]}

Abandoned == {b \in Batches : rows[b].status = "claimed" /\ ~LiveEvaluator(rows[b].owner)}

\* reclaim_abandoned_batches, called by the sampler's queue once a second.
ReclaimAbandoned ==
  /\ Abandoned # {}
  /\ rows' = [b \in Batches |-> IF b \in Abandoned THEN Requeue(rows[b]) ELSE rows[b]]
  /\ UNCHANGED <<result, grants, nodes, runner, pipe, late, taskFailed, faults>>

Delete(S) ==
  /\ rows' = [b \in Batches |-> IF b \in S
                THEN [status |-> "deleted", owner |-> None, token |-> None, retry |-> 0] ELSE rows[b]]
  /\ result' = [b \in Batches |-> IF b \in S THEN None ELSE result[b]]
  /\ grants' = [b \in Batches |-> IF b \in S THEN 0 ELSE grants[b]]
  /\ UNCHANGED <<nodes, runner, pipe, late, taskFailed>>

\* cleanup_consumed_completed_batches: only rows that never were retried.
CleanupCompleted(b) ==
  /\ rows[b].status = "completed" /\ rows[b].retry = 0
  /\ Delete({b})
  /\ UNCHANGED faults

\* restore_sampler_checkpoint drops the work above its boundary, whatever its state.
DiscardBatch(b) ==
  /\ rows[b].status \notin {"none", "deleted"}
  /\ Delete({b})
  /\ Fault

-----------------------------------------------------------------------------
(* Leases and assignments                                                  *)

\* Ten seconds without a heartbeat: certain for a dead process, an outage otherwise.
LeaseExpires(n) ==
  /\ lease[n]
  /\ IF Alive(n) THEN Fault ELSE UNCHANGED faults
  /\ lease' = [lease EXCEPT ![n] = FALSE]
  /\ UNCHANGED <<db, assigned, desired, runner, pipe, late, taskFailed>>

\* announce_node renews by name and uuid; it leaves the assignment alone.
AnnounceNode(n) ==
  /\ Alive(n) /\ ~lease[n]
  /\ lease' = [lease EXCEPT ![n] = TRUE]
  /\ UNCHANGED <<db, assigned, desired, runner, pipe, late, taskFailed, faults>>

\* clear_expired_assignments, run by the next assignment of any node.
ClearExpired(n) ==
  /\ ~lease[n] /\ (assigned[n] \/ desired[n])
  /\ assigned' = [assigned EXCEPT ![n] = FALSE]
  /\ desired' = [desired EXCEPT ![n] = @ /\ n \in Retained]
  /\ UNCHANGED <<db, lease, runner, pipe, late, taskFailed, faults>>

Assign(n) ==
  /\ lease[n] /\ ~desired[n]
  /\ desired' = [desired EXCEPT ![n] = TRUE]
  /\ UNCHANGED <<db, lease, assigned, runner, pipe, late, taskFailed, faults>>

Unassign(n) ==
  /\ desired[n] /\ Fault
  /\ desired' = [desired EXCEPT ![n] = FALSE]
  /\ UNCHANGED <<db, lease, assigned, runner, pipe, late, taskFailed>>

-----------------------------------------------------------------------------
(* The role runner of a node process                                       *)

\* reconcile: the desired target appeared; set_current_assignment needs a lease.
StartRole(n) ==
  /\ runner[n] = "none" /\ desired[n] /\ lease[n]
  /\ runner' = [runner EXCEPT ![n] = "running"]
  /\ assigned' = [assigned EXCEPT ![n] = TRUE]
  /\ UNCHANGED <<db, lease, desired, pipe, late, taskFailed, faults>>

\* reconcile: the desired target is gone, or a tick failed with an error that is
\* not the database's; stop() then finishes what is in the pipeline.
BeginStop(n) ==
  /\ runner[n] = "running"
  /\ \/ ~desired[n] /\ UNCHANGED faults
     \/ desired[n] /\ Fault
  /\ runner' = [runner EXCEPT ![n] = "draining"]
  /\ UNCHANGED <<db, nodes, pipe, late, taskFailed>>

\* clear_current_assignment fails on an expired lease, which is only logged.
FinishStop(n) ==
  /\ runner[n] = "draining"
  /\ Tracked(n) = {}
  /\ runner' = [runner EXCEPT ![n] = "none"]
  /\ assigned' = [assigned EXCEPT ![n] = @ /\ ~lease[n]]
  /\ UNCHANGED <<db, lease, desired, pipe, late, taskFailed, faults>>

\* The runner is dropped: its claims are forgotten, its requests may still run.
DropPipe(n) ==
  /\ taskFailed' \in {taskFailed, taskFailed \/ evaluation[n] = "failed"}
  /\ claimToken' = [claimToken EXCEPT ![n] = None]
  /\ fetching' = [fetching EXCEPT ![n] = FALSE]
  /\ ready' = [ready EXCEPT ![n] = None]
  /\ active' = [active EXCEPT ![n] = None]
  /\ evaluation' = [evaluation EXCEPT ![n] = "none"]
  /\ submission' = [submission EXCEPT ![n] = None]
  /\ submitting' = [submitting EXCEPT ![n] = FALSE]
  /\ IF fetching[n] THEN MayLinger(lateClaims, <<n, claimToken[n]>>) ELSE UNCHANGED lateClaims
  /\ IF submitting[n] THEN MayLinger(lateSubmits, <<n, submission[n]>>) ELSE UNCHANGED lateSubmits
  /\ IF evaluation[n] = "error" THEN MayLinger(lateFails, <<n, active[n]>>) ELSE UNCHANGED lateFails
  /\ UNCHANGED lateReleases

\* stop() returns the first error it meets, which abandons the runner; clearing
\* the assignment may fail in the same outage, and nothing repeats it.
AbandonRole(n) ==
  /\ runner[n] = "draining" /\ Fault
  /\ runner' = [runner EXCEPT ![n] = "none"]
  /\ assigned' \in {assigned, [assigned EXCEPT ![n] = @ /\ ~lease[n]]}
  /\ DropPipe(n)
  /\ UNCHANGED <<db, lease, desired>>

Crash(n) ==
  /\ n \in Mortal /\ Alive(n) /\ Fault
  /\ runner' = [runner EXCEPT ![n] = "dead"]
  /\ DropPipe(n)
  /\ UNCHANGED <<db, nodes>>

-----------------------------------------------------------------------------
(* The evaluator's tick.  A database error of a tick is logged and the tick *)
(* repeated while the role runs; while it drains, the error ends stop().   *)

\* Mutant: the request is sent without a token of its own.
StartPrefetchUntokened(n) ==
  IF fetching[n] \/ (runner[n] = "draining" /\ claimToken[n] = None)
  THEN UNCHANGED <<claimToken, fetching>>
  ELSE UNCHANGED claimToken /\ fetching' = [fetching EXCEPT ![n] = TRUE]

\* maybe_start_prefetch, with the ready batch already taken.
StartPrefetch(n) ==
  IF fetching[n] \/ (runner[n] = "draining" /\ claimToken[n] = None)
  THEN UNCHANGED <<claimToken, fetching>>
  ELSE /\ \E t \in IF claimToken[n] = None THEN FreshTokens ELSE {claimToken[n]} :
            claimToken' = [claimToken EXCEPT ![n] = t]
       /\ fetching' = [fetching EXCEPT ![n] = TRUE]

\* pop with nothing ready: a claim request is started and awaited.
Prefetch(n) ==
  /\ Ticking(n) /\ active[n] = None /\ ready[n] = None /\ ~fetching[n]
  /\ StartPrefetch(n)
  /\ UNCHANGED <<db, nodes, runner, ready, active, evaluation, submission, submitting, late,
                 taskFailed, faults>>

\* The claim request runs and is answered: finish_prefetch.
FinishPrefetch(n) ==
  /\ fetching[n]
  /\ \E reply \in Batches \cup {None} :
       /\ ClaimBatch(n, claimToken[n], reply)
       /\ ready' = [ready EXCEPT ![n] = IF reply = None THEN None
                                       ELSE [id |-> reply, token |-> claimToken[n]]]
  /\ claimToken' = [claimToken EXCEPT ![n] = None]
  /\ fetching' = [fetching EXCEPT ![n] = FALSE]
  /\ UNCHANGED <<nodes, runner, active, evaluation, submission, submitting, late, taskFailed, faults>>

\* The claim request fails, run or not: the token is kept for the retry.
PrefetchError(n) ==
  /\ runner[n] = "running" /\ fetching[n] /\ Fault
  /\ fetching' = [fetching EXCEPT ![n] = FALSE]
  /\ \/ /\ \E reply \in Batches \cup {None} : ClaimBatch(n, claimToken[n], reply)
        /\ UNCHANGED lateClaims
     \/ /\ UNCHANGED db
        /\ MayLinger(lateClaims, <<n, claimToken[n]>>)
  /\ UNCHANGED <<nodes, runner, claimToken, ready, active, evaluation, submission, submitting,
                 lateSubmits, lateFails, lateReleases, taskFailed>>

\* pop with a batch ready: it becomes active and the next prefetch starts.
TakeReady(n) ==
  /\ Ticking(n) /\ active[n] = None /\ ready[n] # None
  /\ active' = [active EXCEPT ![n] = ready[n]]
  /\ ready' = [ready EXCEPT ![n] = None]
  /\ StartPrefetch(n)
  /\ UNCHANGED <<db, nodes, runner, evaluation, submission, submitting, late, taskFailed, faults>>

\* evaluate_claim: a callback error or a panic is an outcome like another.
EvaluateClaim(n) ==
  /\ Ticking(n) /\ active[n] # None /\ evaluation[n] = "none"
  /\ \E outcome \in {"ok", "error"} : evaluation' = [evaluation EXCEPT ![n] = outcome]
  /\ UNCHANGED <<db, nodes, runner, claimToken, fetching, ready, active, submission, submitting,
                 late, taskFailed, faults>>

\* start_submit, once the submit slot is free.
StartSubmit(n) ==
  /\ Ticking(n) /\ evaluation[n] = "ok" /\ submission[n] = None
  /\ submission' = [submission EXCEPT ![n] = active[n]]
  /\ submitting' = [submitting EXCEPT ![n] = TRUE]
  /\ active' = [active EXCEPT ![n] = None]
  /\ evaluation' = [evaluation EXCEPT ![n] = "none"]
  /\ UNCHANGED <<db, nodes, runner, claimToken, fetching, ready, late, taskFailed, faults>>

\* ensure_submit: a retained submission is sent again.
EnsureSubmit(n) ==
  /\ Ticking(n) /\ submission[n] # None /\ ~submitting[n]
  /\ submitting' = [submitting EXCEPT ![n] = TRUE]
  /\ UNCHANGED <<db, nodes, runner, claimToken, fetching, ready, active, evaluation, submission,
                 late, taskFailed, faults>>

\* The submission is answered, accepted or stale: wait_for_slot drops it.
FinishSubmit(n) ==
  /\ submitting[n]
  /\ SubmitBatchResults(n, submission[n])
  /\ submission' = [submission EXCEPT ![n] = None]
  /\ submitting' = [submitting EXCEPT ![n] = FALSE]
  /\ UNCHANGED <<nodes, runner, claimToken, fetching, ready, active, evaluation, late, taskFailed, faults>>

\* The submission fails, run or not: the result is kept for the retry.
SubmitError(n) ==
  /\ runner[n] = "running" /\ submitting[n] /\ Fault
  /\ submitting' = [submitting EXCEPT ![n] = FALSE]
  /\ \/ SubmitBatchResults(n, submission[n]) /\ UNCHANGED lateSubmits
     \/ UNCHANGED db /\ MayLinger(lateSubmits, <<n, submission[n]>>)
  /\ UNCHANGED <<nodes, runner, claimToken, fetching, ready, active, evaluation, submission,
                 lateClaims, lateFails, lateReleases, taskFailed>>

\* persist_batch_failure up to the answer of fail_batch.
PersistFailure(n) ==
  /\ Ticking(n) /\ evaluation[n] = "error"
  /\ FailBatch(n, active[n])
  /\ LET permanent == FailOutcome(n, active[n]) = "permanent" IN
       /\ evaluation' = [evaluation EXCEPT ![n] = IF permanent THEN "failed" ELSE "none"]
       /\ active' = [active EXCEPT ![n] = IF permanent THEN @ ELSE None]
  /\ UNCHANGED <<nodes, runner, claimToken, fetching, ready, submission, submitting, late,
                 taskFailed, faults>>

PersistFailureError(n) ==
  /\ runner[n] = "running" /\ evaluation[n] = "error" /\ Fault
  /\ \/ FailBatch(n, active[n]) /\ UNCHANGED lateFails
     \/ UNCHANGED db /\ MayLinger(lateFails, <<n, active[n]>>)
  /\ UNCHANGED <<nodes, runner, pipe, lateClaims, lateSubmits, lateReleases, taskFailed>>

\* persist_batch_failure after a permanent failure: fail_run_task, then
\* clear_desired_assignments_for_run, which may fail and is then repeated.
FailTask(n) ==
  /\ Ticking(n) /\ evaluation[n] = "failed"
  /\ taskFailed' = TRUE
  /\ \/ /\ desired' = [m \in Nodes |-> FALSE]
        /\ evaluation' = [evaluation EXCEPT ![n] = "none"]
        /\ active' = [active EXCEPT ![n] = None]
        /\ UNCHANGED faults
     \/ runner[n] = "running" /\ Fault /\ UNCHANGED <<desired, evaluation, active>>
  /\ UNCHANGED <<db, lease, assigned, runner, claimToken, fetching, ready, submission, submitting, late>>

\* Mutant: the outstanding claim request is not listed.
ReconcileForgetsPrefetch(n) ==
  /\ Ticking(n) /\ Untracked(n, Tracked(n) \ {claimToken[n]}) # {}
  /\ ReleaseUntrackedClaims(n, Tracked(n) \ {claimToken[n]})
  /\ UNCHANGED <<nodes, runner, pipe, late, taskFailed, faults>>

\* reconcile_claims, at most once a second.
ReconcileClaims(n) ==
  /\ Ticking(n) /\ Untracked(n, Tracked(n)) # {}
  /\ ReleaseUntrackedClaims(n, Tracked(n))
  /\ UNCHANGED <<nodes, runner, pipe, late, taskFailed, faults>>

\* The release request is lost on the way; it may still arrive later.
ReconcileError(n) ==
  /\ runner[n] = "running" /\ Fault
  /\ lateReleases' = lateReleases \cup {<<n, Tracked(n)>>}
  /\ UNCHANGED <<db, nodes, runner, pipe, lateClaims, lateSubmits, lateFails, taskFailed>>

-----------------------------------------------------------------------------
(* Statements that run after their caller has given up on them             *)

LateClaim(r) ==
  /\ r \in lateClaims
  /\ \E reply \in Batches \cup {None} : ClaimBatch(r[1], r[2], reply)
  /\ lateClaims' = lateClaims \ {r}
  /\ UNCHANGED <<nodes, runner, pipe, lateSubmits, lateFails, lateReleases, taskFailed, faults>>

LateSubmit(r) ==
  /\ r \in lateSubmits
  /\ SubmitBatchResults(r[1], r[2])
  /\ lateSubmits' = lateSubmits \ {r}
  /\ UNCHANGED <<nodes, runner, pipe, lateClaims, lateFails, lateReleases, taskFailed, faults>>

LateFail(r) ==
  /\ r \in lateFails
  /\ FailBatch(r[1], r[2])
  /\ lateFails' = lateFails \ {r}
  /\ UNCHANGED <<nodes, runner, pipe, lateClaims, lateSubmits, lateReleases, taskFailed, faults>>

LateRelease(r) ==
  /\ r \in lateReleases
  /\ ReleaseUntrackedClaims(r[1], r[2])
  /\ lateReleases' = lateReleases \ {r}
  /\ UNCHANGED <<nodes, runner, pipe, lateClaims, lateSubmits, lateFails, taskFailed, faults>>

-----------------------------------------------------------------------------
Sampler ==
  \/ \E S \in SUBSET Batches : InsertBatches(S)
  \/ ReclaimAbandoned
  \/ \E b \in Batches : CleanupCompleted(b) \/ DiscardBatch(b)

ControlPlane(n) ==
  LeaseExpires(n) \/ AnnounceNode(n) \/ ClearExpired(n) \/ Assign(n) \/ Unassign(n)

NodeRunner(n) ==
  StartRole(n) \/ BeginStop(n) \/ FinishStop(n) \/ AbandonRole(n) \/ Crash(n)

Evaluator(n) ==
  \/ Prefetch(n) \/ FinishPrefetch(n) \/ PrefetchError(n) \/ TakeReady(n) \/ EvaluateClaim(n)
  \/ StartSubmit(n) \/ EnsureSubmit(n) \/ FinishSubmit(n) \/ SubmitError(n)
  \/ PersistFailure(n) \/ PersistFailureError(n) \/ FailTask(n)
  \/ ReconcileClaims(n) \/ ReconcileError(n)

Late ==
  \/ \E r \in lateClaims : LateClaim(r)
  \/ \E r \in lateSubmits : LateSubmit(r)
  \/ \E r \in lateFails : LateFail(r)
  \/ \E r \in lateReleases : LateRelease(r)

Next ==
  \/ Sampler
  \/ \E n \in Nodes : ControlPlane(n) \/ NodeRunner(n) \/ Evaluator(n)
  \/ Late

Spec == Init /\ [][Next]_vars

\* The loops that repeat by themselves: the heartbeat, the reconciliation of a
\* node with its desired target, the evaluator's ticks and background requests,
\* the sampler's reclaim.  Faults, the operator and evaluator errors owe nothing.
Fairness ==
  /\ WF_vars(ReclaimAbandoned) /\ WF_vars(Late)
  /\ \A n \in Nodes :
       /\ WF_vars(AnnounceNode(n)) /\ WF_vars(~Alive(n) /\ LeaseExpires(n))
       /\ WF_vars(StartRole(n)) /\ WF_vars(~desired[n] /\ BeginStop(n)) /\ WF_vars(FinishStop(n))
       /\ WF_vars(Prefetch(n)) /\ WF_vars(FinishPrefetch(n)) /\ WF_vars(TakeReady(n))
       /\ WF_vars(EvaluateClaim(n)) /\ WF_vars(StartSubmit(n)) /\ WF_vars(EnsureSubmit(n))
       /\ WF_vars(FinishSubmit(n)) /\ WF_vars(PersistFailure(n)) /\ WF_vars(FailTask(n))
       /\ WF_vars(ReconcileClaims(n))

FairSpec == Spec /\ Fairness

-----------------------------------------------------------------------------
(* Properties                                                              *)

\* A claim token stands for one row at most, whatever requests repeat or run
\* late: the unique index on claim_token never refuses a claim_batch.
ClaimTokenUnique ==
  \A b, c \in Batches : rows[b].token = rows[c].token => b = c \/ rows[b].token = None

\* Every claim of a batch is charged to its retry_count exactly once, by
\* fail_batch, by the release of an untracked claim or by the reclaim of an
\* abandoned one, or it is the claim that is current or was accepted: a repeated
\* or late failure report never spends the retry budget twice.
RetryAccounting ==
  \A b \in Batches :
    grants[b] = rows[b].retry + (IF rows[b].status \in {"claimed", "completed"} THEN 1 ELSE 0)

\* A batch has a result exactly when it is completed, and the result is that of
\* the claim whose token the row still carries: no superseded evaluation is
\* published, and no completed batch is requeued under its result.
ResultOfCurrentClaim ==
  \A b \in Batches :
    /\ (result[b] # None) <=> (rows[b].status = "completed")
    /\ result[b] # None => result[b] = rows[b].token

\* submit_batch_results never replaces an accepted result; only the deletion of
\* the whole batch removes it.
AcceptedResultStable ==
  [][\A b \in Batches : result[b] # None =>
        result'[b] = result[b] \/ rows'[b].status = "deleted"]_vars

\* A claim of batch b that evaluator n, ticking with a live lease and assignment,
\* has in memory or has requested, and that no release overtaken by it omits.
HeldClaim(n, b) ==
  /\ Ticking(n) /\ LiveEvaluator(n)
  /\ rows[b].status = "claimed" /\ rows[b].owner = n /\ rows[b].token \in Tracked(n)
  /\ \A r \in lateReleases : r[1] = n => rows[b].token \in r[2]

KeepsHeldClaims ==
  \A n \in Nodes, b \in Batches :
    HeldClaim(n, b) => rows'[b].token = rows[b].token \/ rows'[b].status = "deleted"

\* A claim that its live owner still tracks is never taken away from it: neither
\* reclaim nor claim reconciliation mistakes slow work for lost work.  Only a
\* release that was sent before the claim and arrives after it can do that.
NoLiveClaimRevoked == [][KeepsHeldClaims]_vars

\* A process that lost its assignment to an expired lease and did not see its
\* desired target change in between: it goes on without being able to claim.
Detached(n) == Ticking(n) /\ ~assigned[n]

\* A role that was dropped in an outage with its assignment left in place.
Orphaned(n) == runner[n] = "none" /\ LiveEvaluator(n) /\ ~desired[n]

\* As long as some live process is wanted as an evaluator, every batch is
\* completed, failed or deleted in the end, through crashes, lost requests and
\* repeated errors, unless its owner is an orphaned role or the task is over.
BatchResolves ==
  (<>[]\E n \in Nodes : Alive(n) /\ desired[n] /\ ~Detached(n)) =>
    \A b \in Batches :
      rows[b].status \in {"pending", "claimed"} ~>
        \/ rows[b].status \in {"completed", "failed", "deleted"}
        \/ taskFailed
        \/ rows[b].owner # None /\ Orphaned(rows[b].owner)

\* A batch that failed for good makes its task fail visibly.
FailedBatchFailsTask ==
  \A b \in Batches : rows[b].status = "failed" ~> (taskFailed \/ rows[b].status # "failed")

\* A result is accepted only from an evaluator whose lease has not expired.
ExpiredWorkerCannotPublish ==
  [][\A b \in Batches : result[b] = None /\ result'[b] # None => lease[rows[b].owner]]_vars

=============================================================================
