--------------------------- MODULE WorkQueueProofs ---------------------------
(* Proofs about WorkQueue, for any numbers of batches, nodes, tokens,      *)
(* retries and faults.                                                     *)
EXTENDS WorkQueue, TLAPS

\* What holds of the batches table and its results.
DbInv == DbTypeOK /\ ClaimTokenUnique /\ RetryAccounting /\ ResultOfCurrentClaim

-----------------------------------------------------------------------------
(* Each statement of the database keeps DbInv.                             *)

LEMMA ClaimKeepsDb ==
  ASSUME DbInv, NEW n \in Nodes, NEW t \in Tokens, NEW reply \in Batches \cup {None},
         ClaimBatch(n, t, reply)
  PROVE  DbInv'
<1> USE WorkQueueAssumption
<1>1. CASE UNCHANGED <<rows, grants>>
  BY <1>1 DEF ClaimBatch, DbInv, DbTypeOK, ClaimTokenUnique, RetryAccounting, ResultOfCurrentClaim
<1>2. CASE /\ reply \in Claimable(n, t)
           /\ rows' = [rows EXCEPT ![reply].status = "claimed", ![reply].owner = n, ![reply].token = t]
           /\ grants' = [grants EXCEPT ![reply] = @ + 1]
  <2>1. /\ reply \in Batches /\ rows[reply].status = "pending"
        /\ \A b \in Batches : rows[b].token # t
    BY <1>2 DEF Claimable
  <2>2. rows' = [b \in Batches |-> IF b = reply
                   THEN [status |-> "claimed", owner |-> n, token |-> t, retry |-> rows[b].retry]
                   ELSE rows[b]]
    BY <1>2, <2>1 DEF DbInv, DbTypeOK, Row
  <2>3. result' = result
    BY DEF ClaimBatch
  <2>4. DbTypeOK'
    BY <1>2, <2>1, <2>2, <2>3 DEF DbInv, DbTypeOK, Row, Status
  <2>5. ClaimTokenUnique'
    BY <2>1, <2>2 DEF DbInv, DbTypeOK, ClaimTokenUnique
  <2>6. RetryAccounting'
    BY <1>2, <2>1, <2>2 DEF DbInv, DbTypeOK, Row, RetryAccounting
  <2>7. ResultOfCurrentClaim'
    BY <2>1, <2>2, <2>3 DEF DbInv, DbTypeOK, ResultOfCurrentClaim
  <2> QED BY <2>4, <2>5, <2>6, <2>7 DEF DbInv
<1> QED BY <1>1, <1>2 DEF ClaimBatch

LEMMA SubmitKeepsDb ==
  ASSUME DbInv, NEW n \in Nodes, NEW c \in Claim, SubmitBatchResults(n, c)
  PROVE  DbInv'
<1> USE WorkQueueAssumption
<1>1. CASE UNCHANGED <<rows, result>>
  BY <1>1 DEF SubmitBatchResults, DbInv, DbTypeOK, ClaimTokenUnique, RetryAccounting, ResultOfCurrentClaim
<1>2. CASE /\ Owns(n, c) /\ rows[c.id].status = "claimed"
           /\ rows' = [rows EXCEPT ![c.id].status = "completed"]
           /\ result' = [result EXCEPT ![c.id] = c.token]
  <2>1. c.id \in Batches /\ c.token \in Tokens /\ rows[c.id].token = c.token
    BY <1>2 DEF Claim, Owns
  <2>a. \A r \in Row : [r EXCEPT !.status = "completed"] =
          [status |-> "completed", owner |-> r.owner, token |-> r.token, retry |-> r.retry]
    BY DEF Row
  <2>2. rows' = [b \in Batches |-> IF b = c.id
                   THEN [status |-> "completed", owner |-> rows[b].owner, token |-> rows[b].token,
                         retry |-> rows[b].retry]
                   ELSE rows[b]]
    BY <1>2, <2>1, <2>a DEF DbInv, DbTypeOK
  <2>3. grants' = grants
    BY DEF SubmitBatchResults
  <2>4. DbTypeOK'
    BY <1>2, <2>1, <2>2, <2>3 DEF DbInv, DbTypeOK, Row, Status
  <2>5. ClaimTokenUnique'
    BY <2>2 DEF DbInv, DbTypeOK, ClaimTokenUnique
  <2>6. RetryAccounting'
    BY <1>2, <2>1, <2>2, <2>3 DEF DbInv, DbTypeOK, Row, RetryAccounting
  <2>7. ResultOfCurrentClaim'
    BY <1>2, <2>1, <2>2 DEF DbInv, DbTypeOK, ResultOfCurrentClaim
  <2> QED BY <2>4, <2>5, <2>6, <2>7 DEF DbInv
<1> QED BY <1>1, <1>2 DEF SubmitBatchResults

LEMMA FailKeepsDb ==
  ASSUME DbInv, NEW n \in Nodes, NEW c \in Claim, FailBatch(n, c)
  PROVE  DbInv'
<1> USE WorkQueueAssumption
<1>1. CASE UNCHANGED rows
  BY <1>1 DEF FailBatch, DbInv, DbTypeOK, ClaimTokenUnique, RetryAccounting, ResultOfCurrentClaim
<1>2. CASE Owns(n, c) /\ rows[c.id].status = "claimed" /\ rows' # rows
  <2> DEFINE next == IF rows[c.id].retry + 1 >= MaxRetries THEN "failed" ELSE "pending"
  <2>1. c.id \in Batches
    BY DEF Claim
  <2>2. rows' = [b \in Batches |-> IF b = c.id
                   THEN [status |-> next, owner |-> rows[b].owner, token |-> rows[b].token,
                         retry |-> rows[b].retry + 1]
                   ELSE rows[b]]
    BY <1>2, <2>1 DEF FailBatch, DbInv, DbTypeOK, Row
  <2>3. UNCHANGED <<result, grants>>
    BY DEF FailBatch
  <2>4. next \in {"failed", "pending"}
    OBVIOUS
  <2> HIDE DEF next
  <2>5. DbTypeOK'
    BY <2>1, <2>2, <2>3, <2>4 DEF DbInv, DbTypeOK, Row, Status
  <2>6. ClaimTokenUnique'
    BY <2>2 DEF DbInv, DbTypeOK, ClaimTokenUnique
  <2>7. RetryAccounting'
    BY <1>2, <2>1, <2>2, <2>3, <2>4 DEF DbInv, DbTypeOK, Row, RetryAccounting
  <2>8. ResultOfCurrentClaim'
    BY <1>2, <2>1, <2>2, <2>3, <2>4 DEF DbInv, DbTypeOK, ResultOfCurrentClaim
  <2> QED BY <2>5, <2>6, <2>7, <2>8 DEF DbInv
<1> QED BY <1>1, <1>2 DEF FailBatch

\* Release and reclaim requeue a set of claimed rows.
LEMMA RequeueKeepsDb ==
  ASSUME DbInv, NEW S \in SUBSET Batches, \A b \in S : rows[b].status = "claimed",
         rows' = [b \in Batches |-> IF b \in S THEN Requeue(rows[b]) ELSE rows[b]],
         UNCHANGED <<result, grants>>
  PROVE  DbInv'
<1> USE WorkQueueAssumption
<1>1. rows' = [b \in Batches |-> IF b \in S
                 THEN [status |-> "pending", owner |-> None, token |-> None,
                       retry |-> rows[b].retry + 1]
                 ELSE rows[b]]
  BY DEF Requeue
<1>2. DbTypeOK'
  BY <1>1 DEF DbInv, DbTypeOK, Row, Status
<1>3. ClaimTokenUnique'
  BY <1>1 DEF DbInv, DbTypeOK, ClaimTokenUnique
<1>4. RetryAccounting'
  BY <1>1 DEF DbInv, DbTypeOK, Row, RetryAccounting
<1>5. ResultOfCurrentClaim'
  BY <1>1 DEF DbInv, DbTypeOK, ResultOfCurrentClaim
<1> QED BY <1>2, <1>3, <1>4, <1>5 DEF DbInv

LEMMA InsertKeepsDb ==
  ASSUME DbInv, NEW S \in SUBSET Batches, InsertBatches(S)
  PROVE  DbInv'
<1>1. rows' = [b \in Batches |-> IF b \in S
                 THEN [status |-> "pending", owner |-> rows[b].owner, token |-> rows[b].token,
                       retry |-> rows[b].retry]
                 ELSE rows[b]]
  BY DEF DbInv, DbTypeOK, Row, InsertBatches
<1>2. /\ UNCHANGED <<result, grants>> /\ \A b \in S : rows[b].status = "none"
  BY DEF InsertBatches
<1>3. DbTypeOK'
  BY <1>1, <1>2 DEF DbInv, DbTypeOK, Row, Status
<1>4. ClaimTokenUnique'
  BY <1>1 DEF DbInv, DbTypeOK, ClaimTokenUnique
<1>5. RetryAccounting'
  BY <1>1, <1>2 DEF DbInv, DbTypeOK, Row, RetryAccounting
<1>6. ResultOfCurrentClaim'
  BY <1>1, <1>2 DEF DbInv, DbTypeOK, ResultOfCurrentClaim
<1> QED BY <1>3, <1>4, <1>5, <1>6 DEF DbInv

LEMMA DeleteKeepsDb ==
  ASSUME DbInv, NEW S \in SUBSET Batches, Delete(S)
  PROVE  DbInv'
<1> USE WorkQueueAssumption DEF Delete
<1>1. DbTypeOK'
  BY DEF DbInv, DbTypeOK, Row, Status
<1>2. ClaimTokenUnique'
  BY DEF DbInv, DbTypeOK, ClaimTokenUnique
<1>3. RetryAccounting'
  BY DEF DbInv, DbTypeOK, Row, RetryAccounting
<1>4. ResultOfCurrentClaim'
  BY DEF DbInv, DbTypeOK, ResultOfCurrentClaim
<1> QED BY <1>1, <1>2, <1>3, <1>4 DEF DbInv

LEMMA DbUnchanged ==
  ASSUME DbInv, UNCHANGED db
  PROVE  DbInv'
BY DEF db, DbInv, DbTypeOK, ClaimTokenUnique, RetryAccounting, ResultOfCurrentClaim

-----------------------------------------------------------------------------
(* The memory of the nodes and the requests under way keep their types.    *)

\* The part of TypeOK that no statement of the database touches.
MemOK ==
  /\ NodesTypeOK /\ PipeTypeOK /\ LateTypeOK
  /\ taskFailed \in BOOLEAN
  /\ faults \in 0 .. MaxFaults

LEMMA MemUnchanged ==
  ASSUME MemOK, UNCHANGED <<nodes, runner, pipe, late, taskFailed, faults>>
  PROVE  MemOK'
BY DEF nodes, pipe, late, MemOK, NodesTypeOK, PipeTypeOK, LateTypeOK

LEMMA FaultBounded ==
  ASSUME MemOK, Fault \/ UNCHANGED faults
  PROVE  faults' \in 0 .. MaxFaults
BY WorkQueueAssumption DEF MemOK, Fault

LEMMA TrackedTokens ==
  ASSUME MemOK, NEW n \in Nodes
  PROVE  Tracked(n) \subseteq Tokens
BY DEF MemOK, PipeTypeOK, Tracked, Claim

\* Steps that change leases, assignments and roles and leave the pipeline alone.
LEMMA NodeStepKeepsMem ==
  ASSUME MemOK, NEW n \in Nodes, UNCHANGED <<pipe, late, taskFailed>>,
         \/ LeaseExpires(n) \/ AnnounceNode(n) \/ ClearExpired(n) \/ Assign(n) \/ Unassign(n)
         \/ StartRole(n) \/ BeginStop(n) \/ FinishStop(n)
  PROVE  MemOK'
<1>1. faults' \in 0 .. MaxFaults
  BY FaultBounded DEF LeaseExpires, AnnounceNode, ClearExpired, Assign, Unassign, StartRole,
                      BeginStop, FinishStop
<1>2. NodesTypeOK'
  BY DEF MemOK, NodesTypeOK, nodes, LeaseExpires, AnnounceNode, ClearExpired, Assign, Unassign,
         StartRole, BeginStop, FinishStop
<1>3. PipeTypeOK' /\ LateTypeOK' /\ taskFailed' \in BOOLEAN
  BY DEF MemOK, pipe, late, PipeTypeOK, LateTypeOK
<1> QED BY <1>1, <1>2, <1>3 DEF MemOK

LEMMA DropKeepsMem ==
  ASSUME MemOK, NEW n \in Nodes, AbandonRole(n) \/ Crash(n)
  PROVE  MemOK'
<1> USE WorkQueueAssumption
<1>1. DropPipe(n) /\ Fault
  BY DEF AbandonRole, Crash
<1>2. faults' \in 0 .. MaxFaults
  BY <1>1, FaultBounded
<1>3. NodesTypeOK'
  BY DEF MemOK, NodesTypeOK, nodes, AbandonRole, Crash
<1>4. PipeTypeOK'
  BY <1>1 DEF MemOK, PipeTypeOK, DropPipe
<1>5. LateTypeOK'
  <2>1. lateClaims' \subseteq Nodes \X Tokens
    BY <1>1 DEF MemOK, PipeTypeOK, LateTypeOK, DropPipe, MayLinger
  <2>2. lateSubmits' \subseteq Nodes \X Claim
    BY <1>1 DEF MemOK, PipeTypeOK, LateTypeOK, DropPipe, MayLinger
  <2>3. lateFails' \subseteq Nodes \X Claim
    BY <1>1 DEF MemOK, PipeTypeOK, LateTypeOK, DropPipe, MayLinger
  <2> QED BY <1>1, <2>1, <2>2, <2>3 DEF MemOK, LateTypeOK, DropPipe
<1>6. taskFailed' \in BOOLEAN
  BY <1>1 DEF MemOK, DropPipe
<1> QED BY <1>2, <1>3, <1>4, <1>5, <1>6 DEF MemOK

LEMMA StartPrefetchKeepsPipe ==
  ASSUME PipeTypeOK, NEW n \in Nodes, StartPrefetch(n)
  PROVE  /\ claimToken' \in [Nodes -> Tokens \cup {None}]
         /\ fetching' \in [Nodes -> BOOLEAN]
         /\ \A m \in Nodes : fetching'[m] => claimToken'[m] # None
<1>1. CASE UNCHANGED <<claimToken, fetching>>
  BY <1>1 DEF PipeTypeOK
<1>2. CASE /\ \E t \in IF claimToken[n] = None THEN FreshTokens ELSE {claimToken[n]} :
                claimToken' = [claimToken EXCEPT ![n] = t]
           /\ fetching' = [fetching EXCEPT ![n] = TRUE]
  <2>1. PICK t \in Tokens : claimToken' = [claimToken EXCEPT ![n] = t]
    BY <1>2 DEF PipeTypeOK, FreshTokens
  <2> QED BY <1>2, <2>1, WorkQueueAssumption DEF PipeTypeOK
<1> QED BY <1>1, <1>2 DEF StartPrefetch

\* Steps of the evaluator's pipeline.
LEMMA PipeStepKeepsMem ==
  ASSUME MemOK, NEW n \in Nodes, UNCHANGED late,
         \/ Prefetch(n) \/ FinishPrefetch(n) \/ TakeReady(n) \/ EvaluateClaim(n) \/ StartSubmit(n)
         \/ EnsureSubmit(n) \/ FinishSubmit(n) \/ PersistFailure(n) \/ FailTask(n)
  PROVE  MemOK'
<1> USE WorkQueueAssumption
<1>1. faults' \in 0 .. MaxFaults
  BY FaultBounded DEF Prefetch, FinishPrefetch, TakeReady, EvaluateClaim, StartSubmit,
                      EnsureSubmit, FinishSubmit, PersistFailure, FailTask
<1>2. NodesTypeOK' /\ taskFailed' \in BOOLEAN
  BY DEF MemOK, NodesTypeOK, nodes, Prefetch, FinishPrefetch, TakeReady, EvaluateClaim,
         StartSubmit, EnsureSubmit, FinishSubmit, PersistFailure, FailTask
<1>3. LateTypeOK'
  BY DEF MemOK, LateTypeOK, late
<1>4. PipeTypeOK'
  <2>1. CASE Prefetch(n)
    BY <2>1, StartPrefetchKeepsPipe DEF Prefetch, MemOK, PipeTypeOK
  <2>2. CASE FinishPrefetch(n)
    <3>1. claimToken[n] \in Tokens
      BY <2>2 DEF FinishPrefetch, MemOK, PipeTypeOK
    <3>2. ready' \in [Nodes -> Claim \cup {None}]
      BY <2>2, <3>1 DEF FinishPrefetch, MemOK, PipeTypeOK, Claim
    <3> QED BY <2>2, <3>2 DEF FinishPrefetch, MemOK, PipeTypeOK
  <2>3. CASE TakeReady(n)
    BY <2>3, StartPrefetchKeepsPipe DEF TakeReady, MemOK, PipeTypeOK
  <2>4. CASE EvaluateClaim(n)
    BY <2>4 DEF EvaluateClaim, MemOK, PipeTypeOK
  <2>5. CASE StartSubmit(n)
    BY <2>5 DEF StartSubmit, MemOK, PipeTypeOK
  <2>6. CASE EnsureSubmit(n)
    BY <2>6 DEF EnsureSubmit, MemOK, PipeTypeOK
  <2>7. CASE FinishSubmit(n)
    BY <2>7 DEF FinishSubmit, MemOK, PipeTypeOK
  <2>8. CASE PersistFailure(n)
    BY <2>8 DEF PersistFailure, MemOK, PipeTypeOK
  <2>9. CASE FailTask(n)
    BY <2>9 DEF FailTask, MemOK, PipeTypeOK
  <2> QED BY <2>1, <2>2, <2>3, <2>4, <2>5, <2>6, <2>7, <2>8, <2>9
<1> QED BY <1>1, <1>2, <1>3, <1>4 DEF MemOK

\* A request that fails keeps what it was about, and may stay behind.
LEMMA ErrorKeepsMem ==
  ASSUME MemOK, NEW n \in Nodes,
         PrefetchError(n) \/ SubmitError(n) \/ PersistFailureError(n) \/ ReconcileError(n)
  PROVE  MemOK'
<1> USE WorkQueueAssumption
<1>1. faults' \in 0 .. MaxFaults
  BY FaultBounded DEF PrefetchError, SubmitError, PersistFailureError, ReconcileError
<1>2. NodesTypeOK' /\ taskFailed' \in BOOLEAN
  BY DEF MemOK, NodesTypeOK, nodes, PrefetchError, SubmitError, PersistFailureError, ReconcileError
<1>3. PipeTypeOK'
  BY DEF MemOK, PipeTypeOK, pipe, PrefetchError, SubmitError, PersistFailureError, ReconcileError
<1>4. LateTypeOK'
  <2>1. CASE PrefetchError(n)
    BY <2>1 DEF PrefetchError, MayLinger, MemOK, PipeTypeOK, LateTypeOK
  <2>2. CASE SubmitError(n)
    BY <2>2 DEF SubmitError, MayLinger, MemOK, PipeTypeOK, LateTypeOK
  <2>3. CASE PersistFailureError(n)
    BY <2>3 DEF PersistFailureError, MayLinger, MemOK, PipeTypeOK, LateTypeOK
  <2>4. CASE ReconcileError(n)
    BY <2>4, TrackedTokens DEF ReconcileError, MemOK, LateTypeOK
  <2> QED BY <2>1, <2>2, <2>3, <2>4
<1> QED BY <1>1, <1>2, <1>3, <1>4 DEF MemOK

\* A late statement leaves its set; nothing else of a node's memory changes.
LEMMA LateKeepsMem ==
  ASSUME MemOK, Late
  PROVE  MemOK'
<1>1. /\ UNCHANGED <<nodes, runner, pipe, taskFailed, faults>>
      /\ lateClaims' \subseteq lateClaims /\ lateSubmits' \subseteq lateSubmits
      /\ lateFails' \subseteq lateFails /\ lateReleases' \subseteq lateReleases
  BY DEF Late, LateClaim, LateSubmit, LateFail, LateRelease
<1> QED BY <1>1 DEF nodes, pipe, MemOK, NodesTypeOK, PipeTypeOK, LateTypeOK

-----------------------------------------------------------------------------
(* Every step keeps both.                                                  *)

LEMMA InitInv ==
  Init => DbInv /\ MemOK
<1> SUFFICES ASSUME Init PROVE DbInv /\ MemOK
  OBVIOUS
<1> USE WorkQueueAssumption DEF Init
<1>1. DbInv
  BY DEF DbInv, DbTypeOK, Row, Status, ClaimTokenUnique, RetryAccounting, ResultOfCurrentClaim
<1>2. NodesTypeOK
  BY DEF NodesTypeOK
<1>3. PipeTypeOK
  BY DEF PipeTypeOK
<1>4. LateTypeOK /\ taskFailed \in BOOLEAN
  BY DEF LateTypeOK
<1>5. faults \in 0 .. MaxFaults
  OBVIOUS
<1> QED BY <1>1, <1>2, <1>3, <1>4, <1>5 DEF MemOK

LEMMA MemStep ==
  MemOK /\ [Next]_vars => MemOK'
<1> SUFFICES ASSUME MemOK, [Next]_vars PROVE MemOK'
  OBVIOUS
<1>1. CASE Sampler
  <2>1. ASSUME NEW b \in Batches, DiscardBatch(b) PROVE MemOK'
    <3>1. Fault /\ UNCHANGED <<nodes, runner, pipe, late, taskFailed>>
      BY <2>1 DEF DiscardBatch, Delete
    <3>2. faults' \in 0 .. MaxFaults
      BY <3>1, FaultBounded
    <3> QED BY <3>1, <3>2 DEF nodes, pipe, late, MemOK, NodesTypeOK, PipeTypeOK, LateTypeOK
  <2>2. CASE \A b \in Batches : ~DiscardBatch(b)
    BY <1>1, <2>2, MemUnchanged DEF Sampler, InsertBatches, ReclaimAbandoned, CleanupCompleted, Delete
  <2> QED BY <2>1, <2>2
<1>2. ASSUME NEW n \in Nodes, ControlPlane(n) PROVE MemOK'
  <2>1. UNCHANGED <<pipe, late, taskFailed>>
    BY <1>2 DEF ControlPlane, LeaseExpires, AnnounceNode, ClearExpired, Assign, Unassign
  <2> QED BY <1>2, <2>1, NodeStepKeepsMem DEF ControlPlane
<1>3. ASSUME NEW n \in Nodes, NodeRunner(n) PROVE MemOK'
  <2>1. CASE AbandonRole(n) \/ Crash(n)
    BY <2>1, DropKeepsMem
  <2>2. CASE StartRole(n) \/ BeginStop(n) \/ FinishStop(n)
    <3>1. UNCHANGED <<pipe, late, taskFailed>>
      BY <2>2 DEF StartRole, BeginStop, FinishStop
    <3> QED BY <2>2, <3>1, NodeStepKeepsMem
  <2> QED BY <1>3, <2>1, <2>2 DEF NodeRunner
<1>4. ASSUME NEW n \in Nodes, Evaluator(n) PROVE MemOK'
  <2>1. CASE PrefetchError(n) \/ SubmitError(n) \/ PersistFailureError(n) \/ ReconcileError(n)
    BY <2>1, ErrorKeepsMem
  <2>2. CASE ReconcileClaims(n)
    BY <2>2, MemUnchanged DEF ReconcileClaims
  <2>3. CASE \/ Prefetch(n) \/ FinishPrefetch(n) \/ TakeReady(n) \/ EvaluateClaim(n)
             \/ StartSubmit(n) \/ EnsureSubmit(n) \/ FinishSubmit(n) \/ PersistFailure(n)
             \/ FailTask(n)
    <3>1. UNCHANGED late
      BY <2>3 DEF Prefetch, FinishPrefetch, TakeReady, EvaluateClaim, StartSubmit, EnsureSubmit,
                  FinishSubmit, PersistFailure, FailTask
    <3> QED BY <2>3, <3>1, PipeStepKeepsMem
  <2> QED BY <1>4, <2>1, <2>2, <2>3 DEF Evaluator
<1>5. CASE Late
  BY <1>5, LateKeepsMem
<1>6. CASE UNCHANGED vars
  BY <1>6, MemUnchanged DEF vars
<1> QED BY <1>1, <1>2, <1>3, <1>4, <1>5, <1>6 DEF Next

LEMMA DbStep ==
  DbInv /\ MemOK /\ [Next]_vars => DbInv'
<1> SUFFICES ASSUME DbInv, MemOK, [Next]_vars PROVE DbInv'
  OBVIOUS
<1>1. CASE Sampler
  <2>1. ASSUME NEW S \in SUBSET Batches, InsertBatches(S) PROVE DbInv'
    BY <2>1, InsertKeepsDb
  <2>2. CASE ReclaimAbandoned
    BY <2>2, RequeueKeepsDb DEF ReclaimAbandoned, Abandoned
  <2>3. ASSUME NEW b \in Batches, CleanupCompleted(b) \/ DiscardBatch(b) PROVE DbInv'
    BY <2>3, DeleteKeepsDb DEF CleanupCompleted, DiscardBatch
  <2> QED BY <1>1, <2>1, <2>2, <2>3 DEF Sampler
<1>2. ASSUME NEW n \in Nodes, ControlPlane(n) \/ NodeRunner(n) PROVE DbInv'
  <2>1. UNCHANGED db
    BY <1>2 DEF ControlPlane, LeaseExpires, AnnounceNode, ClearExpired, Assign, Unassign,
                NodeRunner, StartRole, BeginStop, FinishStop, AbandonRole, Crash
  <2> QED BY <2>1, DbUnchanged
<1>3. ASSUME NEW n \in Nodes, Evaluator(n) PROVE DbInv'
  <2>1. CASE FinishPrefetch(n) \/ PrefetchError(n)
    <3>1. claimToken[n] \in Tokens
      BY <2>1 DEF FinishPrefetch, PrefetchError, MemOK, PipeTypeOK
    <3>2. CASE UNCHANGED db
      BY <3>2, DbUnchanged
    <3>3. CASE \E reply \in Batches \cup {None} : ClaimBatch(n, claimToken[n], reply)
      BY <3>1, <3>3, ClaimKeepsDb
    <3> QED BY <2>1, <3>2, <3>3 DEF FinishPrefetch, PrefetchError
  <2>2. CASE FinishSubmit(n) \/ SubmitError(n)
    <3>1. submission[n] \in Claim
      BY <2>2 DEF FinishSubmit, SubmitError, MemOK, PipeTypeOK
    <3>2. CASE UNCHANGED db
      BY <3>2, DbUnchanged
    <3>3. CASE SubmitBatchResults(n, submission[n])
      BY <3>1, <3>3, SubmitKeepsDb
    <3> QED BY <2>2, <3>2, <3>3 DEF FinishSubmit, SubmitError
  <2>3. CASE PersistFailure(n) \/ PersistFailureError(n)
    <3>1. active[n] \in Claim
      BY <2>3 DEF PersistFailure, PersistFailureError, MemOK, PipeTypeOK
    <3>2. CASE UNCHANGED db
      BY <3>2, DbUnchanged
    <3>3. CASE FailBatch(n, active[n])
      BY <3>1, <3>3, FailKeepsDb
    <3> QED BY <2>3, <3>2, <3>3 DEF PersistFailure, PersistFailureError
  <2>4. CASE ReconcileClaims(n)
    BY <2>4, RequeueKeepsDb DEF ReconcileClaims, ReleaseUntrackedClaims, Untracked
  <2>5. CASE \/ Prefetch(n) \/ TakeReady(n) \/ EvaluateClaim(n) \/ StartSubmit(n)
             \/ EnsureSubmit(n) \/ FailTask(n) \/ ReconcileError(n)
    BY <2>5, DbUnchanged DEF Prefetch, TakeReady, EvaluateClaim, StartSubmit, EnsureSubmit,
                             FailTask, ReconcileError
  <2> QED BY <1>3, <2>1, <2>2, <2>3, <2>4, <2>5 DEF Evaluator
<1>4. CASE Late
  <2>1. ASSUME NEW r \in lateClaims, LateClaim(r) PROVE DbInv'
    BY <2>1, ClaimKeepsDb DEF LateClaim, MemOK, LateTypeOK
  <2>2. ASSUME NEW r \in lateSubmits, LateSubmit(r) PROVE DbInv'
    BY <2>2, SubmitKeepsDb DEF LateSubmit, MemOK, LateTypeOK
  <2>3. ASSUME NEW r \in lateFails, LateFail(r) PROVE DbInv'
    BY <2>3, FailKeepsDb DEF LateFail, MemOK, LateTypeOK
  <2>4. ASSUME NEW r \in lateReleases, LateRelease(r) PROVE DbInv'
    <3> DEFINE S == Untracked(r[1], r[2])
    <3>1. S \in SUBSET Batches /\ \A b \in S : rows[b].status = "claimed"
      BY DEF Untracked
    <3>2. /\ rows' = [b \in Batches |-> IF b \in S THEN Requeue(rows[b]) ELSE rows[b]]
          /\ UNCHANGED <<result, grants>>
      BY <2>4 DEF LateRelease, ReleaseUntrackedClaims
    <3> HIDE DEF S
    <3> QED BY <3>1, <3>2, RequeueKeepsDb
  <2> QED BY <1>4, <2>1, <2>2, <2>3, <2>4 DEF Late
<1>5. CASE UNCHANGED vars
  BY <1>5, DbUnchanged DEF vars, db
<1> QED BY <1>1, <1>2, <1>3, <1>4, <1>5 DEF Next

\* DbInv and MemOK hold in every reachable state.
THEOREM Invariance == Spec => [](DbInv /\ MemOK)
<1>1. DbInv /\ MemOK /\ [Next]_vars => (DbInv /\ MemOK)'
  BY MemStep, DbStep
<1> QED BY InitInv, <1>1, PTL DEF Spec

\* The type invariant: rows, memory and requests keep their types, and the fields
\* of an evaluator's pipeline never contradict each other.
THEOREM TypeCorrect == Spec => []TypeOK
<1>1. DbInv /\ MemOK => TypeOK
  BY DEF DbInv, MemOK, TypeOK
<1> QED BY Invariance, <1>1, PTL

\* claim_batch never gives one token two rows.
THEOREM TokensUnique == Spec => []ClaimTokenUnique
<1>1. DbInv /\ MemOK => ClaimTokenUnique
  BY DEF DbInv
<1> QED BY Invariance, <1>1, PTL

\* Every claim is charged to the retry budget exactly once.
THEOREM RetriesAccounted == Spec => []RetryAccounting
<1>1. DbInv /\ MemOK => RetryAccounting
  BY DEF DbInv
<1> QED BY Invariance, <1>1, PTL

\* A batch is completed exactly when it has the result of its current claim.
THEOREM ResultsCurrent == Spec => []ResultOfCurrentClaim
<1>1. DbInv /\ MemOK => ResultOfCurrentClaim
  BY DEF DbInv
<1> QED BY Invariance, <1>1, PTL

\* An accepted result is never replaced or dropped except with its batch.
THEOREM ResultsStable == Spec => AcceptedResultStable
<1> DEFINE Step == \A b \in Batches : result[b] # None =>
                     result'[b] = result[b] \/ rows'[b].status = "deleted"
<1>1. DbInv /\ MemOK /\ [Next]_vars => [Step]_vars
  <2> SUFFICES ASSUME DbInv, MemOK, Next PROVE Step
    OBVIOUS
  <2>1. CASE result' = result
    BY <2>1
  <2>2. ASSUME NEW S \in SUBSET Batches, Delete(S) PROVE Step
    BY <2>2 DEF Delete, DbInv, DbTypeOK
  <2>3. ASSUME NEW n \in Nodes, NEW c \in Claim, SubmitBatchResults(n, c) PROVE Step
    <3>1. CASE result' = [result EXCEPT ![c.id] = c.token] /\ rows[c.id].status = "claimed"
      BY <3>1 DEF Claim, DbInv, DbTypeOK, ResultOfCurrentClaim
    <3> QED BY <2>1, <2>3, <3>1 DEF SubmitBatchResults
  <2>4. CASE Sampler
    BY <2>1, <2>2, <2>4 DEF Sampler, InsertBatches, ReclaimAbandoned, CleanupCompleted, DiscardBatch
  <2>5. ASSUME NEW n \in Nodes, ControlPlane(n) \/ NodeRunner(n) PROVE Step
    <3>1. result' = result
      BY <2>5 DEF db, ControlPlane, LeaseExpires, AnnounceNode, ClearExpired, Assign, Unassign,
                  NodeRunner, StartRole, BeginStop, FinishStop, AbandonRole, Crash
    <3> QED BY <2>1, <3>1
  <2>6. ASSUME NEW n \in Nodes, Evaluator(n) PROVE Step
    <3>1. CASE FinishSubmit(n) \/ SubmitError(n)
      <4>1. submission[n] \in Claim
        BY <3>1 DEF FinishSubmit, SubmitError, MemOK, PipeTypeOK
      <4>2. result' = result \/ SubmitBatchResults(n, submission[n])
        BY <3>1 DEF db, FinishSubmit, SubmitError
      <4> QED BY <2>1, <2>3, <4>1, <4>2
    <3>2. CASE ~FinishSubmit(n) /\ ~SubmitError(n)
      <4>1. result' = result
        BY <2>6, <3>2 DEF db, Evaluator, Prefetch, FinishPrefetch, PrefetchError, TakeReady,
             EvaluateClaim, StartSubmit, EnsureSubmit, PersistFailure, PersistFailureError, FailTask,
             ReconcileClaims, ReconcileError, ClaimBatch, FailBatch, ReleaseUntrackedClaims
      <4> QED BY <2>1, <4>1
    <3> QED BY <3>1, <3>2
  <2>7. CASE Late
    <3>1. ASSUME NEW r \in lateSubmits, LateSubmit(r) PROVE Step
      BY <2>3, <3>1 DEF LateSubmit, MemOK, LateTypeOK
    <3>2. CASE \A r \in lateSubmits : ~LateSubmit(r)
      <4>1. result' = result
        BY <2>7, <3>2 DEF Late, LateClaim, LateFail, LateRelease, ClaimBatch, FailBatch,
                          ReleaseUntrackedClaims
      <4> QED BY <2>1, <4>1
    <3> QED BY <3>1, <3>2
  <2> QED BY <2>4, <2>5, <2>6, <2>7 DEF Next
<1> QED BY Invariance, <1>1, PTL DEF Spec, AcceptedResultStable

\* A claim that a live, assigned, ticking evaluator still tracks is not revoked:
\* only a release and a reclaim clear the token of a claimed row, the one spares
\* the tokens its node lists, the other the rows of live evaluators.
THEOREM LiveClaimsKept == Spec => NoLiveClaimRevoked
<1> DEFINE Kept(b) == rows'[b].token = rows[b].token \/ rows'[b].status = "deleted"
<1>1. DbInv /\ MemOK /\ [Next]_vars => [KeepsHeldClaims]_vars
  <2> SUFFICES ASSUME DbInv, MemOK, Next, NEW n \in Nodes, NEW b \in Batches, HeldClaim(n, b)
               PROVE  Kept(b)
    BY DEF KeepsHeldClaims
  <2>1. rows[b] \in Row /\ rows[b].status = "claimed" /\ rows[b].owner = n
    BY DEF DbInv, DbTypeOK, HeldClaim
  <2>2. ASSUME NEW m, NEW t, NEW reply \in Batches \cup {None}, ClaimBatch(m, t, reply) PROVE Kept(b)
    <3>1. CASE rows' = rows
      BY <3>1
    <3>2. CASE /\ reply \in Claimable(m, t)
               /\ rows' = [rows EXCEPT ![reply].status = "claimed", ![reply].owner = m,
                                       ![reply].token = t]
      <4>1. reply # b
        BY <2>1, <3>2 DEF Claimable
      <4> QED BY <3>2, <4>1 DEF DbInv, DbTypeOK
    <3> QED BY <2>2, <3>1, <3>2 DEF ClaimBatch
  <2>3. ASSUME NEW m, NEW c \in Claim, SubmitBatchResults(m, c) \/ FailBatch(m, c) PROVE Kept(b)
    BY <2>1, <2>3 DEF SubmitBatchResults, FailBatch, DbInv, DbTypeOK, Row, Claim
  <2>4. ASSUME NEW S \in SUBSET Batches, b \notin S,
               rows' = [x \in Batches |-> IF x \in S THEN Requeue(rows[x]) ELSE rows[x]]
        PROVE  Kept(b)
    BY <2>4
  <2>5. CASE rows' = rows
    BY <2>5
  <2>6. CASE Sampler
    <3>1. ASSUME NEW S \in SUBSET Batches, InsertBatches(S) PROVE Kept(b)
      BY <2>1, <3>1 DEF InsertBatches
    <3>2. CASE ReclaimAbandoned
      BY <2>1, <3>2 DEF ReclaimAbandoned, Abandoned, HeldClaim
    <3>3. ASSUME NEW S \in SUBSET Batches, Delete(S) PROVE Kept(b)
      BY <3>3 DEF Delete
    <3> QED BY <2>6, <3>1, <3>2, <3>3 DEF Sampler, CleanupCompleted, DiscardBatch
  <2>7. ASSUME NEW m \in Nodes, ControlPlane(m) \/ NodeRunner(m) PROVE Kept(b)
    <3>1. rows' = rows
      BY <2>7 DEF db, ControlPlane, LeaseExpires, AnnounceNode, ClearExpired, Assign, Unassign,
                  NodeRunner, StartRole, BeginStop, FinishStop, AbandonRole, Crash
    <3> QED BY <2>5, <3>1
  <2>8. ASSUME NEW m \in Nodes, Evaluator(m) PROVE Kept(b)
    <3>1. CASE FinishPrefetch(m) \/ PrefetchError(m)
      BY <2>2, <2>5, <3>1 DEF db, FinishPrefetch, PrefetchError
    <3>2. CASE FinishSubmit(m) \/ SubmitError(m)
      <4>1. submission[m] \in Claim
        BY <3>2 DEF FinishSubmit, SubmitError, MemOK, PipeTypeOK
      <4> QED BY <2>3, <2>5, <3>2, <4>1 DEF db, FinishSubmit, SubmitError
    <3>3. CASE PersistFailure(m) \/ PersistFailureError(m)
      <4>1. active[m] \in Claim
        BY <3>3 DEF PersistFailure, PersistFailureError, MemOK, PipeTypeOK
      <4> QED BY <2>3, <2>5, <3>3, <4>1 DEF db, PersistFailure, PersistFailureError
    <3>4. CASE ReconcileClaims(m)
      <4>1. b \notin Untracked(m, Tracked(m))
        BY DEF Untracked, HeldClaim
      <4> QED BY <3>4, <4>1 DEF ReconcileClaims, ReleaseUntrackedClaims
    <3>5. CASE \/ Prefetch(m) \/ TakeReady(m) \/ EvaluateClaim(m) \/ StartSubmit(m)
               \/ EnsureSubmit(m) \/ FailTask(m) \/ ReconcileError(m)
      BY <2>5, <3>5 DEF db, Prefetch, TakeReady, EvaluateClaim, StartSubmit, EnsureSubmit, FailTask,
                        ReconcileError
    <3> QED BY <2>8, <3>1, <3>2, <3>3, <3>4, <3>5 DEF Evaluator
  <2>9. CASE Late
    <3>1. ASSUME NEW r \in lateClaims, LateClaim(r) PROVE Kept(b)
      BY <2>2, <3>1 DEF LateClaim
    <3>2. ASSUME NEW r \in lateSubmits, LateSubmit(r) PROVE Kept(b)
      BY <2>3, <3>2 DEF LateSubmit, MemOK, LateTypeOK
    <3>3. ASSUME NEW r \in lateFails, LateFail(r) PROVE Kept(b)
      BY <2>3, <3>3 DEF LateFail, MemOK, LateTypeOK
    <3>4. ASSUME NEW r \in lateReleases, LateRelease(r) PROVE Kept(b)
      <4>1. b \notin Untracked(r[1], r[2])
        BY <3>4 DEF Untracked, HeldClaim
      <4> QED BY <3>4, <4>1 DEF LateRelease, ReleaseUntrackedClaims
    <3> QED BY <2>9, <3>1, <3>2, <3>3, <3>4 DEF Late
  <2> QED BY <2>6, <2>7, <2>8, <2>9 DEF Next
<1> QED BY Invariance, <1>1, PTL DEF Spec, NoLiveClaimRevoked

=============================================================================
