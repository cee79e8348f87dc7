------------------------------ MODULE EvalContext ------------------------------
(***************************************************************************)
(* The runtime an evaluator keeps between batches (runners/evaluator.rs):  *)
(* the evaluator object and its configuration, the materializer of the     *)
(* task's sampler and the batch transforms, rebuilt when a claimed batch   *)
(* belongs to another task than the last one.  Loading and building may    *)
(* fail at several places; the claimed batch is then retained and the next *)
(* tick tries again with whatever the failed attempt left behind.          *)
(***************************************************************************)
EXTENDS Naturals, FiniteSets

CONSTANTS Tasks,        \* tasks of the run, some with open batches
          Batches,
          TaskOf,         \* TaskOf[b]: the task of batch b
          EvaluatorOf,    \* EvaluatorOf[t]: the evaluator configuration t resolves to
          TransformsOf,   \* TransformsOf[t]: its batch transforms
          Built,          \* configuration the node built when the role started
          MaxFaults,      \* bound: failed loads, builds and evaluations
          MaxRetries,     \* max_batch_retries
          None

ContextAssumption ==
    /\ TaskOf \in [Batches -> Tasks]
    /\ MaxFaults \in Nat /\ MaxRetries \in Nat
    /\ None \notin Tasks /\ None \notin Batches

VARIABLES cache,    \* current_task_id, evaluator, materializer, current_batch_transforms
          active,   \* the claimed batch in hand
          loaded,   \* the task context just loaded, not yet installed
          open,     \* batches that can be claimed
          retries,  \* failed evaluations of each batch
          results,  \* what each batch was computed with
          draining, faults

vars == <<cache, active, loaded, open, retries, results, draining, faults>>

\* EvaluatorRunner::new: an evaluator, but no task yet.
Init ==
    /\ cache = [task |-> None, evaluator |-> Built, materializer |-> None, transforms |-> None]
    /\ active = None /\ loaded = None
    /\ open = Batches
    /\ retries = [b \in Batches |-> 0]
    /\ results = {}
    /\ draining = FALSE
    /\ faults = 0

Fault == faults < MaxFaults /\ faults' = faults + 1

Claim(b) ==
    /\ active = None /\ b \in open /\ ~draining
    /\ active' = b
    /\ open' = open \ {b}
    /\ UNCHANGED <<cache, loaded, retries, results, draining, faults>>

InHand == active # None
Current(t) == cache.task = t

Context(t) == [task |-> t, evaluator |-> EvaluatorOf[t], materializer |-> t,
               transforms |-> TransformsOf[t]]

\* load_task_context: the task row, its stage context, transforms, domain, materializer.
LoadTaskContext ==
    /\ InHand /\ loaded = None /\ ~Current(TaskOf[active])
    /\ loaded' = Context(TaskOf[active])
    /\ UNCHANGED <<cache, active, open, retries, results, draining, faults>>

LoadFails ==
    /\ InHand /\ loaded = None /\ ~Current(TaskOf[active])
    /\ Fault
    /\ UNCHANGED <<cache, active, loaded, open, retries, results, draining>>

Rebuild == cache.evaluator # loaded.evaluator

\* Mutant: the task is recorded before the evaluator is built.
LeftRecorded == [loaded EXCEPT !.evaluator = cache.evaluator]
\* A failed build leaves the old evaluator and the old task in place.
LeftByFailedBuild == cache

\* ensure_task_context: the evaluator is built only when its configuration changed, and
\* the rest is recorded after it.
Install ==
    /\ loaded # None
    /\ cache' = loaded
    /\ loaded' = None
    /\ UNCHANGED <<active, open, retries, results, draining, faults>>

BuildFails ==
    /\ loaded # None /\ Rebuild
    /\ Fault
    /\ cache' = LeftByFailedBuild
    /\ loaded' = None
    /\ UNCHANGED <<active, open, retries, results, draining>>

CanEvaluate == InHand /\ loaded = None /\ Current(TaskOf[active])

Evaluate ==
    /\ CanEvaluate
    /\ results' = results \cup {[batch |-> active, with |-> cache]}
    /\ active' = None
    /\ UNCHANGED <<cache, loaded, open, retries, draining, faults>>

\* call_with_panic_guard: an error or a panic of the engine fails the batch, not the
\* runner; the batch is open again until its retries are used up.
EvaluationFails ==
    /\ CanEvaluate /\ Fault
    /\ retries' = [retries EXCEPT ![active] = @ + 1]
    /\ open' = IF retries[active] < MaxRetries THEN open \cup {active} ELSE open
    /\ active' = None
    /\ UNCHANGED <<cache, loaded, results, draining>>

\* stop: no new claims, the batch in hand is finished first.
Stop ==
    /\ ~draining /\ draining' = TRUE
    /\ UNCHANGED <<cache, active, loaded, open, retries, results, faults>>

Next == \/ \E b \in Batches : Claim(b)
        \/ LoadTaskContext \/ LoadFails \/ Install \/ BuildFails
        \/ Evaluate \/ EvaluationFails \/ Stop

Spec == Init /\ [][Next]_vars
\* Type correctness; a batch is in one place.
TypeOK ==
    /\ cache.task \in Tasks \cup {None}
    /\ active \in Batches \cup {None} /\ active \notin open
    /\ open \subseteq Batches /\ retries \in [Batches -> 0..(MaxRetries + 1)]
    /\ \A r \in results : r.batch \notin open

\* Every batch is computed with the evaluator, materializer and transforms of its own
\* task, in whatever order tasks, failures and retries come.
OwnContext == \A r \in results : r.with = Context(TaskOf[r.batch])

\* Both: a batch is computed, and kept, in its own context.
ContextOwned == TypeOK /\ OwnContext
=============================================================================
