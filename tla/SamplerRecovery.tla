--------------------------- MODULE SamplerRecovery ---------------------------
(***************************************************************************)
(* The sampler/aggregator of one active task and its recovery: the sampler *)
(* queue with its background inserts, completion fetches and cleanup       *)
(* (src/runners/queue.rs), the tick that merges completed batches and      *)
(* produces new ones (src/runners/sampler_aggregator.rs), the checkpoint   *)
(* row (src/stores/queries/aggregation.rs) and the recovery that rolls the *)
(* database back to it (src/stores/recovery.rs, the sampler half of        *)
(* src/runners/node_runner/reconcile.rs).                                  *)
(*                                                                         *)
(* The n-th batch a sampler state produces is draw n; a sampler restored   *)
(* from its snapshot produces the same draws again.  Every batch has one   *)
(* sample, so that batch_size sums are counts.  Evaluators are the step    *)
(* EvaluateBatch: what WorkQueue promises of the batches table.            *)
(***************************************************************************)
EXTENDS Integers, FiniteSets, FiniteSetsExt

CONSTANTS
  Samplers,     \* node processes that can hold the sampler role
  None,         \* SQL NULL and Rust None
  MaxDraws,     \* max_samples of the task
  Accurate,     \* numbers of merged samples at which an error target is met
  MaxId,        \* bound: batch ids (next_batch_ids) 1 .. MaxId
  MaxInserts,   \* max_concurrent_insert_tasks
  MaxBundle,    \* max_insert_bundle_size
  MaxGeneration, \* max_generation_size
  MaxPerTick,   \* max_batches_per_tick
  FetchLimit,   \* completed_batch_fetch_limit
  MaxStarts,    \* max_consecutive_start_failures
  MaxFaults,    \* bound on errors, crashes and operator interventions
  Overlap       \* may an activation begin before the previous one has settled?

ASSUME SamplerAssumption ==
  /\ None \notin Samplers
  /\ {MaxDraws, MaxId, MaxInserts, MaxBundle, MaxGeneration, MaxPerTick, FetchLimit,
      MaxStarts} \subseteq Nat \ {0}
  /\ Accurate \subseteq Nat \ {0}
  /\ MaxFaults \in Nat
  /\ Overlap \in BOOLEAN

VARIABLES
  rows,       \* batches of the task: status and the draw they carry
  ckpt,       \* run_sampler_checkpoints
  batches,    \* runs.batches_completed
  task,       \* run_tasks.state
  holder,     \* the node with active_role sampler_aggregator (unique index)
  desired,    \* the node whose desired assignment is the sampler role
  nextId,     \* BatchIdGenerator: ids only grow
  mem,        \* SamplerAggregatorRunner and SamplerQueue of each process
  failures,   \* RetryState.consecutive_failures of each node
  late,       \* statements whose runner was dropped before they were answered
  faults

vars == <<rows, ckpt, batches, task, holder, desired, nextId, mem, failures, late, faults>>

Ids   == 1 .. MaxId
Draws == 1 .. MaxDraws

\* What a checkpoint saves and recovery restores: SamplerProgress, the
\* accumulator (the draws merged into it) and the two cursors of the queue.
Fresh == [completed |-> 0, ingested |-> {}, produced |-> 0, buffered |-> 0,
          lastCompleted |-> 0, lastProduced |-> 0, roundTrip |-> "needs"]

Core == [completed : Nat, ingested : SUBSET Draws, produced : Nat, buffered : Nat,
         lastCompleted : 0 .. MaxId, lastProduced : 0 .. MaxId,
         roundTrip : {"needs", "waiting", "ready"}]

\* SQL NULL is not a checkpoint row.
ASSUME NullAssumption == None \notin [core : Core, batches : Nat]

Absent == [status |-> "absent", draw |-> 0]

\* A node process without a runner.
Off == [phase |-> "off", loaded |-> None, core |-> Fresh, local |-> 0, inserts |-> {},
        fetch |-> None, ready |-> {}, tick |-> None, cleanup |-> None,
        flush |-> None, unflushed |-> 0, leaving |-> "stop"]

Insert    == [first : Ids, draw : Draws, n : 1 .. MaxBundle, state : {"sent", "ok", "error"}]
Completed == [id : Ids, draw : Draws]
Fetch     == [after : 0 .. MaxId, before : 1 .. MaxId + 1, state : {"sent", "done", "error"},
              got : SUBSET Completed]
Background == {"sent", "ok", "error"}

MemTypeOK(m) ==
  /\ m.phase \in {"off", "loading", "built", "running", "stopping", "publishing", "saving", "saved"}
  /\ m.loaded = None \/ m.loaded.core \in Core
  /\ m.core \in Core
  /\ m.local \in 0 .. m.core.produced
  /\ m.inserts \subseteq Insert
  /\ m.fetch = None \/ m.fetch \in Fetch
  /\ m.ready \subseteq Completed
  /\ m.tick = None \/ (m.tick.batches \subseteq Completed /\ m.tick.open \in Nat)
  /\ m.cleanup = None \/ (m.cleanup.upTo \in Ids /\ m.cleanup.state \in Background)
  /\ m.flush = None \/ (m.flush.n \in 0 .. m.unflushed /\ m.flush.state \in Background)
  /\ m.unflushed \in Nat
  /\ m.leaving \in {"stop", "complete", "fail"}

\* Every variable has its type; a write under way never counts more batches than
\* are pending, and no more insert tasks run than the configuration allows.
TypeOK ==
  /\ rows \in [Ids -> [status : {"absent", "pending", "completed"}, draw : 0 .. MaxDraws]]
  /\ ckpt = None \/ (ckpt.core \in Core /\ ckpt.batches \in Nat)
  /\ batches \in Nat
  /\ task \in {"active", "completed", "failed"}
  /\ holder \in Samplers \cup {None} /\ desired \in Samplers \cup {None}
  /\ nextId \in 1 .. MaxId + 1
  /\ \A s \in Samplers : MemTypeOK(mem[s]) /\ Cardinality(mem[s].inserts) <= MaxInserts
  /\ failures \in [Samplers -> 0 .. MaxStarts]
  /\ faults \in 0 .. MaxFaults

Init ==
  /\ rows = [i \in Ids |-> Absent]
  /\ ckpt = None /\ batches = 0 /\ task = "active"
  /\ holder = None /\ desired = None
  /\ nextId = 1
  /\ mem = [s \in Samplers |-> Off]
  /\ failures = [s \in Samplers |-> 0]
  /\ late = {} /\ faults = 0

-----------------------------------------------------------------------------
(* Helpers                                                                 *)

Fault == faults < MaxFaults /\ faults' = faults + 1

Present(i) == rows[i].status # "absent"
IdsOf(b)   == b.first .. b.first + b.n - 1

\* The rows an insert_batches transaction commits, all of them or none.
Inserted(b) ==
  [i \in Ids |-> IF i \in IdsOf(b) THEN [status |-> "pending", draw |-> b.draw + (i - b.first)]
                 ELSE rows[i]]

\* Mutant: consumed results are deleted whatever the checkpoint needs.
ConsumableUnprotected(upTo) == {i \in Ids : rows[i].status = "completed" /\ i <= upTo}

\* The rows cleanup_consumed_completed_batches may delete: consumed ones outside
\* the outstanding work of the saved checkpoint.
Consumable(upTo) ==
  {i \in Ids : /\ rows[i].status = "completed" /\ i <= upTo
               /\ ckpt # None
               /\ i <= ckpt.core.lastCompleted \/ i > ckpt.core.lastProduced}

\* It deletes a limited number, and none that was ever retried.
Cleanup(upTo) ==
  \E gone \in SUBSET Consumable(upTo) :
    rows' = [i \in Ids |-> IF i \in gone THEN Absent ELSE rows[i]]

\* Batches of the checkpoint that are produced and not yet merged.
Retained(core) == {i \in Ids : Present(i) /\ core.lastCompleted < i /\ i <= core.lastProduced}

\* The statements under way when a runner is dropped: its I/O runtime is shut
\* down without waiting, and the database may or may not execute them.
UnderWay(m) ==
  {[kind |-> "insert", first |-> b.first, draw |-> b.draw, n |-> b.n] :
      b \in {c \in m.inserts : c.state = "sent"}}
    \cup (IF m.flush # None /\ m.flush.state = "sent" THEN {[kind |-> "flush", n |-> m.flush.n]} ELSE {})
    \cup (IF m.cleanup # None /\ m.cleanup.state = "sent" THEN {[kind |-> "cleanup", upTo |-> m.cleanup.upTo]} ELSE {})

Drop(s) ==
  /\ mem' = [mem EXCEPT ![s] = Off]
  /\ late' = late \cup UnderWay(mem[s])

\* stop_current ends with clear_current_assignment; after a failure of the role the
\* desired assignments of the run go too.
Release(s) ==
  /\ holder' = IF holder = s THEN None ELSE holder
  /\ desired' = IF mem[s].leaving = "fail" THEN None ELSE desired

\* ensure_insert_pump has nothing left to start.
Pumped(m) == m.local = 0 \/ Cardinality(m.inserts) = MaxInserts

InsertError(m) == \E b \in m.inserts : b.state = "error"

\* The node has settled: no runner of another process, no statement of a dropped one.
Settled(s) == late = {} /\ \A o \in Samplers \ {s} : mem[o].phase = "off"

-----------------------------------------------------------------------------
(* Control plane                                                           *)

Assign(s) ==
  /\ desired = None /\ task = "active"
  /\ desired' = s
  /\ UNCHANGED <<rows, ckpt, batches, task, holder, nextId, mem, failures, late, faults>>

Unassign(s) ==
  /\ desired = s /\ Fault
  /\ desired' = None
  /\ UNCHANGED <<rows, ckpt, batches, task, holder, nextId, mem, failures, late>>

\* A lease that is not renewed in time takes both assignments with it; the
\* process itself may go on.
LeaseLapses(s) ==
  /\ s \in {holder, desired}
  /\ \/ mem[s].phase = "off" /\ UNCHANGED faults
     \/ mem[s].phase # "off" /\ Fault
  /\ holder' = IF holder = s THEN None ELSE holder
  /\ desired' = IF desired = s THEN None ELSE desired
  /\ UNCHANGED <<rows, ckpt, batches, task, nextId, mem, failures, late>>

\* reset_for_desired_target_change: the node sees that it is wanted elsewhere.
ForgetFailures(s) ==
  /\ desired # s /\ mem[s].phase = "off" /\ failures[s] > 0
  /\ failures' = [failures EXCEPT ![s] = 0]
  /\ UNCHANGED <<rows, ckpt, batches, task, holder, desired, nextId, mem, late, faults>>

-----------------------------------------------------------------------------
(* Activation: build_sampler_runner and start                              *)

LoadCheckpoint(s) ==
  /\ desired = s /\ mem[s].phase = "off" /\ task = "active" /\ failures[s] < MaxStarts
  /\ Overlap \/ Settled(s)
  /\ mem' = [mem EXCEPT ![s].phase = "loading", ![s].loaded = ckpt]
  /\ UNCHANGED <<rows, ckpt, batches, task, holder, desired, nextId, failures, late, faults>>

\* A start failure that is neither a database error nor a retry is counted; the
\* last one allowed fails the task and clears the desired assignments.
CountStartFailure(s) ==
  /\ failures' = [failures EXCEPT ![s] = @ + 1]
  /\ IF failures[s] + 1 = MaxStarts THEN task' = "failed" /\ desired' = None
     ELSE UNCHANGED <<task, desired>>
  /\ mem' = [mem EXCEPT ![s] = Off]

\* No checkpoint of this task: save_initial_checkpoint precedes production.
SaveInitial(s) ==
  /\ mem[s].phase = "loading" /\ mem[s].loaded = None
  /\ ckpt' = [core |-> Fresh, batches |-> batches]
  /\ mem' = [mem EXCEPT ![s].phase = "built"]
  /\ UNCHANGED <<rows, batches, task, holder, desired, nextId, failures, late, faults>>

\* Its error reaches the node as a plain store error, with the row saved or not.
SaveInitialError(s) ==
  /\ mem[s].phase = "loading" /\ mem[s].loaded = None /\ Fault
  /\ ckpt' \in {ckpt, [core |-> Fresh, batches |-> batches]}
  /\ CountStartFailure(s)
  /\ UNCHANGED <<rows, batches, holder, nextId, late>>

\* Mutant: the work produced after the checkpoint is left in the queue.
RestoreKeepsLater(s) ==
  /\ batches' = ckpt.batches
  /\ mem' = [mem EXCEPT ![s].phase = "built", ![s].core = ckpt.core]
  /\ UNCHANGED <<rows, ckpt, task, holder, desired, nextId, failures, late, faults>>

\* restore_sampler_checkpoint: the transaction that rolls the database back.
Restore(s) ==
  /\ rows' = [i \in Ids |-> IF i > ckpt.core.lastProduced THEN Absent ELSE rows[i]]
  /\ batches' = ckpt.batches
  /\ mem' = [mem EXCEPT ![s].phase = "built", ![s].core = ckpt.core]
  /\ UNCHANGED <<ckpt, task, holder, desired, nextId, failures, late, faults>>

\* Mutant: the checkpoint is not compared with the one that was loaded.
RestoreUncompared(s) ==
  LET core == mem[s].loaded.core IN
  /\ mem[s].phase = "loading" /\ mem[s].loaded # None
  /\ Cardinality(Retained(core)) = core.produced - core.completed
  /\ task = "active"
  /\ rows' = [i \in Ids |-> IF i > core.lastProduced THEN Absent ELSE rows[i]]
  /\ batches' = mem[s].loaded.batches
  /\ mem' = [mem EXCEPT ![s].phase = "built", ![s].core = core]
  /\ UNCHANGED <<ckpt, task, holder, desired, nextId, failures, late, faults>>

RestoreCheckpoint(s) ==
  /\ mem[s].phase = "loading" /\ mem[s].loaded # None /\ ckpt = mem[s].loaded
  /\ Cardinality(Retained(ckpt.core)) = ckpt.core.produced - ckpt.core.completed
  /\ task = "active"
  /\ Restore(s)

\* Another checkpoint was saved since this one was loaded: activation retries.
RestoreConflict(s) ==
  /\ mem[s].phase = "loading" /\ mem[s].loaded # None /\ ckpt # mem[s].loaded
  /\ mem' = [mem EXCEPT ![s] = Off]
  /\ UNCHANGED <<rows, ckpt, batches, task, holder, desired, nextId, failures, late, faults>>

\* "refusing inconsistent recovery", or the task is no longer active.
RestoreRefused(s) ==
  /\ mem[s].phase = "loading" /\ mem[s].loaded # None /\ ckpt = mem[s].loaded
  /\ \/ Cardinality(Retained(ckpt.core)) # ckpt.core.produced - ckpt.core.completed
     \/ task # "active"
  /\ CountStartFailure(s)
  /\ UNCHANGED <<rows, ckpt, batches, holder, nextId, late, faults>>

\* A database error of the activation, before or after the rollback committed.
BuildError(s) ==
  /\ mem[s].phase \in {"loading", "built"} /\ Fault
  /\ mem' = [mem EXCEPT ![s] = Off]
  /\ UNCHANGED <<rows, ckpt, batches, task, holder, desired, nextId, failures, late>>

\* start: set_current_assignment, which the unique index refuses while another
\* node is the current sampler; the refused node process then exits.
Start(s) ==
  /\ mem[s].phase = "built"
  /\ failures' = [failures EXCEPT ![s] = 0]
  /\ IF holder \in {None, s}
     THEN holder' = s /\ mem' = [mem EXCEPT ![s].phase = "running"]
     ELSE mem' = [mem EXCEPT ![s] = Off] /\ UNCHANGED holder
  /\ UNCHANGED <<rows, ckpt, batches, task, desired, nextId, late, faults>>

-----------------------------------------------------------------------------
(* The tick of a running sampler                                           *)

\* ensure_insert_pump: a bundle is a prefix of the local buffer with one feedback
\* flag.  Its ids are reserved and the production cursor moves when it is sent.
SpawnInsert(s) ==
  LET m == mem[s] IN
  /\ m.phase \in {"running", "stopping"} /\ ~Pumped(m)
  /\ \E n \in 1 .. Min({m.local, MaxBundle}) :
       /\ nextId + n <= MaxId + 1
       /\ mem' = [mem EXCEPT ![s] =
            [m EXCEPT !.local = @ - n,
                      !.core.lastProduced = nextId + n - 1,
                      !.inserts = @ \cup {[first |-> nextId, draw |-> m.core.produced - m.local + 1,
                                           n |-> n, state |-> "sent"]}]]
       /\ nextId' = nextId + n
  /\ UNCHANGED <<rows, ckpt, batches, task, holder, desired, failures, late, faults>>

\* Mutant: the fetch is not kept below the inserts that have not been answered.
NewFetchUnbounded(core, inserts) ==
  [after |-> core.lastCompleted, before |-> nextId, state |-> "sent", got |-> {}]

\* ensure_processed_prefetch.  The id it reserves when no insert is outstanding is
\* never inserted: every later id is at least nextId.
NewFetch(core, inserts) ==
  [after |-> core.lastCompleted,
   before |-> Min({nextId} \cup {b.first : b \in inserts}),
   state |-> "sent", got |-> {}]

\* The inserts that drain_finished_insert leaves, the batches that are ready
\* after drain_finished_processed_fetch, and the fetch under way at the end.
Unanswered(m)   == {b \in m.inserts : b.state = "sent"}
NowReady(m)     == m.ready \cup (IF m.fetch = None THEN {} ELSE m.fetch.got)
Refetched(m) ==
  IF m.fetch # None /\ m.fetch.state = "sent" THEN m.fetch
  ELSE IF NowReady(m) = {} THEN NewFetch(m.core, Unanswered(m)) ELSE None

\* ensure_completed_cleanup_if_due: whether it is due is a matter of time.
CleanupChoices(cleanup, core) ==
  {cleanup} \cup (IF cleanup = None /\ core.lastCompleted > 0
                  THEN {[upTo |-> core.lastCompleted, state |-> "sent"]} ELSE {})

\* Mutant: batches whose insert has not been answered are not counted as open.
OpenBatchesPersisted(m) ==
  Cardinality({i \in Ids : rows[i].status = "pending"
                            \/ (rows[i].status = "completed" /\ i > m.core.lastCompleted)})

\* queue_counts().open(): the rows in the database and the local buffer.
OpenBatches(m) ==
  Cardinality({i \in Ids : rows[i].status = "pending"
                            \/ (rows[i].status = "completed" /\ i > m.core.lastCompleted)})
    + m.local + Cardinality(UNION {IdsOf(b) : b \in Unanswered(m)})

Ticking(m) == m.phase = "running" /\ Pumped(m) /\ m.tick = None /\ ~InsertError(m)

\* SamplerQueue::tick up to the queue snapshot.
QueueTick(s) ==
  LET m == mem[s] IN
  /\ Ticking(m)
  /\ m.fetch # None => m.fetch.state # "error"
  /\ m.cleanup # None => m.cleanup.state # "error"
  /\ \E c \in CleanupChoices(IF m.cleanup # None /\ m.cleanup.state = "ok" THEN None ELSE m.cleanup, m.core) :
       mem' = [mem EXCEPT ![s] =
         [m EXCEPT !.inserts = Unanswered(m), !.fetch = Refetched(m), !.ready = {}, !.cleanup = c,
                   !.tick = [batches |-> NowReady(m), open |-> OpenBatches(m)]]]
  /\ UNCHANGED <<rows, ckpt, batches, task, holder, desired, nextId, failures, late, faults>>

\* The last insert is answered and waking the evaluators fails: the tick is repeated.
NotifyError(s) ==
  LET m == mem[s] IN
  /\ Ticking(m) /\ m.local = 0 /\ m.inserts # {} /\ Unanswered(m) = {} /\ Fault
  /\ mem' = [mem EXCEPT ![s].inserts = {}]
  /\ UNCHANGED <<rows, ckpt, batches, task, holder, desired, nextId, failures, late>>

\* Mutant: the failed fetch is kept as if it were still under way.
FetchErrorKept(s) ==
  LET m == mem[s] IN
  /\ Ticking(m) /\ m.fetch # None /\ m.fetch.state = "error" /\ Unanswered(m) # m.inserts
  /\ mem' = [mem EXCEPT ![s] = [m EXCEPT !.inserts = Unanswered(m)]]
  /\ UNCHANGED <<rows, ckpt, batches, task, holder, desired, nextId, failures, late, faults>>

\* The tick ends with the error of the fetch and is repeated.
FetchErrorTick(s) ==
  LET m == mem[s] IN
  /\ Ticking(m) /\ m.fetch # None /\ m.fetch.state = "error"
  /\ mem' = [mem EXCEPT ![s] = [m EXCEPT !.inserts = Unanswered(m), !.fetch = None]]
  /\ UNCHANGED <<rows, ckpt, batches, task, holder, desired, nextId, failures, late, faults>>

\* Cleanup, reclaim or the queue snapshot fails after the ready batches were
\* taken: they are dropped, and fetched again from the unmoved cursor.
QueueTickError(s) ==
  LET m == mem[s] IN
  /\ Ticking(m)
  /\ m.fetch # None => m.fetch.state # "error"
  /\ \/ m.cleanup # None /\ m.cleanup.state = "error" /\ UNCHANGED faults
     \/ (m.cleanup # None => m.cleanup.state # "error") /\ Fault
  /\ mem' = [mem EXCEPT ![s] =
       [m EXCEPT !.inserts = Unanswered(m), !.fetch = Refetched(m), !.ready = {},
                 !.cleanup = IF m.cleanup # None /\ m.cleanup.state = "sent" THEN @ ELSE None]]
  /\ UNCHANGED <<rows, ckpt, batches, task, holder, desired, nextId, failures, late>>

\* Mutant: the group is merged and the completion cursor stays where it was.
MergedUnmarked(core, group) ==
  IF group = {} THEN core
  ELSE [core EXCEPT !.completed = @ + Cardinality(group),
                    !.ingested = @ \cup {b.draw : b \in group},
                    !.roundTrip = "ready"]

\* process_completed_batches and mark_processed: the whole group, in id order.
Merged(core, group) ==
  IF group = {} THEN core
  ELSE [core EXCEPT !.completed = @ + Cardinality(group),
                    !.ingested = @ \cup {b.draw : b \in group},
                    !.lastCompleted = Max({b.id : b \in group}),
                    !.roundTrip = "ready"]

\* stop_condition_status: the sample target, or an error target.
StopReached(core) == core.completed >= MaxDraws \/ core.completed \in Accurate

\* produce, up to a filled generation buffer: a new draw only when the last one is
\* used up, the stop condition is open and some evaluator waits for work.
Generated(core) ==
  IF core.roundTrip = "waiting" \/ core.buffered > 0 THEN {core}
  ELSE IF StopReached(core) THEN {core}
  ELSE {[core EXCEPT !.buffered = g] : g \in 0 .. Min({MaxGeneration, MaxDraws - core.produced})}

\* enqueue_generated: one minimal batch until its round trip is over, then as many
\* as slots and batch size allow, at least one.
Enqueued(core) ==
  IF core.roundTrip = "waiting" \/ core.buffered = 0 THEN {core}
  ELSE {[core EXCEPT !.produced = @ + k, !.buffered = @ - k,
                     !.roundTrip = IF @ = "needs" THEN "waiting" ELSE @] :
          k \in 1 .. Min({core.buffered, IF core.roundTrip = "needs" THEN 1 ELSE MaxPerTick})}

Produced(core) == UNION {Enqueued(g) : g \in Generated(core)}

\* Everything allowed has been produced.
Exhausted(core) == core.roundTrip # "waiting" /\ core.buffered = 0 /\ core.produced >= MaxDraws

\* no_progress_is_terminal: nothing came, nothing is open, and produce returned
\* without asking the sampler.
NoProgress(core, group, open) ==
  /\ ~StopReached(core) /\ group = {} /\ open <= 0
  /\ core.roundTrip = "waiting" \/ Exhausted(core)

\* Mutant: an answered flush is never taken off and is settled again and again.
FlushChoicesKept(flush, unflushed) ==
  IF flush = None THEN {None, [n |-> unflushed, state |-> "sent"]} ELSE {flush}

\* flush_aggregation(false): the next one is started, when due, after the answer.
FlushChoices(flush, unflushed) ==
  IF flush = None \/ flush.state = "ok" THEN {None, [n |-> unflushed, state |-> "sent"]} ELSE {flush}

\* The rest of the tick: merge, produce, publish, check for the end.  A failing
\* progress or performance write skips the check, and a sampler that waits for its
\* round trip goes on while no evaluator is active.
FinishTick(s) ==
  LET m == mem[s]
      group == m.tick.batches
      core == Merged(m.core, group)
      answered == m.flush # None /\ m.flush.state = "ok"
      unflushed == m.unflushed + Cardinality(group) - (IF answered THEN m.flush.n ELSE 0)
      open == m.tick.open - Cardinality(group)   \* the rows may have gone meanwhile
  IN
  /\ m.phase = "running" /\ Pumped(m) /\ m.tick # None
  /\ m.flush # None => m.flush.state # "error"
  /\ ~(NoProgress(core, group, open) /\ Exhausted(core))
  /\ \E next \in Produced(core), c \in CleanupChoices(m.cleanup, core),
        f \in FlushChoices(m.flush, unflushed), done \in BOOLEAN :
       LET k == next.produced - core.produced
           ended == StopReached(core) /\ open + k <= 0 /\ next.buffered = 0
       IN
       /\ nextId + m.local + k <= MaxId + 1
       /\ \/ done = ended /\ UNCHANGED faults
          \/ ended /\ ~done /\ Fault
       /\ mem' = [mem EXCEPT ![s] =
            [m EXCEPT !.tick = None, !.core = next, !.local = @ + k, !.cleanup = c,
                      !.flush = f, !.unflushed = unflushed,
                      !.phase = IF done THEN "stopping" ELSE "running",
                      !.leaving = IF done THEN "complete" ELSE "stop"]]
  /\ UNCHANGED <<rows, ckpt, batches, task, holder, desired, nextId, failures, late>>

\* Counting the evaluators fails: the merge stands and the tick is repeated.
ProduceError(s) ==
  LET m == mem[s]
      core == Merged(m.core, m.tick.batches)
  IN
  /\ m.phase = "running" /\ Pumped(m) /\ m.tick # None /\ Fault
  /\ core.roundTrip # "waiting" /\ core.buffered = 0 /\ ~StopReached(core) /\ ~Exhausted(core)
  /\ \E c \in CleanupChoices(m.cleanup, core) :
       mem' = [mem EXCEPT ![s] =
         [m EXCEPT !.tick = None, !.core = core, !.cleanup = c,
                   !.unflushed = @ + Cardinality(m.tick.batches)]]
  /\ UNCHANGED <<rows, ckpt, batches, task, holder, desired, nextId, failures, late>>

\* The answer of an aggregation flush is an error: merge and production stand,
\* the batches it counted are counted again by the next one.
FlushErrorTick(s) ==
  LET m == mem[s]
      core == Merged(m.core, m.tick.batches)
  IN
  /\ m.phase = "running" /\ Pumped(m) /\ m.tick # None
  /\ m.flush # None /\ m.flush.state = "error"
  /\ \E next \in Produced(core), c \in CleanupChoices(m.cleanup, core) :
       LET k == next.produced - core.produced IN
       /\ nextId + m.local + k <= MaxId + 1
       /\ mem' = [mem EXCEPT ![s] =
            [m EXCEPT !.tick = None, !.core = next, !.local = @ + k, !.cleanup = c,
                      !.flush = None, !.unflushed = @ + Cardinality(m.tick.batches)]]
  /\ UNCHANGED <<rows, ckpt, batches, task, holder, desired, nextId, failures, late, faults>>

\* "cannot make further progress": draws are missing and nothing is open.  The task is failed and the role ends, its state saved or not.
FailNoProgress(s) ==
  LET m == mem[s]
      core == Merged(m.core, m.tick.batches)
      open == m.tick.open - Cardinality(m.tick.batches)
  IN
  /\ m.phase = "running" /\ Pumped(m) /\ m.tick # None
  /\ m.flush # None => m.flush.state # "error"
  /\ NoProgress(core, m.tick.batches, open)
  /\ task' = IF task = "active" THEN "failed" ELSE task
  /\ failures' = [failures EXCEPT ![s] = @ + 1]
  /\ mem' = [mem EXCEPT ![s].tick = None, ![s].phase = "stopping", ![s].leaving = "fail"]
  /\ UNCHANGED <<rows, ckpt, batches, holder, desired, nextId, late, faults>>

-----------------------------------------------------------------------------
(* Leaving the role                                                        *)

\* The desired target changed, or the process is asked to shut down.
BeginStop(s) ==
  LET m == mem[s] IN
  /\ m.phase = "running" /\ m.tick = None
  /\ \/ desired # s /\ UNCHANGED faults
     \/ desired = s /\ Fault
  /\ mem' = [mem EXCEPT ![s].phase = "stopping"]
  /\ UNCHANGED <<rows, ckpt, batches, task, holder, desired, nextId, failures, late>>

\* flush: every insert is started and awaited.
StopFlush(s) ==
  LET m == mem[s] IN
  /\ m.phase = "stopping" /\ ~InsertError(m) /\ Unanswered(m) # m.inserts
  /\ mem' = [mem EXCEPT ![s].inserts = Unanswered(m)]
  /\ UNCHANGED <<rows, ckpt, batches, task, holder, desired, nextId, failures, late, faults>>

\* Mutant: the stop waits until every insert is started, not until it is answered.
FlushedUnanswered(m) == m.phase = "stopping" /\ m.local = 0

Flushed(m) == m.phase = "stopping" /\ m.local = 0 /\ m.inserts = {}

\* drain_local_work_on_stop: what has arrived is merged ...
DrainLocal(s) ==
  LET m == mem[s]
      core == Merged(m.core, NowReady(m))
  IN
  /\ Flushed(m) /\ NowReady(m) # {}
  /\ \E c \in CleanupChoices(m.cleanup, core) :
       mem' = [mem EXCEPT ![s] =
         [m EXCEPT !.core = core, !.ready = {}, !.fetch = None, !.cleanup = c,
                   !.unflushed = @ + Cardinality(NowReady(m))]]
  /\ UNCHANGED <<rows, ckpt, batches, task, holder, desired, nextId, failures, late, faults>>

\* ... a fetch still under way is aborted, and a cleanup is joined.
FinishMaintenance(s) ==
  LET m == mem[s] IN
  /\ Flushed(m) /\ NowReady(m) = {}
  /\ m.fetch # None => m.fetch.state # "error"
  /\ m.cleanup # None => m.cleanup.state = "ok"
  /\ mem' = [mem EXCEPT ![s].phase = "publishing", ![s].fetch = None, ![s].cleanup = None]
  /\ UNCHANGED <<rows, ckpt, batches, task, holder, desired, nextId, failures, late, faults>>

\* flush_aggregation(true): the final write follows the pending one.
ForceFlush(s) ==
  LET m == mem[s] IN
  /\ m.phase = "publishing"
  /\ m.flush # None => m.flush.state = "ok"
  /\ batches' = batches + m.unflushed - (IF m.flush = None THEN 0 ELSE m.flush.n)
  /\ mem' = [mem EXCEPT ![s].phase = "saving", ![s].flush = None, ![s].unflushed = 0]
  /\ UNCHANGED <<rows, ckpt, task, holder, desired, nextId, failures, late, faults>>

\* upsert_run_sampler_checkpoint, which no lease or assignment guards.
SaveCheckpoint(s) ==
  LET m == mem[s] IN
  /\ m.phase = "saving"
  /\ ckpt' = [core |-> m.core, batches |-> batches]
  /\ mem' = [mem EXCEPT ![s].phase = "saved"]
  /\ UNCHANGED <<rows, batches, task, holder, desired, nextId, failures, late, faults>>

\* cleanup_completed_batches, complete_run_task if the task is done, and the
\* release of the assignment.
Retire(s) ==
  LET m == mem[s] IN
  /\ m.phase = "saved"
  /\ Cleanup(m.core.lastCompleted)
  /\ task' = IF m.leaving = "complete" /\ task = "active" THEN "completed" ELSE task
  /\ Drop(s) /\ Release(s)
  /\ UNCHANGED <<ckpt, batches, nextId, failures, faults>>

\* An error ends the stop of runner state m: complete_task is repeated by the
\* next tick, a stop is given up and the runner dropped.
GiveUp(s, m) ==
  IF m.leaving = "complete"
  THEN /\ mem' = [mem EXCEPT ![s] = [m EXCEPT !.phase = "running", !.leaving = "stop"]]
       /\ UNCHANGED <<holder, desired, late>>
  ELSE /\ mem' = [mem EXCEPT ![s] = Off]
       /\ late' = late \cup UnderWay(m)
       /\ Release(s)

\* The flush, the drained fetch or the joined cleanup reports an error.
StopError(s) ==
  LET m == mem[s] IN
  /\ m.phase = "stopping"
  /\ \/ Fault /\ GiveUp(s, m)
     \/ /\ Flushed(m) /\ m.fetch # None /\ m.fetch.state = "error"
        /\ GiveUp(s, [m EXCEPT !.fetch = None]) /\ UNCHANGED faults
     \/ /\ Flushed(m) /\ NowReady(m) = {} /\ m.cleanup # None /\ m.cleanup.state = "error"
        /\ GiveUp(s, [m EXCEPT !.fetch = None, !.cleanup = None]) /\ UNCHANGED faults
  /\ UNCHANGED <<rows, ckpt, batches, task, nextId, failures>>

\* The pending write or, run or not, the final one.
PublishError(s) ==
  LET m == mem[s]
      rest == m.unflushed - (IF m.flush = None THEN 0 ELSE m.flush.n)
  IN
  /\ m.phase = "publishing"
  /\ \/ /\ m.flush # None /\ m.flush.state = "error"
        /\ GiveUp(s, [m EXCEPT !.flush = None]) /\ UNCHANGED <<batches, faults>>
     \/ /\ (m.flush # None => m.flush.state = "ok") /\ Fault
        /\ batches' \in {batches, batches + rest}
        /\ GiveUp(s, [m EXCEPT !.flush = None, !.unflushed = rest])
  /\ UNCHANGED <<rows, ckpt, task, nextId, failures>>

\* The checkpoint write, run or not.
SaveError(s) ==
  LET m == mem[s] IN
  /\ m.phase = "saving" /\ Fault
  /\ ckpt' \in {ckpt, [core |-> m.core, batches |-> batches]}
  /\ GiveUp(s, m)
  /\ UNCHANGED <<rows, batches, task, nextId, failures>>

\* The cleanup, the measurement or complete_run_task, run or not.
RetireError(s) ==
  LET m == mem[s] IN
  /\ m.phase = "saved" /\ Fault
  /\ Cleanup(m.core.lastCompleted)
  /\ task' \in {task} \cup (IF m.leaving = "complete" /\ task = "active" THEN {"completed"} ELSE {})
  /\ GiveUp(s, m)
  /\ UNCHANGED <<ckpt, batches, nextId, failures>>

\* consume_insert_task meets an error.  The other inserts and the cleanup are
\* awaited, nothing is saved, and the role is restored from its checkpoint.
InsertFailed(s) ==
  LET m == mem[s] IN
  /\ m.phase \in {"running", "stopping"} /\ m.tick = None
  /\ InsertError(m) /\ Unanswered(m) = {}
  /\ m.cleanup # None => m.cleanup.state # "sent"
  /\ Drop(s) /\ Release(s)
  /\ UNCHANGED <<rows, ckpt, batches, task, nextId, failures, faults>>

\* The process is killed; its assignments stay until the lease lapses.
Crash(s) ==
  /\ mem[s].phase # "off" /\ Fault
  /\ Drop(s)
  /\ failures' = [failures EXCEPT ![s] = 0]
  /\ UNCHANGED <<rows, ckpt, batches, task, holder, desired, nextId>>

-----------------------------------------------------------------------------
(* The database executes what the background tasks sent                    *)

CommitInsert(s, b) ==
  /\ b \in mem[s].inserts /\ b.state = "sent"
  /\ rows' = Inserted(b)
  /\ mem' = [mem EXCEPT ![s].inserts = (@ \ {b}) \cup {[b EXCEPT !.state = "ok"]}]
  /\ UNCHANGED <<ckpt, batches, task, holder, desired, nextId, failures, late, faults>>

\* The connection is lost before or after the commit.
FailInsert(s, b) ==
  /\ b \in mem[s].inserts /\ b.state = "sent" /\ Fault
  /\ rows' \in {rows, Inserted(b)}
  /\ mem' = [mem EXCEPT ![s].inserts = (@ \ {b}) \cup {[b EXCEPT !.state = "error"]}]
  /\ UNCHANGED <<ckpt, batches, task, holder, desired, nextId, failures, late>>

\* fetch_completed_batches: of the first FetchLimit rows after the cursor the
\* completed ones before the first incomplete one; then take_while id < before.
CompletedPrefix(f) ==
  LET candidates == {i \in Ids : Present(i) /\ i > f.after} IN
  {i \in candidates : /\ i < f.before
                      /\ Cardinality({j \in candidates : j <= i}) <= FetchLimit
                      /\ \A j \in candidates : j <= i => rows[j].status = "completed"}

RunFetch(s) ==
  LET f == mem[s].fetch IN
  /\ f # None /\ f.state = "sent"
  /\ \/ /\ mem' = [mem EXCEPT ![s].fetch =
             [f EXCEPT !.state = "done", !.got = {[id |-> i, draw |-> rows[i].draw] : i \in CompletedPrefix(f)}]]
        /\ UNCHANGED faults
     \/ Fault /\ mem' = [mem EXCEPT ![s].fetch.state = "error"]
  /\ UNCHANGED <<rows, ckpt, batches, task, holder, desired, nextId, failures, late>>

RunCleanup(s) ==
  LET c == mem[s].cleanup IN
  /\ c # None /\ c.state = "sent"
  /\ \/ Cleanup(c.upTo) /\ mem' = [mem EXCEPT ![s].cleanup.state = "ok"] /\ UNCHANGED faults
     \/ UNCHANGED rows /\ Fault /\ mem' = [mem EXCEPT ![s].cleanup.state = "error"]
  /\ UNCHANGED <<ckpt, batches, task, holder, desired, nextId, failures, late>>

\* save_aggregation; an error may hide a commit.
RunFlush(s) ==
  LET f == mem[s].flush IN
  /\ f # None /\ f.state = "sent"
  /\ \/ batches' = batches + f.n /\ mem' = [mem EXCEPT ![s].flush.state = "ok"] /\ UNCHANGED faults
     \/ batches' \in {batches, batches + f.n} /\ Fault /\ mem' = [mem EXCEPT ![s].flush.state = "error"]
  /\ UNCHANGED <<rows, ckpt, task, holder, desired, nextId, failures, late>>

\* A statement of a dropped runner is executed after all, or never.
LateStatement(l) ==
  /\ l \in late
  /\ late' = late \ {l}
  /\ \/ UNCHANGED <<rows, batches>>
     \/ l.kind = "insert" /\ rows' = Inserted(l) /\ UNCHANGED batches
     \/ l.kind = "cleanup" /\ Cleanup(l.upTo) /\ UNCHANGED batches
     \/ l.kind = "flush" /\ batches' = batches + l.n /\ UNCHANGED rows
  /\ UNCHANGED <<ckpt, task, holder, desired, nextId, mem, failures, faults>>

\* External: an evaluator's result for the batch is accepted (WorkQueue).
EvaluateBatch(i) ==
  /\ rows[i].status = "pending"
  /\ rows' = [rows EXCEPT ![i].status = "completed"]
  /\ UNCHANGED <<ckpt, batches, task, holder, desired, nextId, mem, failures, late, faults>>

-----------------------------------------------------------------------------
ControlPlane(s) == Assign(s) \/ Unassign(s) \/ LeaseLapses(s) \/ ForgetFailures(s)

Activation(s) ==
  \/ LoadCheckpoint(s) \/ SaveInitial(s) \/ SaveInitialError(s) \/ RestoreCheckpoint(s)
  \/ RestoreConflict(s) \/ RestoreRefused(s) \/ BuildError(s) \/ Start(s)

Tick(s) ==
  \/ SpawnInsert(s) \/ QueueTick(s) \/ NotifyError(s) \/ FetchErrorTick(s) \/ QueueTickError(s)
  \/ FinishTick(s) \/ ProduceError(s) \/ FlushErrorTick(s) \/ FailNoProgress(s)

Stop(s) ==
  \/ BeginStop(s) \/ StopFlush(s) \/ DrainLocal(s) \/ FinishMaintenance(s) \/ ForceFlush(s)
  \/ SaveCheckpoint(s) \/ Retire(s) \/ StopError(s) \/ PublishError(s) \/ SaveError(s)
  \/ RetireError(s) \/ InsertFailed(s) \/ Crash(s)

Database(s) ==
  \/ \E b \in mem[s].inserts : CommitInsert(s, b) \/ FailInsert(s, b)
  \/ RunFetch(s) \/ RunCleanup(s) \/ RunFlush(s)

Next ==
  \/ \E s \in Samplers : ControlPlane(s) \/ Activation(s) \/ Tick(s) \/ Stop(s) \/ Database(s)
  \/ \E l \in late : LateStatement(l)
  \/ \E i \in Ids : EvaluateBatch(i)

Spec == Init /\ [][Next]_vars

\* The loops that repeat by themselves: reconciliation, ticks, background writes
\* and the fleet of evaluators, some member of which asks for work again and again.
Fairness ==
  /\ WF_vars(\E l \in late : LateStatement(l))
  /\ \A i \in Ids : WF_vars(EvaluateBatch(i))
  /\ \A s \in Samplers :
       /\ WF_vars(holder = s /\ mem[s].phase = "off" /\ LeaseLapses(s))
       /\ WF_vars(LoadCheckpoint(s)) /\ WF_vars(SaveInitial(s)) /\ WF_vars(Start(s))
       /\ WF_vars(RestoreCheckpoint(s) \/ RestoreConflict(s) \/ RestoreRefused(s))
       /\ WF_vars(SpawnInsert(s)) /\ WF_vars(QueueTick(s)) /\ WF_vars(FetchErrorTick(s))
       /\ WF_vars(UNCHANGED faults /\ QueueTickError(s))
       /\ WF_vars(UNCHANGED faults /\ FinishTick(s)) /\ WF_vars(FlushErrorTick(s)) /\ WF_vars(InsertFailed(s))
       /\ SF_vars(FinishTick(s) /\ mem'[s].core.produced > mem[s].core.produced)
       /\ WF_vars(desired # s /\ BeginStop(s)) /\ WF_vars(StopFlush(s)) /\ WF_vars(DrainLocal(s))
       /\ WF_vars(FinishMaintenance(s)) /\ WF_vars(ForceFlush(s)) /\ WF_vars(SaveCheckpoint(s))
       /\ WF_vars(Retire(s)) /\ WF_vars(UNCHANGED faults /\ (StopError(s) \/ PublishError(s)))
       /\ WF_vars(UNCHANGED faults /\ \E b \in mem[s].inserts : CommitInsert(s, b))
       /\ WF_vars(UNCHANGED faults /\ RunFetch(s)) /\ WF_vars(UNCHANGED faults /\ RunCleanup(s))
       /\ WF_vars(UNCHANGED faults /\ RunFlush(s))

FairSpec == Spec /\ Fairness

-----------------------------------------------------------------------------
(* Properties                                                              *)

\* The draws merged into the accumulator are the first ones, each exactly once:
\* no completed batch is skipped, merged twice or merged ahead of an earlier one,
\* across out-of-order insert commits, errors, crashes and recoveries.
InOrder(core) == core.ingested = 1 .. core.completed
ExactlyOnce ==
  /\ \A s \in Samplers : InOrder(mem[s].core)
  /\ ckpt # None => InOrder(ckpt.core)

\* At every moment the saved checkpoint can be recovered: the work it has produced
\* and not merged is in the batches table, each draw once, whatever cleanup deletes.
Recoverable ==
  task = "active" /\ ckpt # None =>
    /\ Cardinality(Retained(ckpt.core)) = ckpt.core.produced - ckpt.core.completed
    /\ {rows[i].draw : i \in Retained(ckpt.core)} = ckpt.core.completed + 1 .. ckpt.core.produced

\* The task is never failed by recovery or for want of progress: no draw that the
\* sampler waits for is lost, and no open batch is overlooked.
NoSpuriousFailure == task # "failed"

\* A completed task has merged and saved everything it produced.
CompletedWhole ==
  task = "completed" =>
    /\ ckpt.core.completed = ckpt.core.produced /\ ckpt.core.buffered = 0
    /\ StopReached(ckpt.core)

\* Recovery implements the abstract promise: the live accumulator is that of the
\* process that has been built from the checkpoint, else what recovery would restore.
Saved == IF ckpt = None THEN {} ELSE ckpt.core.ingested
Live ==
  LET built == {s \in Samplers : mem[s].phase \notin {"off", "loading"}} IN
  IF built = {} THEN Saved ELSE mem[CHOOSE s \in built : TRUE].core.ingested

Ingestion == INSTANCE OrderedIngestion WITH live <- Live, saved <- Saved

RecoveryIsOrderedIngestion == Ingestion!Spec

\* While some node is wanted as the sampler the task runs to its end: no error,
\* crash or restart leaves the queue, the round trip or the stop waiting forever.
TaskEnds == <>[](desired # None) => <>(task = "completed")

\* The work a saved checkpoint retains outlives every other process: no rollback to
\* an older checkpoint and no late cleanup deletes a batch inside the boundary, even
\* where two activations overlap.
BoundaryKept ==
  [][ckpt # None /\ ckpt' = ckpt =>
       \A i \in Retained(ckpt.core) : rows'[i].status # "absent"]_vars

\* The count of merged batches in the runs table at a checkpoint is exact.
BatchesCountedOnce == ckpt # None => ckpt.batches = ckpt.core.completed

=============================================================================
