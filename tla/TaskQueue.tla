----------------------------- MODULE TaskQueue -----------------------------
(***************************************************************************)
(* The task queue of one run: editors that change its pending part         *)
(* (src/api/runs.rs, src/stores/queries/tasks.rs), the control loops that  *)
(* activate tasks and apply set_accumulator (src/runners/task_control.rs), *)
(* and the sampler role that resolves a task's sources from the stage      *)
(* snapshots (src/runners/stage_context.rs, src/services/stage.rs), runs   *)
(* it, saves its stage and completes it.                                   *)
(*                                                                         *)
(* A definition is abstracted to where its evaluator, sampler and          *)
(* accumulator come from.                                                  *)
(***************************************************************************)
EXTENDS Integers, Sequences, FiniteSets

CONSTANTS
  Names,         \* task names
  Defs,          \* task definitions an operator may write
  Editors,       \* concurrent API requests
  Controllers,   \* control loops, one per node, ordered by node name
  None,
  RootEvaluator, \* the run's own definition names an evaluator
  MaxSeq,        \* bound on sequence numbers
  MaxEdits,      \* bound on edits
  MaxFaults      \* bound on failures of any kind

Sources == {"config", "latest", "none"} \cup Names

VARIABLES
  queue,    \* run_tasks: the row at each sequence number, or None
  stages,   \* run_stage_snapshots in the order they were inserted
  open,     \* batches of the run are pending or claimed
  assigned, \* workers are wanted for the run
  editor,   \* what each editor has read and wants to change
  ctl,      \* the control loops
  lock,     \* holder of the task-control advisory lock
  role,     \* the sampler role: its task and where it is
  live,     \* control loops whose node has a lease
  ids, edits, faults

vars == <<queue, stages, open, assigned, editor, ctl, lock, role, live, ids, edits, faults>>

Seqs == 1 .. MaxSeq
Rows == {s \in Seqs : queue[s] # None}
Row  == [id : Nat, name : Names, def : Defs, tune : BOOLEAN, state : {"pending", "active", "completed", "failed"}]
Snapshot == [seq : Nat, task : Nat, ev : BOOLEAN, sm : {"none", "plain", "grid", "raster"}, ac : BOOLEAN]

\* What validate of a definition demands by itself: a diagnostic takes its sampler from a
\* stage, an image brings its own accumulator, a sampled task names where both come from.
WellFormed(def) ==
  /\ def.kind = "sample" => /\ def.sm \in {"plain", "training", "inference", "raster", "latest"} \cup Names
                            /\ def.ac \in {"config", "latest"} \cup Names
  /\ def.kind = "image" => def.ac = "config"
  /\ def.kind = "pdf" => def.from = None /\ def.sm \in {"latest"} \cup Names

TaskQueueAssumption ==
  /\ Controllers \subseteq Nat /\ RootEvaluator \in BOOLEAN /\ {MaxSeq, MaxEdits, MaxFaults} \subseteq Nat
  /\ IsFiniteSet(Editors)
  /\ Defs \subseteq [kind : {"set_accumulator", "sample", "image", "pdf"}, ev : Sources, ac : Sources,
                     sm : {"plain", "training", "inference", "raster"} \cup Sources, from : Names \cup {None}]
  /\ \A def \in Defs : WellFormed(def)
  /\ Names \cap {"config", "latest", "none", "plain", "training", "inference", "raster"} = {}
  /\ None \notin Names \cup Controllers \cup Row \cup Snapshot

NoEdit == [kind |-> "none", seen |-> <<>>, at |-> 0, name |-> None, def |-> None]
IdleCtl  == [pc |-> "idle", seq |-> 0, done |-> FALSE]
IdleRole == [pc |-> "idle", seq |-> 0, id |-> 0]

Fault == faults < MaxFaults /\ faults' = faults + 1

-----------------------------------------------------------------------------
(* Definitions and their sources                                           *)

RunsInControlPlane(def) == def.kind = "set_accumulator"
RunsOnSampler(def)      == ~RunsInControlPlane(def)

\* Where the sampler state comes from: sample and pdf tasks only.
SamplerSource(def) ==
  CASE def.kind = "set_accumulator" \/ def.kind = "image" -> "none"
    [] def.from # None -> def.from
    [] def.sm \in {"plain", "training", "inference", "raster"} -> "none"
    [] OTHER -> def.sm

\* Where the accumulator's layout comes from: a diagnostic takes that of its sampler.
AccumulatorSource(def) == IF def.kind = "pdf" THEN SamplerSource(def) ELSE def.ac

SourceNames(def) == {SamplerSource(def), def.ev, IF def.kind = "sample" THEN def.ac ELSE "none"} \cap Names

\* A queue as the editors see it: names and definitions in order of sequence number.
Listed(q) ==
  LET S == {s \in Seqs : q[s] # None}
      nth[k \in 1 .. Cardinality(S)] == CHOOSE s \in S : Cardinality({r \in S : r <= s}) = k
  IN [k \in 1 .. Cardinality(S) |-> [seq |-> nth[k], id |-> q[nth[k]].id, name |-> q[nth[k]].name,
                                     def |-> q[nth[k]].def, tune |-> q[nth[k]].tune]]

\* validate_sampling: the positions whose sampling configuration is known.
Sampling(ts) ==
  LET known[k \in 1 .. Len(ts)] ==
        /\ ts[k].def.kind = "sample"
        /\ \/ ts[k].def.sm \in {"plain", "training", "inference", "raster"}
           \/ ts[k].def.sm = "latest" /\ \E j \in 1 .. k - 1 : known[j]
           \/ \E j \in 1 .. k - 1 : ts[j].name = ts[k].def.sm /\ known[j]
  IN known

Named(ts, k, x) == {j \in 1 .. k - 1 : ts[j].name = x}

\* validate_task at position k of a queue, given the positions before it.
ValidTask(ts, k) ==
  LET def == ts[k].def IN
  /\ SourceNames(def) \subseteq {ts[j].name : j \in 1 .. k - 1}
  /\ Named(ts, k, ts[k].name) = {}
  /\ AccumulatorSource(def) = "latest" => k > 1
  /\ RunsOnSampler(def) =>
       CASE def.ev = "config" -> TRUE
         [] def.ev \in Names  -> \E j \in Named(ts, k, def.ev) : RunsOnSampler(ts[j].def)
         [] OTHER             -> RootEvaluator \/ \E j \in 1 .. k - 1 : RunsOnSampler(ts[j].def)
  /\ def.from # None => \E j \in Named(ts, k, def.from) : Sampling(ts)[j]

Valid(ts) == \A k \in 1 .. Len(ts) : ValidTask(ts, k)

-----------------------------------------------------------------------------
(* Stage snapshots                                                         *)

Root == [seq |-> 0, task |-> 0, ev |-> RootEvaluator, sm |-> "none", ac |-> FALSE]

\* load_latest_stage_snapshot_before_sequence: the highest sequence number, then the last
\* inserted.
Before(s) ==
  LET C == {i \in 1 .. Len(stages) : stages[i].seq < s}
  IN stages[CHOOSE i \in C : \A j \in C : stages[j].seq < stages[i].seq \/ (stages[j].seq = stages[i].seq /\ j <= i)]

\* resolve_named_source_snapshot: the stage of the task with that name, or None.
NamedStage(s, x) ==
  LET C == {r \in Rows : queue[r].name = x /\ r < s}
  IN IF C = {} THEN None
     ELSE LET r == CHOOSE r \in C : TRUE
              st == Before(r + 1)
          IN IF st.task = queue[r].id THEN st ELSE None

Stage(s, src) ==
  CASE src = "latest" -> Before(s)
    [] src \in Names  -> NamedStage(s, src)
    [] OTHER          -> None

\* find_latest_havana_snapshot_before_sequence.
Trained(s) == {i \in 1 .. Len(stages) : stages[i].seq < s /\ Before(stages[i].seq + 1) = stages[i]
                                        /\ stages[i].sm = "grid"}

EvaluatorFound(s, def) ==
  \/ def.ev = "config"
  \/ Stage(s, def.ev) # None /\ Stage(s, def.ev).ev
  \/ Before(s).ev

SamplerFound(s, def) ==
  LET st == Stage(s, SamplerSource(def)) IN
  CASE def.kind = "image" \/ def.sm \in {"plain", "training", "raster"} -> TRUE
    [] def.sm = "inference" /\ def.from = None -> Trained(s) # {}
    [] def.sm = "inference" -> st.sm = "grid"
    [] OTHER -> st.sm # "none"

AccumulatorFound(s, def) ==
  CASE def.kind = "pdf"  -> Stage(s, SamplerSource(def)).ac \/ Before(s).ac
    [] def.ac = "config" -> TRUE
    [] OTHER             -> Stage(s, def.ac).ac

\* resolve_stage_context and resolve_observable_state_for_sampler_task.
Resolves(s, def) ==
  /\ \A x \in SourceNames(def) : NamedStage(s, x) # None
  /\ EvaluatorFound(s, def) /\ SamplerFound(s, def) /\ AccumulatorFound(s, def)

\* The sampler state a finished task leaves behind.
Left(s, def) ==
  CASE def.kind \in {"image", "pdf"} \/ def.sm = "raster" -> "raster"
    [] def.sm = "plain" -> "plain"
    [] def.sm \in {"training", "inference"} -> "grid"
    [] OTHER -> Stage(s, SamplerSource(def)).sm

-----------------------------------------------------------------------------
(* Editors                                                                 *)

Put(q, s, row) == [q EXCEPT ![s] = row]
Next1(q) == Cardinality({s \in Seqs : \E r \in Seqs : r >= s /\ q[r] # None}) + 1
NewRow(n, name, def) == [id |-> n, name |-> name, def |-> def, tune |-> FALSE, state |-> "pending"]

\* The queue after an edit of the queue the editor has seen.
Edited(q, ed) ==
  CASE ed.kind = "append"  -> Put(q, Next1(q), NewRow(ids, ed.name, ed.def))
    [] ed.kind = "replace" -> Put(q, ed.at, [q[ed.at] EXCEPT !.name = ed.name, !.def = ed.def])
    [] ed.kind = "remove"  -> Put(q, ed.at, None)

\* append_tasks, edit_pending_task, remove_pending_task: read the queue, validate the queue
\* the edit would make.
Edit(e, ed) ==
  /\ editor[e] = NoEdit /\ edits < MaxEdits /\ edits' = edits + 1
  /\ ed.seen = Listed(queue)
  /\ IF ed.kind = "append" THEN Next1(queue) <= MaxSeq
     ELSE ed.at \in Rows /\ queue[ed.at].state = "pending"
  /\ Valid(Listed(Edited(queue, ed)))
  /\ editor' = [editor EXCEPT ![e] = ed]
  /\ UNCHANGED <<queue, stages, open, assigned, ctl, lock, role, live, ids, faults>>

\* apply_task_queue_change: ids, names, sequence numbers and definitions are as they were.
Unchanged(ed) == ed.seen = Listed(queue)

\* Mutant: any task may be replaced.
StillAny(ed) == TRUE

StillPending(ed) == ed.kind # "append" => ed.at \in Rows /\ queue[ed.at].state = "pending"

ApplyEdit(e) ==
  LET ed == editor[e] IN
  /\ ed # NoEdit
  /\ editor' = [editor EXCEPT ![e] = NoEdit]
  /\ IF Unchanged(ed) /\ StillPending(ed)
     THEN /\ queue' = Edited(queue, ed)
          /\ ids' = ids + (IF ed.kind = "append" THEN 1 ELSE 0)
     ELSE UNCHANGED <<queue, ids>>
  /\ UNCHANGED <<stages, open, assigned, ctl, lock, role, live, edits, faults>>

\* update_run_task_queue_tuning, in one transaction.
Tune(s) ==
  /\ edits < MaxEdits /\ edits' = edits + 1
  /\ s \in Rows /\ queue[s].state \in {"pending", "active"} /\ queue[s].def.kind = "sample"
  /\ queue' = [queue EXCEPT ![s].tune = ~@]
  /\ UNCHANGED <<stages, open, assigned, editor, ctl, lock, role, live, ids, faults>>

\* The operator resumes a paused run.
Resume ==
  /\ ~assigned /\ assigned' = TRUE
  /\ UNCHANGED <<queue, stages, open, editor, ctl, lock, role, live, ids, edits, faults>>

-----------------------------------------------------------------------------
(* The control loops                                                       *)

Active  == {s \in Rows : queue[s].state = "active"}
Pending == {s \in Rows : queue[s].state = "pending"}

First(S) == CHOOSE s \in S : \A r \in S : s <= r

\* Mutant: the first node, whether it has a lease or not.
LeaderDead(c) == c \in live /\ \A d \in Controllers : c <= d

\* is_task_control_leader: the first live node.
Leader(c) == c \in live /\ \A d \in live : c <= d

EndTick(c) ==
  /\ ctl' = [ctl EXCEPT ![c] = IdleCtl]
  /\ lock' = IF lock = c THEN None ELSE lock

Step(c, pc, seq, done) == ctl' = [ctl EXCEPT ![c] = [pc |-> pc, seq |-> seq, done |-> done]] /\ UNCHANGED lock

\* Leader, advisory lock, and leader again.  The run is listed while a node wants it or is
\* recorded with it, which an evaluator that has yet to leave is at any time.
BeginTick(c) ==
  /\ ctl[c] = IdleCtl /\ Leader(c) /\ lock = None
  /\ ctl' = [ctl EXCEPT ![c].pc = "load"]
  /\ lock' = c
  /\ UNCHANGED <<queue, stages, open, assigned, editor, role, live, ids, edits, faults>>

\* reconcile_run: the active task, if any.
LoadActive(c) ==
  /\ ctl[c].pc = "load"
  /\ CASE Active = {} -> Step(c, "count", 0, FALSE)
       [] Active # {} /\ RunsInControlPlane(queue[First(Active)].def) -> Step(c, "apply", First(Active), FALSE)
       [] OTHER -> EndTick(c)
  /\ UNCHANGED <<queue, stages, open, assigned, editor, role, live, ids, edits, faults>>

\* No unfinished batch; and unless a control task was just completed, workers that are
\* wanted or still recorded: those of a paused run leave in their own time.
Count(c) ==
  /\ ctl[c].pc = "count"
  /\ \/ ~open /\ Step(c, "activate", 0, ctl[c].done)
     \/ (open \/ (~ctl[c].done /\ ~assigned /\ role = IdleRole)) /\ EndTick(c)
  /\ UNCHANGED <<queue, stages, open, assigned, editor, role, live, ids, edits, faults>>

\* The unique index on the active task of a run.
MayActivate == Active = {}

\* activate_next_run_task: the first pending task.
Activate(c) ==
  LET s == First(Pending) IN
  /\ ctl[c].pc = "activate"
  /\ CASE Pending = {} -> Step(c, "finish", 0, FALSE) /\ UNCHANGED queue
       [] Pending # {} /\ ~MayActivate -> EndTick(c) /\ UNCHANGED queue
       [] OTHER -> /\ queue' = [queue EXCEPT ![s].state = "active"]
                   /\ IF RunsInControlPlane(queue[s].def) THEN Step(c, "apply", s, TRUE) ELSE EndTick(c)
  /\ UNCHANGED <<stages, open, assigned, editor, role, live, ids, edits, faults>>

\* reconcile_control_task for set_accumulator: the new stage on the one before it.
SaveSetStage(c) ==
  LET s == ctl[c].seq
      st == [Before(s) EXCEPT !.seq = s, !.task = queue[s].id, !.ac = TRUE]
  IN /\ ctl[c].pc = "apply"
     /\ stages' = Append(stages, st)
     /\ Step(c, "complete", s, TRUE)
     /\ UNCHANGED <<queue, open, assigned, editor, role, live, ids, edits, faults>>

CompleteSet(c) ==
  /\ ctl[c].pc = "complete"
  /\ queue' = [queue EXCEPT ![ctl[c].seq].state = IF @ = "active" THEN "completed" ELSE @]
  /\ Step(c, "count", 0, TRUE)
  /\ UNCHANGED <<stages, open, assigned, editor, role, live, ids, edits, faults>>

\* finish_run_assignments once the queue is exhausted.
FinishRun(c) ==
  /\ ctl[c].pc = "finish"
  /\ assigned' = FALSE
  /\ EndTick(c)
  /\ UNCHANGED <<queue, stages, open, editor, role, live, ids, edits, faults>>

\* A statement of the tick fails, or the node dies: the transaction that holds the lock
\* ends with it.
TickFails(c) ==
  /\ ctl[c] # IdleCtl /\ Fault
  /\ EndTick(c)
  /\ \E S \in {live, live \ {c}} : S # {} /\ live' = S
  /\ UNCHANGED <<queue, stages, open, assigned, editor, role, ids, edits>>

\* The connection that holds the lock is lost, and perhaps the lease, while the tick goes on.
LockLost(c) ==
  /\ lock = c /\ Fault /\ lock' = None
  /\ \E S \in {live, live \ {c}} : S # {} /\ live' = S
  /\ UNCHANGED <<queue, stages, open, assigned, editor, ctl, role, ids, edits>>

-----------------------------------------------------------------------------
(* The sampler role                                                        *)

\* A task fails and its run is paused.
FailAndPause(s) ==
  /\ queue' = [queue EXCEPT ![s].state = IF @ \in {"pending", "active"} THEN "failed" ELSE @]
  /\ assigned' = FALSE

\* build_sampler_runner: sources resolved, or the task fails.
StartRole ==
  /\ role = IdleRole /\ assigned /\ Active # {}
  /\ LET s == First(Active) IN
     /\ RunsOnSampler(queue[s].def)
     /\ IF Resolves(s, queue[s].def)
        THEN role' = [pc |-> "run", seq |-> s, id |-> queue[s].id] /\ UNCHANGED <<queue, assigned>>
        ELSE FailAndPause(s) /\ UNCHANGED role
  /\ UNCHANGED <<stages, open, editor, ctl, lock, live, ids, edits, faults>>

\* A role that cannot be built for other reasons fails the active or the next sampled task.
StartFails ==
  /\ role = IdleRole /\ assigned /\ Fault
  /\ LET S == IF Active # {} THEN Active ELSE {s \in Pending : RunsOnSampler(queue[s].def)} IN
     IF S = {} THEN assigned' = FALSE /\ UNCHANGED queue ELSE FailAndPause(First(S))
  /\ UNCHANGED <<stages, open, editor, ctl, lock, role, live, ids, edits>>

Produce ==
  /\ role.pc = "run" /\ assigned /\ ~open /\ open' = TRUE
  /\ UNCHANGED <<queue, stages, assigned, editor, ctl, lock, role, live, ids, edits, faults>>

\* The evaluators finish what is queued.
Drain ==
  /\ open /\ open' = FALSE
  /\ UNCHANGED <<queue, stages, assigned, editor, ctl, lock, role, live, ids, edits, faults>>

\* The final checkpoint with the stage, in one transaction.
SaveStage ==
  LET s == role.seq IN
  /\ role.pc = "run" /\ assigned /\ ~open
  /\ stages' = Append(stages, [seq |-> s, task |-> role.id, ev |-> TRUE, ac |-> TRUE, sm |-> Left(s, queue[s].def)])
  /\ role' = [role EXCEPT !.pc = "complete"]
  /\ UNCHANGED <<queue, open, assigned, editor, ctl, lock, live, ids, edits, faults>>

\* complete_run_task; its answer may be lost.
CompleteTask ==
  /\ role.pc = "complete"
  /\ queue' = [queue EXCEPT ![role.seq].state = IF @ = "active" THEN "completed" ELSE @]
  /\ \/ role' = IdleRole /\ UNCHANGED faults
     \/ role' = [role EXCEPT !.pc = "failing"] /\ Fault
  /\ UNCHANGED <<stages, open, assigned, editor, ctl, lock, live, ids, edits>>

\* The role's tick fails.
RoleFails ==
  /\ role.pc \in {"run", "complete"} /\ Fault
  /\ role' = [role EXCEPT !.pc = "failing"]
  /\ UNCHANGED <<queue, stages, open, assigned, editor, ctl, lock, live, ids, edits>>

\* fail_current_assignment: the task that is active now, and the run is paused.
FailCurrent ==
  /\ role.pc = "failing" /\ role' = IdleRole
  /\ IF Active = {} THEN assigned' = FALSE /\ UNCHANGED queue
     ELSE FailAndPause(First(Active))
  /\ UNCHANGED <<stages, open, editor, ctl, lock, live, ids, edits, faults>>

\* A batch that failed too often: its evaluator fails the task and pauses the run.
EvaluatorFails ==
  /\ role.pc = "run" /\ open /\ Fault
  /\ FailAndPause(role.seq)
  /\ UNCHANGED <<stages, open, editor, ctl, lock, role, live, ids, edits>>

\* The role stops because it is no longer wanted.
StopRole ==
  /\ role.pc \in {"run", "complete"} /\ ~assigned
  /\ role' = IdleRole
  /\ UNCHANGED <<queue, stages, open, assigned, editor, ctl, lock, live, ids, edits, faults>>

-----------------------------------------------------------------------------

\* create_run: a valid initial queue, with the root stage.
InitialQueue(q) ==
  /\ \A s \in Seqs : q[s] = None \/ (q[s].id = s /\ q[s].state = "pending" /\ ~q[s].tune)
  /\ \A s \in Seqs : q[s] = None => \A r \in Seqs : r > s => q[r] = None
  /\ Valid(Listed(q))

Starts == {NewRow(s, x, d) : s \in Seqs, x \in Names, d \in Defs}

Init ==
  /\ queue \in {q \in [Seqs -> Starts \cup {None}] : q[MaxSeq] = None /\ InitialQueue(q)}
  /\ stages = <<Root>> /\ open = FALSE /\ assigned = TRUE
  /\ editor = [e \in Editors |-> NoEdit]
  /\ ctl = [c \in Controllers |-> IdleCtl] /\ lock = None /\ live = Controllers
  /\ role = IdleRole
  /\ ids = MaxSeq + 1 /\ edits = 0 /\ faults = 0

Change(kind, s, x, d) == [kind |-> kind, seen |-> Listed(queue), at |-> s, name |-> x, def |-> d]

EditStep ==
  \/ \E e \in Editors, x \in Names, d \in Defs :
       Edit(e, Change("append", 0, x, d)) \/ \E s \in Rows : Edit(e, Change("replace", s, x, d))
  \/ \E e \in Editors, s \in Rows : Edit(e, Change("remove", s, None, None))
  \/ \E e \in Editors : ApplyEdit(e)
  \/ \E s \in Rows : Tune(s)

ControlStep(c) ==
  BeginTick(c) \/ LoadActive(c) \/ Count(c) \/ Activate(c) \/ SaveSetStage(c) \/ CompleteSet(c) \/ FinishRun(c)

RoleStep == StartRole \/ SaveStage \/ CompleteTask \/ FailCurrent \/ StopRole

Next ==
  \/ EditStep \/ Resume
  \/ \E c \in Controllers : ControlStep(c) \/ TickFails(c) \/ LockLost(c)
  \/ RoleStep \/ StartFails \/ Produce \/ Drain \/ RoleFails \/ EvaluatorFails

Spec == Init /\ [][Next]_vars

-----------------------------------------------------------------------------
(* Properties                                                              *)

TypeOK ==
  /\ queue \in [Seqs -> {None} \cup [id : 1 .. MaxSeq + MaxEdits + 1, name : Names, def : Defs, tune : BOOLEAN,
                                     state : {"pending", "active", "completed", "failed"}]]
  /\ \A i \in 1 .. Len(stages) : stages[i].sm \in {"none", "plain", "grid", "raster"} /\ stages[i].seq < MaxSeq + 1
  /\ {open, assigned} \subseteq BOOLEAN
  /\ \A c \in Controllers : ctl[c].pc \in {"idle", "load", "count", "activate", "apply", "complete", "finish"}
  /\ lock \in Controllers \cup {None} /\ live \subseteq Controllers
  /\ role.pc \in {"idle", "run", "complete", "failing"}
  /\ Cardinality(Active) <= 1

\* Whatever editors do at the same time, the queue as a whole stays one the preflight
\* accepts: every named source is an earlier task that has what is asked of it.
QueueValid == Valid(Listed(queue))

\* A task that has left the pending state keeps its place, name and definition (queue
\* tuning apart) and never becomes pending again.
HistoryKept ==
  \A s \in Rows : queue[s].state # "pending" =>
    /\ queue'[s] # None
    /\ <<queue'[s].id, queue'[s].name, queue'[s].def>> = <<queue[s].id, queue[s].name, queue[s].def>>
    /\ queue[s].state \in {"completed", "failed"} => queue'[s].state = queue[s].state

\* Tasks run in the order of the queue: nothing pending is left behind by an active or a
\* completed task.
InOrder ==
  \A s \in Pending, r \in Rows : queue[r].state \in {"active", "completed"} => r < s

\* A completed task has left a stage of its own, so that later tasks can build on it.
CompletedHasStage ==
  \A s \in Rows : queue[s].state = "completed" => \E i \in 1 .. Len(stages) : stages[i].task = queue[s].id

\* When all its predecessors were completed, an accepted task finds at run time the
\* evaluator and the accumulator the preflight promised.
SourcesKept ==
  \A s \in Active : (\A r \in Rows : r < s => queue[r].state = "completed") /\ RunsOnSampler(queue[s].def) =>
    LET def == queue[s].def IN
    /\ \A x \in SourceNames(def) : NamedStage(s, x) # None
    /\ EvaluatorFound(s, def) /\ AccumulatorFound(s, def)

\* Nothing is left to do.
Drained == Active = {} /\ Pending = {}

\* The queue as a whole: valid, in order, with the stages and sources it promised, and with its
\* history left alone.
QueueKept ==
  [](TypeOK /\ QueueValid /\ InOrder /\ CompletedHasStage /\ SourcesKept) /\ [][HistoryKept]_vars
=============================================================================
