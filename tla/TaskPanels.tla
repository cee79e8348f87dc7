------------------------------ MODULE TaskPanels ------------------------------
(***************************************************************************)
(* What readers see of a run while its sampler writes it: the dashboard's  *)
(* task panels (get_run_task_output in server/mod.rs and                    *)
(* server/task_panels), a controller that reads a child's result           *)
(* (controller_child.rs) and the measurement stored at task completion     *)
(* (services/measurement.rs).                                              *)
(*                                                                         *)
(* The history of a task is a table of snapshot rows with increasing ids.  *)
(* The live accumulator is ONE column of the run, whichever task published *)
(* it.  A handler is a sequence of separate statements, so a task may      *)
(* complete, the next may publish, or recovery may delete rows in between. *)
(* The browser keeps a cursor and merges appended points by sample count.  *)
(*                                                                         *)
(* A result is [task, n, era]: the task that published it, its number of   *)
(* samples, and how often recovery had rolled that task back before, which *)
(* tells a recomputed point from the one it replaces.                      *)
(***************************************************************************)
EXTENDS Integers, FiniteSets

CONSTANTS Tasks,        \* the sampling tasks of the run, 1..k in queue order
          Target,         \* Target[t]: samples after which task t is complete
          Kind,           \* Kind[t]: the accumulator type task t uses
          Budget,         \* DEFAULT_HISTORY_POINT_BUDGET
          Readers,        \* who reads the run: "panel", "child"
          Viewable,       \* bound: the tasks the dashboard may have open
          Limit,          \* rows one request may return
          MaxIds,         \* bound: snapshot rows ever written
          MaxEras,        \* bound: recoveries
          None            \* an absent row, result or cursor

PanelsAssumption ==
    /\ IsFiniteSet(Tasks) /\ Tasks = 1..Cardinality(Tasks)
    /\ Target \in [Tasks -> Nat \ {0}]
    /\ Viewable \subseteq Tasks
    /\ Budget \in Nat \ {0} /\ Limit \in Nat \ {0}
    /\ MaxIds \in Nat /\ MaxEras \in Nat
    /\ None \notin [task : Tasks, n : Nat, era : Nat]
    /\ None \notin [id : Nat, pt : [task : Tasks, n : Nat, era : Nat]]
    /\ None \notin [pt : [task : Tasks, n : Nat, era : Nat], rowId : Nat]

VARIABLES
    viewed,     \* the task the dashboard shows
    state,      \* run_tasks.state
    sampler,    \* [up, acc, pend]: is it up, its accumulator, its flush in flight
    era,        \* recoveries of each task
    rows,       \* persisted_observable_snapshots
    nextId,     \* its id sequence
    live,       \* runs.current_observable
    stage,      \* the newest run_stage_snapshots row of each task
    checkpoint, \* the sampler checkpoint of the active task
    measured,   \* run_tasks.measurement_output
    closing,    \* how far complete_task has come
    req,        \* the panel request being handled
    client,     \* the browser
    child       \* a controller's read of this run

vars == <<viewed, state, sampler, era, rows, nextId, live, stage, checkpoint,
          measured, closing, req, client, child>>
samplerVars == <<sampler, era, rows, nextId, live, stage, checkpoint, measured, closing>>
readers == <<viewed, req, client, child>>

Policies == {"StageFirst", "PersistedFirst", "PersistedAlways"}
Polled == {"pending", "active"}
Result == [task : Tasks, n : Nat, era : Nat]
ActiveTasks == {t \in Tasks : state[t] = "active"}
RowsOf(t) == {r \in rows : r.pt.task = t}
Newest(R) == IF R = {} THEN None ELSE CHOOSE r \in R : \A q \in R : q.id <= r.id

Empty(t) == [task |-> t, n |-> 0, era |-> 0]
Idle == [pc |-> "idle", state |-> "pending", latest |-> None, stage |-> None, live |-> None]

Init ==
    /\ viewed \in Viewable
    /\ state = [t \in Tasks |-> "pending"]
    /\ sampler = [up |-> FALSE, acc |-> Empty(1), pend |-> None]
    /\ era = [t \in Tasks |-> 0]
    /\ rows = {} /\ nextId = 1
    /\ live = None
    /\ stage = [t \in Tasks |-> None]
    /\ checkpoint = None
    /\ measured = [t \in Tasks |-> None]
    /\ closing = "no"
    /\ req = Idle
    /\ client = [cursor |-> None, points |-> {}, shown |-> [p \in Policies |-> None],
                 polling |-> TRUE]
    /\ child = [pc |-> "idle", task |-> 1, state |-> "pending", acc |-> None]

-----------------------------------------------------------------------------
(* The sampler and the task queue. *)

ClearLive == None

\* activate_next_run_task: the next pending task once all before it are done; the live
\* accumulator of the stage before is cleared in the same transaction.
Activate ==
    /\ ActiveTasks = {} /\ \A t \in Tasks : state[t] # "failed"
    /\ \E t \in Tasks :
        /\ state[t] = "pending" /\ \A s \in 1..(t-1) : state[s] = "completed"
        /\ state' = [state EXCEPT ![t] = "active"]
    /\ live' = ClearLive
    /\ UNCHANGED <<sampler, era, rows, nextId, stage, checkpoint, measured, closing, readers>>

\* The initial checkpoint: no result yet, the newest row of the task as boundary.
StartSampler ==
    /\ ~sampler.up /\ checkpoint = None /\ closing = "no"
    /\ \E t \in ActiveTasks :
        /\ checkpoint' = [pt |-> Empty(t), rowId |-> 0]
        /\ sampler' = [up |-> TRUE, acc |-> Empty(t), pend |-> None]
    /\ UNCHANGED <<state, era, rows, nextId, live, stage, measured, closing, readers>>

Ingest ==
    /\ sampler.up /\ closing = "no"
    /\ \E t \in ActiveTasks :
        /\ sampler.acc.n < Target[t]
        /\ sampler' = [sampler EXCEPT !.acc.n = @ + 1, !.acc.era = era[t]]
    /\ UNCHANGED <<state, era, rows, nextId, live, stage, checkpoint, measured, closing, readers>>

\* flush_aggregation(false): the value is taken now and written by a spawned task.
StartFlush ==
    /\ sampler.up /\ closing = "no" /\ sampler.pend = None
    /\ \E t \in ActiveTasks :
        /\ \A r \in RowsOf(t) : r.pt.n < sampler.acc.n
        /\ sampler' = [sampler EXCEPT !.pend = sampler.acc]
    /\ UNCHANGED <<state, era, rows, nextId, live, stage, checkpoint, measured, closing, readers>>

\* save_aggregation: the snapshot row and the live accumulator in one transaction.
Save(pt) ==
    /\ nextId <= MaxIds
    /\ rows' = rows \cup {[id |-> nextId, pt |-> pt]}
    /\ nextId' = nextId + 1
    /\ live' = pt

LandFlush ==
    /\ sampler.pend # None
    /\ Save(sampler.pend)
    /\ sampler' = [sampler EXCEPT !.pend = None]
    /\ UNCHANGED <<state, era, stage, checkpoint, measured, closing, readers>>

\* persist_state: a forced flush after the pending one, then checkpoint and stage
\* snapshot in one transaction.
PersistState(t, next) ==
    /\ sampler.up /\ sampler.pend = None /\ closing = "no"
    /\ Save(sampler.acc)
    /\ stage' = [stage EXCEPT ![t] = sampler.acc]
    /\ checkpoint' = [pt |-> sampler.acc, rowId |-> nextId]
    /\ closing' = next

Pause ==
    /\ \E t \in ActiveTasks : sampler.acc.n < Target[t] /\ PersistState(t, "no")
    /\ sampler' = [sampler EXCEPT !.up = FALSE]
    /\ UNCHANGED <<state, era, measured, readers>>

CloseUnsaved ==
    /\ \E t \in ActiveTasks : sampler.acc.n = Target[t]
    /\ sampler.up /\ sampler.pend = None /\ closing = "no" /\ closing' = "saved"
    /\ UNCHANGED <<rows, nextId, live, stage, checkpoint>>

CloseOnce == \E t \in ActiveTasks : sampler.acc.n = Target[t] /\ PersistState(t, "saved")

\* complete_task: save, measure, record completion, three statements apart.
CompleteSave == CloseOnce /\ UNCHANGED <<state, sampler, era, measured, readers>>

\* load_measurement_accumulator: the live accumulator of an active task, else its stage.
MeasurementAccumulator(t, taskState, liveNow) ==
    IF taskState = "active" /\ liveNow # None THEN liveNow ELSE stage[t]

CompleteMeasure ==
    /\ closing = "saved" /\ closing' = "measured"
    /\ \E t \in ActiveTasks :
        measured' = [measured EXCEPT ![t] = MeasurementAccumulator(t, "active", live)]
    /\ UNCHANGED <<state, sampler, era, rows, nextId, live, stage, checkpoint, readers>>

CompleteTask ==
    /\ closing = "measured" /\ closing' = "no"
    /\ \E t \in ActiveTasks : state' = [state EXCEPT ![t] = "completed"]
    /\ sampler' = [sampler EXCEPT !.up = FALSE]
    /\ checkpoint' = None
    /\ UNCHANGED <<era, rows, nextId, live, stage, measured, readers>>

FailTask ==
    /\ sampler.up /\ closing = "no"
    /\ \E t \in ActiveTasks : state' = [state EXCEPT ![t] = "failed"]
    /\ sampler' = [sampler EXCEPT !.up = FALSE]
    /\ UNCHANGED <<era, rows, nextId, live, stage, checkpoint, measured, closing, readers>>

\* The sampler's process dies; complete_task may be cut short at any statement.
Crash ==
    /\ sampler.up
    /\ sampler' = [sampler EXCEPT !.up = FALSE, !.pend = None]
    /\ closing' = "no"
    /\ UNCHANGED <<state, era, rows, nextId, live, stage, checkpoint, measured, readers>>

\* restore_sampler_checkpoint: rows past the checkpoint go, the live accumulator and the
\* progress are the checkpoint's again.
Restore ==
    /\ ~sampler.up /\ checkpoint # None
    /\ \E t \in ActiveTasks :
        /\ checkpoint.pt.task = t /\ \A u \in Tasks : era[u] < MaxEras
        /\ rows' = {r \in rows : r.pt.task = t => r.id <= checkpoint.rowId}
        /\ era' = [era EXCEPT ![t] = @ + 1]
    /\ live' = checkpoint.pt
    /\ sampler' = [up |-> TRUE, acc |-> checkpoint.pt, pend |-> None]
    /\ UNCHANGED <<state, nextId, stage, checkpoint, measured, closing, readers>>

-----------------------------------------------------------------------------
(* The panel request: one statement per step. *)

\* get_task_output_snapshots: newest rows first, at most Limit of them.
TaskOutputSnapshots(after, limit) ==
    LET found == {r \in RowsOf(viewed) : after # None => r.id > after}
    IN  {r \in found : Cardinality({q \in found : q.id > r.id}) < limit}

Poll ==
    /\ "panel" \in Readers
    /\ client.polling /\ req.pc = "idle"
    /\ req' = [Idle EXCEPT !.pc = "latest", !.state = state[viewed]]
    /\ UNCHANGED <<viewed, state, samplerVars, client, child>>

ReadLatest ==
    /\ req.pc = "latest"
    /\ req' = [req EXCEPT !.pc = "stage", !.latest = Newest(TaskOutputSnapshots(None, 1))]
    /\ UNCHANGED <<viewed, state, samplerVars, client, child>>

ReadStage ==
    /\ req.pc = "stage"
    /\ req' = [req EXCEPT !.pc = "live", !.stage = stage[viewed]]
    /\ UNCHANGED <<viewed, state, samplerVars, client, child>>

\* The live accumulator is read only for a task that was active.
LiveFor(r) == IF r.state = "active" THEN live ELSE None

ReadLive ==
    /\ req.pc = "live"
    /\ req' = [req EXCEPT !.pc = "history", !.live = LiveFor(req)]
    /\ UNCHANGED <<viewed, state, samplerVars, client, child>>

\* resolve_current_source, as the result it names.
CurrentSource(policy) ==
    LET persisted == IF req.latest = None THEN None ELSE req.latest.pt
        first(a, b) == IF a # None THEN a ELSE b
    IN  IF policy = "PersistedAlways" /\ persisted # None THEN persisted
        ELSE IF req.state = "active" /\ req.live # None THEN req.live
        ELSE IF policy = "StageFirst" THEN first(req.stage, persisted)
        ELSE first(persisted, req.stage)

\* accumulator_matches_requested_config: only a live or stage accumulator is compared.
AccumulatorMatches(pt) == pt # None => Kind[pt.task] = Kind[viewed]

\* merge_plot_points: one point per sample count, the later one wins.
MergePoints(points, delta) == {p \in points : \A d \in delta : d.n # p.n} \cup delta

\* required_downsample_level, the halving loop.
RequiredLevel[count \in Nat] ==
    IF count > Budget THEN 1 + RequiredLevel[(count + 1) \div 2] ELSE 0

Kept(points, stride) ==
    {p \in points : Cardinality({q \in points : q.n < p.n}) % stride = 0}
Last(points) == {p \in points : \A q \in points : q.n <= p.n}

\* downsample_points: every stride-th point, and always the last.
Downsample(points, level) ==
    IF level = 0 \/ Cardinality(points) <= Budget THEN points
    ELSE Kept(points, 2^level) \cup Last(points)

\* should_poll_task_output
ShouldPoll(r) == r.state \in Polled

\* parse_cursor and format_cursor: "id:level", the level optional, nothing without an id.
CursorId(c) == IF c = None THEN None ELSE c.id
CursorLevel(c) == IF c = None THEN 0 ELSE c.level
NextCursor(level) ==
    [id |-> CASE req.latest # None -> req.latest.id
              [] req.latest = None /\ client.cursor # None -> client.cursor.id
              [] OTHER -> 0,
     level |-> level]

\* The points of snapshot rows, as the history projectors decode them, and the update
\* of an append panel: the current point, then the history merged over it.
SnapshotPoints(fetched) == {r.pt : r \in fetched}
HistoryUpdate(now, fetched) == MergePoints({now} \ {None}, SnapshotPoints(fetched))

\* The sample history panels all prefer persisted output to the stage snapshot.
HistoryPolicy == "PersistedFirst"

\* project_current_panels: a panel without a source is not updated.
ShownPanels ==
    [p \in Policies |-> IF CurrentSource(p) = None THEN client.shown[p] ELSE CurrentSource(p)]

\* build_response: a full history replaces the panel, a delta is appended to it.
Respond ==
    /\ req.pc = "history"
    /\ AccumulatorMatches(req.live)
    /\ LET update  == HistoryUpdate(CurrentSource(HistoryPolicy),
                                    TaskOutputSnapshots(CursorId(client.cursor), Limit))
           full    == client.cursor = None
           level   == IF full THEN RequiredLevel[Cardinality(update)]
                      ELSE CursorLevel(client.cursor)
           sent    == Downsample(update, level)
       IN  client' = [cursor  |-> NextCursor(level),
                      points  |-> IF full THEN sent ELSE MergePoints(client.points, sent),
                      shown   |-> ShownPanels,
                      polling |-> ShouldPoll(req)]
    /\ req' = Idle
    /\ UNCHANGED <<viewed, state, samplerVars, child>>

\* The projectors refuse an accumulator of another type: the request fails, the browser
\* keeps what it has and polls again.
RespondMismatch ==
    /\ req.pc = "history"
    /\ ~AccumulatorMatches(req.live)
    /\ req' = Idle
    /\ UNCHANGED <<viewed, state, samplerVars, client, child>>

\* The answer is lost, or the view was left and its request aborted.
ResponseLost ==
    /\ req.pc = "history"
    /\ req' = Idle
    /\ UNCHANGED <<viewed, state, samplerVars, client, child>>

-----------------------------------------------------------------------------
(* A controller reads the result of one task of this run: load_child_task_result. *)

ChildReadTask ==
    /\ "child" \in Readers
    /\ child.pc = "idle"
    /\ \E t \in {t \in Tasks : state[t] \in {"active", "completed"}} :
        child' = [pc |-> "task", task |-> t, state |-> state[t], acc |-> None]
    /\ UNCHANGED <<viewed, state, samplerVars, req, client>>

ChildReadResult ==
    /\ child.pc = "task"
    /\ child' = [child EXCEPT !.pc = "idle",
                    !.acc = IF child.state = "active" THEN live ELSE stage[child.task]]
    /\ UNCHANGED <<viewed, state, samplerVars, req, client>>

SamplerStep == Activate \/ StartSampler \/ Ingest \/ StartFlush \/ LandFlush \/ Pause
               \/ CompleteSave \/ CompleteMeasure \/ CompleteTask \/ FailTask
Recovery == Crash \/ Restore
PanelStep == Poll \/ ReadLatest \/ ReadStage \/ ReadLive \/ Respond \/ RespondMismatch
ChildStep == ChildReadTask \/ ChildReadResult

Next == SamplerStep \/ Recovery \/ PanelStep \/ ResponseLost \/ ChildStep

Spec == Init /\ [][Next]_vars
-----------------------------------------------------------------------------
\* Type correctness.
TypeOK ==
    /\ state \in [Tasks -> {"pending", "active", "completed", "failed"}]
    /\ sampler.up \in BOOLEAN /\ sampler.acc \in Result /\ sampler.pend \in Result \cup {None}
    /\ rows \subseteq [id : 1..(nextId - 1), pt : Result]
    /\ live \in Result \cup {None}
    /\ \A t \in Tasks : stage[t] \in Result \cup {None} /\ measured[t] \in Result \cup {None}
    /\ client.points \subseteq Result
    /\ \A p, q \in client.points : p.n = q.n => p = q
    /\ req.pc \in {"idle", "latest", "stage", "live", "history"}

\* A row the browser's cursor has passed is on its plot: the row itself when nothing was
\* thinned out, else a point within 2^level rows after it.  Rows written, deleted by
\* recovery and written again between the statements of a request are not lost.
HistoryShown ==
    LET passed == {r.pt : r \in {r \in RowsOf(viewed) : r.id <= client.cursor.id}}
        within(p, r) == /\ p.n >= r.n
                        /\ Cardinality({q \in passed : r.n <= q.n /\ q.n < p.n})
                              < 2^(client.cursor.level)
    IN  client.cursor # None =>
          \A r \in passed : IF client.cursor.level = 0 THEN r \in client.points
                            ELSE \E p \in client.points : within(p, r)

\* A browser that was told to stop polling a completed task has its final result: on the
\* plot, and in every summary panel whichever source it prefers.
StoppedFinal ==
    ~client.polling /\ state[viewed] = "completed" =>
        /\ \E p \in client.points : p = stage[viewed]
        /\ \A p \in Policies : client.shown[p] = stage[viewed]

\* A plot holds results of the task it is about, if the stages differ in accumulator type.
OwnPoints == \A p \in client.points : p.task = viewed

\* A stage that has just become active is never credited with the live result of an
\* earlier one by a controller that asks for its result.
FreshStage == child.acc # None => child.acc.task >= child.task

\* A completed task's stored measurement is of the accumulator its final snapshot holds.
MeasuredFinal == \A t \in Tasks : state[t] = "completed" => measured[t] = stage[t]
=============================================================================
