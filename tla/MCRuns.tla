------------------------------- MODULE MCRuns -------------------------------
(***************************************************************************)
(* The modules about runs on small instances, side by side: task queue,    *)
(* campaigns, trials, run documents, panels and telemetry.  A behaviour is *)
(* one of the part it starts in, whose variables alone move; the variables *)
(* of the other parts are Off.                                             *)
(***************************************************************************)
EXTENDS Integers, Sequences, FiniteSets, TLC

CONSTANTS
  None, Off,
  t1, t2, t3, e1, e2,    \* task names and editors of TaskQueue
  k1, k2,                \* children of Campaign
  f1, f2,                \* files of Documents
  v1, s1                 \* evaluator and sampler of Telemetry

VARIABLES
  part,
  ctl, role, live, edits, faults, task, kid, placed, out,
  queue, stages, open, assigned, editor, lock, ids,
  grant, slots, peak,
  kind, space, draws,
  disk, runs, refused,
  viewed, state, sampler, era, rows, nextId, stage, checkpoint, measured, closing, req, client,
  child,
  now, runner, latest, history, epochs, snaps, stored, births

queueVars == <<queue, stages, open, assigned, editor, lock, ids>>
campaignVars == <<grant, slots, peak>>
trialsVars == <<kind, space, draws>>
documentsVars == <<disk, runs, refused>>
panelsVars == <<viewed, state, sampler, era, rows, nextId, stage, checkpoint, measured, closing,
                req, client, child>>
telemetryVars == <<now, runner, latest, history, epochs, snaps, stored, births>>
vars == <<part, ctl, role, live, edits, faults, task, kid, placed, out, queueVars, campaignVars,
          trialsVars, documentsVars, panelsVars, telemetryVars>>

QueueOff == queue = Off /\ stages = Off /\ open = Off /\ assigned = Off /\ editor = Off /\
            lock = Off /\ ids = Off
CampaignOff == grant = Off /\ slots = Off /\ peak = Off
TrialsOff == kind = Off /\ space = Off /\ draws = Off
DocumentsOff == disk = Off /\ runs = Off /\ refused = Off
PanelsOff == viewed = Off /\ state = Off /\ sampler = Off /\ era = Off /\ rows = Off /\
             nextId = Off /\ stage = Off /\ checkpoint = Off /\ measured = Off /\ closing = Off /\
             req = Off /\ client = Off /\ child = Off
TelemetryOff == now = Off /\ runner = Off /\ latest = Off /\ history = Off /\ epochs = Off /\
                snaps = Off /\ stored = Off /\ births = Off

-----------------------------------------------------------------------------
(* The instances.                                                          *)

Task(sort, ev, sm, ac, from) == [kind |-> sort, ev |-> ev, sm |-> sm, ac |-> ac, from |-> from]
SetAcc   == Task("set_accumulator", "none", "none", "config", None)
Training == Task("sample", "config", "training", "config", None)
FromT1   == Task("sample", t1, t1, t1, None)
Handoff  == Task("sample", "latest", "inference", "config", t1)
Plain    == Task("sample", "latest", "plain", "latest", None)
Image    == Task("image", "latest", "raster", "config", None)

\* Two editors at once beside one control loop; and two control loops on all kinds of sources.
Edited == INSTANCE TaskQueue WITH
  Names <- {t1, t2}, Defs <- {SetAcc, Training, FromT1}, Editors <- {e1, e2}, Controllers <- {1},
  RootEvaluator <- TRUE, MaxSeq <- 3, MaxEdits <- 2, MaxFaults <- 0
Controlled == INSTANCE TaskQueue WITH
  Names <- {t1, t2, t3}, Defs <- {SetAcc, Training, Plain, Handoff, Image, FromT1}, Editors <- {},
  Controllers <- {1, 2}, RootEvaluator <- TRUE, MaxSeq <- 3, MaxEdits <- 0, MaxFaults <- 1

Shared == INSTANCE Campaign WITH
  Children <- {k1, k2}, Cap <- 5, Window <- 2, MinSamples <- 2, MinTotal <- 3, Train <- 0, Size <- 3,
  MaxSlots <- 2, MaxFaults <- 1

Ints(from, to, by) == [type |-> "range", min |-> from, max |-> to, step |-> by]
OneOf(values) == [type |-> "categorical", values |-> values]
Grid == INSTANCE Trials WITH
  Kinds <- {"scan", "grid", "random"},
  Spaces <- {<<Ints(1, 3, 2), Ints(0, 1, 1)>>, <<OneOf(<<7, 8>>), Ints(2, 3, 2), Ints(6, 8, 2)>>, <<Ints(5, 8, 3)>>},
  MaxInt <- 8, MaxTrials <- 2, Concurrent <- 2, Parallel <- 1, Initial <- 1, MaxFaults <- 1
Suggestions == INSTANCE Trials WITH
  Kinds <- {"egobox"}, Spaces <- {<<Ints(1, 5, 2), OneOf(<<7>>)>>},
  MaxInt <- 8, MaxTrials <- 4, Concurrent <- 1, Parallel <- 2, Initial <- 1, MaxFaults <- 1

Bare(x) == [form |-> "plain", v |-> x]
Whole(x) == [form |-> "typed", v |-> x]
Within(x) == [form |-> "inside", v |-> x]
InFile(f) == [file |-> f, doc |-> None]
Doc(sort, field, repl, inner, ev) ==
  [kind |-> sort, field |-> field, repl |-> repl, child |-> inner, evaluator |-> ev]
Integration(field, repl) == Doc("integration", field, repl, None, [kind |-> "unit", option |-> None])
Inner(source, repl) == [run |-> source, repl |-> repl]

\* Two integrations, a scan of the other file (possibly a cycle), and documents that fit no kind.
Texts ==
  {Integration(Whole(0), None), Integration(Within(0), Bare(1)),
   Doc("parameter_scan", Whole(0), Bare(2), Inner(InFile(f2), None), None),
   Doc("integration", Bare(5), None, None, [kind |-> "symbolica", option |-> None]),
   Doc("integration", Bare(5), None, Inner(InFile(f2), None), None), None}
Requests ==
  {[doc |-> Doc(sort, Whole(0), r, Inner(source, cr), None), bindings |-> b] :
     sort \in {"integration_campaign", "parameter_scan"}, r \in {None, Bare(2)},
     source \in {InFile(f1), [file |-> None, doc |-> Integration(Whole(0), Bare(1))]},
     cr \in {None, Bare(3), Whole(6)}, b \in {None, Bare(9)}}
  \cup {[doc |-> Integration(Within(0), None), bindings |-> None],
        [doc |-> Doc("integration", Bare(5), None, None, None), bindings |-> Bare(9)]}
Frozen == INSTANCE Documents WITH
  Files <- {f1, f2}, Directory <- Texts, Submittable <- Requests, ScanValue <- Bare(4),
  MaxDepth <- 3, MaxRuns <- 3, MaxEdits <- 1

\* A browser on the first of two tasks whose accumulators differ in type; and a controller that
\* asks for the result of tasks of the same type.
Panel == INSTANCE TaskPanels WITH
  Tasks <- {1, 2}, Target <- <<2, 1>>, Kind <- <<1, 2>>, Budget <- 1, Readers <- {"panel"},
  Viewable <- {1}, Limit <- 9, MaxIds <- 3, MaxEras <- 1
Child == INSTANCE TaskPanels WITH
  Tasks <- {1, 2}, Target <- <<3, 1>>, Kind <- <<1, 1>>, Budget <- 1, Readers <- {"child"},
  Viewable <- {1}, Limit <- 9, MaxIds <- 4, MaxEras <- 2

\* Reports of a sampler's overlapping operations; measurements over two workers that may restart;
\* and over a sampler that counts.
Busy == INSTANCE Telemetry WITH
  Evaluators <- {}, Sampler <- s1, MaxTime <- 2, MaxReports <- 2, MaxOps <- 2, MaxCount <- 1,
  MaxEpochs <- 1, MaxTasks <- 2, MaxAge <- 1, MaxSnaps <- 0
Measure == INSTANCE Telemetry WITH
  Evaluators <- {v1}, Sampler <- s1, MaxTime <- 2, MaxReports <- 0, MaxOps <- 0, MaxCount <- 0,
  MaxEpochs <- 1, MaxTasks <- 1, MaxAge <- 1, MaxSnaps <- 2
Counted == INSTANCE Telemetry WITH
  Evaluators <- {}, Sampler <- s1, MaxTime <- 3, MaxReports <- 0, MaxOps <- 0, MaxCount <- 1,
  MaxEpochs <- 1, MaxTasks <- 1, MaxAge <- 2, MaxSnaps <- 2

ASSUME Instances ==
  /\ Edited!TaskQueueAssumption /\ Controlled!TaskQueueAssumption /\ Shared!CampaignAssumption
  /\ Grid!TrialsAssumption /\ Grid!SpacesAssumption
  /\ Suggestions!TrialsAssumption /\ Suggestions!SpacesAssumption
  /\ Panel!PanelsAssumption /\ Child!PanelsAssumption
  /\ Busy!BoundsAssumption /\ Measure!BoundsAssumption /\ Counted!BoundsAssumption

-----------------------------------------------------------------------------
(* The sum.                                                                *)

\* What is off in a part, and what its steps leave alone.
NotQueue ==
  /\ CampaignOff /\ TrialsOff /\ DocumentsOff /\ PanelsOff /\ TelemetryOff
  /\ task = Off /\ kid = Off /\ placed = Off /\ out = Off
notQueue == <<part, campaignVars, trialsVars, documentsVars, panelsVars, telemetryVars, task, kid,
              placed, out>>
NotCampaign ==
  /\ QueueOff /\ TrialsOff /\ DocumentsOff /\ PanelsOff /\ TelemetryOff
  /\ live = Off /\ edits = Off
notCampaign == <<part, queueVars, trialsVars, documentsVars, panelsVars, telemetryVars, live, edits>>
NotTrials ==
  /\ QueueOff /\ CampaignOff /\ DocumentsOff /\ PanelsOff /\ TelemetryOff
  /\ role = Off /\ live = Off /\ edits = Off
notTrials == <<part, queueVars, campaignVars, documentsVars, panelsVars, telemetryVars, role, live,
               edits>>
NotDocuments ==
  /\ QueueOff /\ CampaignOff /\ TrialsOff /\ PanelsOff /\ TelemetryOff
  /\ ctl = Off /\ role = Off /\ live = Off /\ faults = Off /\ task = Off /\ kid = Off /\
     placed = Off /\ out = Off
notDocuments == <<part, queueVars, campaignVars, trialsVars, panelsVars, telemetryVars, ctl, role,
                  live, faults, task, kid, placed, out>>
NotPanels ==
  /\ QueueOff /\ CampaignOff /\ TrialsOff /\ DocumentsOff /\ TelemetryOff
  /\ ctl = Off /\ role = Off /\ edits = Off /\ faults = Off /\ task = Off /\ kid = Off /\
     placed = Off /\ out = Off
notPanels == <<part, queueVars, campaignVars, trialsVars, documentsVars, telemetryVars, ctl, role,
               edits, faults, task, kid, placed, out>>
NotTelemetry ==
  /\ QueueOff /\ CampaignOff /\ TrialsOff /\ DocumentsOff /\ PanelsOff
  /\ ctl = Off /\ role = Off /\ live = Off /\ edits = Off /\ faults = Off /\ kid = Off /\
     placed = Off /\ out = Off
notTelemetry == <<part, queueVars, campaignVars, trialsVars, documentsVars, panelsVars, ctl, role,
                  live, edits, faults, kid, placed, out>>

Init ==
  \/ part = "edited" /\ Edited!Init /\ NotQueue
  \/ part = "controlled" /\ Controlled!Init /\ NotQueue
  \/ part = "campaign" /\ Shared!Init /\ NotCampaign
  \/ part = "grid" /\ Grid!Init /\ NotTrials
  \/ part = "suggested" /\ Suggestions!Init /\ NotTrials
  \/ part = "documents" /\ Frozen!Init /\ NotDocuments
  \/ part = "panel" /\ Panel!Init /\ NotPanels
  \/ part = "child" /\ Child!Init /\ NotPanels
  \/ part = "busy" /\ Busy!Init /\ NotTelemetry
  \/ part = "measured" /\ Measure!Init /\ NotTelemetry
  \/ part = "counted" /\ Counted!Init /\ NotTelemetry

\* These parts may come to rest; the others never do.
Rest == part \in {"edited", "controlled", "documents", "panel", "child", "busy", "measured", "counted"} /\ UNCHANGED vars

Next ==
  \/ part = "edited" /\ Edited!Next /\ UNCHANGED notQueue
  \/ part = "controlled" /\ Controlled!Next /\ UNCHANGED notQueue
  \/ part = "campaign" /\ Shared!Next /\ UNCHANGED notCampaign
  \/ part = "grid" /\ Grid!Next /\ UNCHANGED notTrials
  \/ part = "suggested" /\ Suggestions!Next /\ UNCHANGED notTrials
  \/ part = "documents" /\ Frozen!Next /\ UNCHANGED notDocuments
  \/ part = "panel" /\ Panel!Next /\ UNCHANGED notPanels
  \/ part = "child" /\ Child!Next /\ UNCHANGED notPanels
  \/ part = "busy" /\ Busy!Next /\ UNCHANGED notTelemetry
  \/ part = "measured" /\ Measure!Next /\ UNCHANGED notTelemetry
  \/ part = "counted" /\ Counted!Next /\ UNCHANGED notTelemetry
  \/ Rest

Spec == Init /\ [][Next]_vars

-----------------------------------------------------------------------------
(* The properties of the parts: invariants and action properties.          *)

\* Task queue (tasks.rs, stage_context.rs, task_control.rs): however two editors and two control
\* loops interleave, the queue stays one the preflight accepts, tasks that were started keep
\* their place and definition, tasks run in order, a completed task has a stage of its own, and
\* an accepted task finds the evaluator and accumulator it was promised.
QueueKept ==
  /\ [](part = "edited" => Edited!TypeOK /\ Edited!QueueValid)
  /\ [](part = "controlled" =>
         /\ Controlled!TypeOK /\ Controlled!InOrder /\ Controlled!CompletedHasStage
         /\ Controlled!SourcesKept)
  /\ [][(part = "edited" => Edited!HistoryKept) /\ (part = "controlled" => Controlled!HistoryKept)]_vars

\* Campaigns (campaign_budget.rs, integration_campaign.rs): grants are disjoint portions of the
\* cap no sampler exceeds, and one quantum beyond what was completed, through crashes, rollbacks
\* and repeated ticks; a completed campaign was drained and every child had its pilot.
BudgetShared == part = "campaign" => Shared!BudgetShared

\* Scans and tuning (parameter_scan.rs, hyperparameter_tuning.rs): grid indices enumerate each
\* point once, no more children than allowed are under way after ticks that failed half-way
\* (but for the child such a tick of model-based search forgot), a completed task has a
\* measured child for every trial, and suggestions are new.
TrialsExact ==
  /\ part = "grid" => Grid!TypeOK /\ Grid!GridExact /\ Grid!Bounded /\ Grid!CompletedWhole
  /\ part = "suggested" => /\ Suggestions!TypeOK /\ Suggestions!Bounded
                           /\ Suggestions!CompletedWhole /\ Suggestions!SuggestionsNew

\* Run documents (run_definition.rs, api/runs.rs): a stored definition refers to no file, a child
\* started later is the one submitted whatever became of the files, a duplicate is the same
\* definition, and what was accepted is not refused later.
DefinitionsFrozen ==
  part = "documents" => /\ Frozen!TypeOK /\ Frozen!SelfContained /\ Frozen!ChildAsSubmitted
                        /\ Frozen!DuplicateIsSame /\ Frozen!AcceptedRuns

\* Panels (server/task_panels, useTaskPanels): rows a browser's cursor has passed are on its
\* plot, one told to stop polling has the final result, no live result of an earlier stage is
\* credited to a new one, and a completed task's measurement is of its final snapshot, while
\* snapshots are written, rolled back and written again between the reads of a request.
PanelsFaithful ==
  /\ part = "panel" => Panel!TypeOK /\ Panel!HistoryShown /\ Panel!StoppedFinal /\ Panel!OwnPoints
  /\ part = "child" => Child!TypeOK /\ Child!FreshStage /\ Child!MeasuredFinal

\* Telemetry (busy_time.rs, performance.rs): occupied time is wall time however operations
\* overlap, differences of reports are always valid and zooming loses none, windows cover each
\* observation once, and a measurement called valid compares one incarnation of each worker.
TelemetryExact ==
  /\ part = "busy" => /\ Busy!TypeOK /\ Busy!BusyExact /\ Busy!NeverInvalid /\ Busy!ZoomExact
                      /\ Busy!WindowsCoverOnce
  /\ part = "measured" => Measure!TypeOK /\ Measure!ValidMeansSteady
  /\ part = "counted" => Counted!TypeOK /\ Counted!ValidMeansSteady

Symmetry == Permutations({k1, k2})
=============================================================================
