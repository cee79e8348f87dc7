----------------------------- MODULE Telemetry -----------------------------
(***************************************************************************)
(* Performance reports of the workers of one run and what is computed from *)
(* them.                                                                   *)
(*                                                                         *)
(* A runner keeps cumulative counters, the wall time during which at least *)
(* one operation of a lane was running (BusyTime), and window metrics that *)
(* restart with each report.  Reports are published asynchronously, carry  *)
(* the runner's epoch, its node and its task, and are kept as a history    *)
(* and as the latest row of each worker.  Readers take differences of two  *)
(* reports of one identity (performance panels), or several snapshots over *)
(* a while (measure), while runners restart and tasks change.              *)
(*                                                                         *)
(* Rolling averages, plots and formatting are left out; of the counters    *)
(* one stands for all, and one lane for compute and I/O.                   *)
(***************************************************************************)
EXTENDS Integers, Sequences, FiniteSets, SequencesExt

CONSTANTS Evaluators, Sampler,
          MaxTime,      \* bound on the clock
          MaxOps,       \* operations a lane runs at once
          MaxCount,     \* bound on a runner's counter
          MaxEpochs,    \* bound on runner restarts, all workers together
          MaxTasks,
          MaxReports,   \* bound on the reports of a worker's history; 0: no history is kept
          MaxAge,       \* age at which a report is stale
          MaxSnaps,     \* snapshots of a measurement
          None

Workers == Evaluators \cup {Sampler}

BoundsAssumption == {MaxTime, MaxOps, MaxCount, MaxEpochs, MaxTasks, MaxReports, MaxAge, MaxSnaps} \subseteq Nat

VARIABLES now, runner, latest, history, task, epochs, snaps,
          stored,    \* runs.nr_completed_samples
          births     \* ghost: when each worker's runners started
vars == <<now, runner, latest, history, task, epochs, snaps, stored, births>>

(***************************************************************************)
(* A runner                                                                *)
(***************************************************************************)
\* A fresh runner: a new epoch, counters at zero (the sampler's at the checkpoint's).
Fresh(e, count) ==
  [up |-> TRUE, epoch |-> e, task |-> task, count |-> count, window |-> 0,
   started |-> now, accounted |-> now, active |-> 0, occupied |-> 0,
   busy |-> 0, observed |-> 0]     \* the last two are ghosts: what really happened

\* State::account: a lane is occupied while any of its operations is active, once.
Account(r) ==
  [r EXCEPT !.occupied = @ + (IF r.active > 0 THEN now - r.accounted ELSE 0), !.accounted = now]

StartOp(x) ==
  /\ runner[x].up /\ runner[x].active < MaxOps
  /\ runner' = [runner EXCEPT ![x] = [Account(runner[x]) EXCEPT !.active = runner[x].active + 1]]
  /\ UNCHANGED <<now, latest, history, task, epochs, snaps, stored, births>>

\* Dropping the guard: on success, error, unwind or cancellation.
EndOp(x) ==
  /\ runner[x].up /\ runner[x].active > 0
  /\ runner' = [runner EXCEPT ![x] = [Account(runner[x]) EXCEPT !.active = runner[x].active - 1]]
  /\ UNCHANGED <<now, latest, history, task, epochs, snaps, stored, births>>

\* observe_eval_batch, or a merged batch of the sampler.
Observe(r) == [r EXCEPT !.count = @ + 1, !.window = @ + 1, !.observed = @ + 1, !.task = task]

Complete(x) ==
  /\ runner[x].up /\ runner[x].count < MaxCount
  /\ runner' = [runner EXCEPT ![x] = Observe(@)]
  /\ UNCHANGED <<now, latest, history, task, epochs, snaps, stored, births>>

(***************************************************************************)
(* Reports                                                                 *)
(***************************************************************************)
\* The identity a report carries; an idle worker reports the run's active task.
Row(x, r) == [epoch |-> r.epoch, task |-> task, at |-> now, count |-> r.count,
              elapsed |-> now - r.started, busy |-> r.occupied, window |-> r.window]

\* snapshot_and_reset
ResetWindow(r) == [r EXCEPT !.window = 0]
Failed(r) == [r EXCEPT !.up = FALSE, !.window = 0]

\* flush_performance_snapshot: the window is taken before the report is stored.
Publish(x) ==
  /\ runner[x].up
  /\ \E r \in {Account(runner[x])} :
       /\ runner' = [runner EXCEPT ![x] = ResetWindow(r)]
       /\ history' = IF MaxReports = 0 THEN history ELSE [history EXCEPT ![x] = Append(@, Row(x, r))]
       /\ latest' = [latest EXCEPT ![x] = Row(x, r)]
  /\ MaxReports > 0 => Len(history[x]) < MaxReports
  /\ latest[x] # None => latest[x].at < now      \* the report interval
  /\ UNCHANGED <<now, task, epochs, snaps, stored, births>>

\* The store refuses the report, or its second statement after the history has the row: the
\* window is gone and the runner fails.
PublishFails(x) ==
  /\ runner[x].up
  /\ runner' = [runner EXCEPT ![x] = Failed(@)]
  /\ \/ history' = history
     \/ /\ Len(history[x]) < MaxReports
        /\ history' = [history EXCEPT ![x] = Append(@, Row(x, Account(runner[x])))]
  /\ UNCHANGED <<now, latest, task, epochs, snaps, stored, births>>

\* A runner is started on the node again; the sampler resumes from a checkpoint, and recovery
\* sets the run's counter to what that holds.
Restart(x) ==
  /\ epochs < MaxEpochs /\ epochs' = epochs + 1
  /\ \E c \in IF x = Sampler THEN 0 .. runner[x].count ELSE {0} :
       /\ runner' = [runner EXCEPT ![x] = Fresh(epochs', c)]
       /\ stored' = IF x = Sampler THEN c ELSE stored
  /\ births' = [births EXCEPT ![x] = @ \cup {now}]
  /\ UNCHANGED <<now, latest, history, task, snaps>>

\* flush_progress_sync
Persist ==
  /\ runner[Sampler].up /\ stored' = runner[Sampler].count
  /\ UNCHANGED <<now, runner, latest, history, task, epochs, snaps, births>>

NewTask ==
  /\ task < MaxTasks /\ task' = task + 1
  /\ UNCHANGED <<now, runner, latest, history, epochs, snaps, stored, births>>

Advance ==
  /\ now < MaxTime /\ now' = now + 1
  /\ runner' = [x \in Workers |->
       [runner[x] EXCEPT !.busy = @ + (IF runner[x].up /\ runner[x].active > 0 THEN 1 ELSE 0)]]
  /\ UNCHANGED <<latest, history, task, epochs, snaps, stored, births>>

(***************************************************************************)
(* The panels: differences of consecutive reports of one identity          *)
(***************************************************************************)
SameIdentity(a, b) == a.epoch = b.epoch /\ a.task = b.task

\* Graphs::observe: neighbours of the rows it is fed, of one identity.
IntervalsOf(rows) ==
  {<<rows[i], rows[i + 1]>> : i \in {j \in 1 .. Len(rows) - 1 :
      SameIdentity(rows[j], rows[j + 1]) /\ rows[j].at < rows[j + 1].at}}
Intervals(x) == IntervalsOf(history[x])
Overlapping(ivs, from, to) == {i \in ivs : i[2].at > from /\ i[1].at < to}

\* load: the rows of the selected range and, to keep the intervals at its edges, the last row
\* before it and the first after it.
Loaded(x, from, to) ==
  LET before == SelectSeq(history[x], LAMBDA r : r.at < from)
      after  == SelectSeq(history[x], LAMBDA r : r.at > to)
      inside == SelectSeq(history[x], LAMBDA r : from <= r.at /\ r.at <= to)
  IN  (IF before = <<>> THEN <<>> ELSE <<Last(before)>>) \o inside
        \o (IF after = <<>> THEN <<>> ELSE <<Head(after)>>)

\* Interval::delta and busy_percent: None when a counter went backwards, or more was busy than elapsed.
Delta(i, f) == IF i[2][f] >= i[1][f] THEN i[2][f] - i[1][f] ELSE None
Percent(i) ==
  LET seconds == Delta(i, "elapsed")
      busy    == Delta(i, "busy")
  IN  IF seconds = None \/ busy = None \/ Delta(i, "count") = None THEN None
      ELSE IF seconds = 0 \/ busy > seconds THEN None ELSE (100 * busy) \div seconds

(***************************************************************************)
(* measure: several snapshots, then a verdict                              *)
(***************************************************************************)
Snapshot == [at |-> now, task |-> task, accepted |-> stored,
             live |-> {x \in Workers : runner[x].up}, rows |-> latest]

TakeSnapshot ==
  /\ Len(snaps) < MaxSnaps
  /\ snaps # <<>> => Last(snaps).at < now
  /\ snaps' = Append(snaps, Snapshot)
  /\ UNCHANGED <<now, runner, latest, history, task, epochs, stored, births>>

\* coverage_issues: a worker not settled, without a report, with another task's, or a stale one.
Covered(s) ==
  /\ s.live = Workers /\ Evaluators # {}
  /\ \A x \in Workers : /\ s.rows[x] # None
                        /\ s.rows[x].task = s.task
                        /\ s.at - s.rows[x].at <= MaxAge

EpochOf(s, x) == IF s.rows[x] = None THEN None ELSE s.rows[x].epoch
EpochsAny(a, b) == TRUE   \* mutant: incarnations are not compared
SameEpochs(a, b) == \A x \in Workers : EpochOf(a, x) = EpochOf(b, x)

\* summarize: every snapshot covered, and no pair of neighbours differs in task, fleet or epochs.
Valid ==
  /\ Len(snaps) >= 2
  /\ \A i \in DOMAIN snaps : Covered(snaps[i])
  /\ \A i \in 1 .. Len(snaps) - 1 :
       /\ snaps[i].task = snaps[i + 1].task
       /\ SameEpochs(snaps[i], snaps[i + 1])
       /\ snaps[i].accepted <= snaps[i + 1].accepted

Measured(x) == Last(snaps).rows[x].count - Head(snaps).rows[x].count

Init ==
  /\ now = 0 /\ task = 1 /\ epochs = 0 /\ snaps = <<>> /\ stored = 0
  /\ runner = [x \in Workers |-> [Fresh(0, 0) EXCEPT !.epoch = 0]]
  /\ latest = [x \in Workers |-> None] /\ history = [x \in Workers |-> <<>>]
  /\ births = [x \in Workers |-> {}]

Next ==
  \/ Advance \/ NewTask \/ TakeSnapshot \/ Persist
  \/ \E x \in Workers : \/ StartOp(x) \/ EndOp(x) \/ Complete(x)
                        \/ Publish(x) \/ PublishFails(x) \/ Restart(x)

Spec == Init /\ [][Next]_vars

(***************************************************************************)
(* Properties                                                              *)
(***************************************************************************)
\* Type of the variables.
TypeOK ==
  /\ now \in 0 .. MaxTime /\ task \in 1 .. MaxTasks /\ epochs \in 0 .. MaxEpochs
  /\ \A x \in Workers : /\ runner[x].active \in 0 .. MaxOps
                        /\ runner[x].accounted \in runner[x].started .. now
                        /\ {runner[x].count, runner[x].window, runner[x].occupied} \subseteq Nat
  /\ Len(snaps) <= MaxSnaps

\* However operations overlap and whenever reports cut through them, the occupied time is the
\* wall time during which something of the lane was running.
BusyExact ==
  \A x \in Workers : runner[x].up => Account(runner[x]).occupied = runner[x].busy

\* Differences never fail their own checks: between two reports of one identity counters do not
\* go back (the sampler's goes back at a restart) and no more time was busy than passed.
NeverInvalid == \A x \in Workers : \A i \in Intervals(x) : Percent(i) # None

\* Zooming neither loses nor invents an interval: what is fed for a range yields the intervals of
\* the whole history that overlap it, wherever the edges fall between reports.
ZoomExact ==
  \A x \in Workers : \A from \in 0 .. now : \A to \in from + 1 .. now :
    Overlapping(IntervalsOf(Loaded(x, from, to)), from, to) = Overlapping(Intervals(x), from, to)

\* Window metrics cover each observation once: what the reports of a living runner's epoch hold
\* and what its open window holds is what it observed.
WindowsCoverOnce ==
  \A x \in Workers : runner[x].up =>
    LET own == SelectSeq(history[x], LAMBDA r : r.epoch = runner[x].epoch)
    IN  FoldSeq(LAMBDA r, s : s + r.window, runner[x].window, own) = runner[x].observed

\* A measurement that calls itself valid compares one incarnation of each worker: none
\* restarted after its first snapshot and before the last report it used; and what it
\* attributes to the interval is no less than nothing.
ValidMeansSteady ==
  Valid =>
    \A x \in Workers :
      /\ Measured(x) >= 0
      /\ ~\E b \in births[x] : Head(snaps).at < b /\ b < Last(snaps).rows[x].at
=============================================================================
