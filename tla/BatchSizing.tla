---------------------------- MODULE BatchSizing ----------------------------
(***************************************************************************)
(* How many samples the sampler puts in an evaluator batch.                *)
(*                                                                         *)
(* The size follows the measured cost of a sample so that a batch takes    *)
(* about target_batch_eval_ms, within a dead band and with a pause after   *)
(* each change; a fixed size switches that off.  An operator stores a      *)
(* tuning with the task at any time; the runner picks it up on a later     *)
(* tick, and a runner started later takes it at its start together with    *)
(* the size of its checkpoint.  A training window further caps the size so *)
(* that every evaluator gets work.                                         *)
(*                                                                         *)
(* Costs are small integers.  The smoothing of rolling_metric.rs moves the *)
(* mean part of the way to the observed cost: any value nearer to it.      *)
(***************************************************************************)
EXTENDS Integers, FiniteSets

CONSTANTS MinSize,      \* MIN_BATCH_SIZE
          Cooldown,     \* DEFAULT_BATCH_SIZE_COOLDOWN_TICKS
          Deadband,     \* DEFAULT_BATCH_SIZE_DEADBAND_RATIO, in percent
          Base,         \* the run's queue configuration: fixed, target, max
          Tunings,      \* tunings an operator may store; a field None leaves the base's
          Costs,        \* costs of a sample
          Windows,      \* sizes of training windows
          MaxEvaluators, MaxEdits, MaxChanges, MaxWindows,   \* bounds
          None

SizesAssumption ==
  /\ MinSize \in Nat \ {0} /\ Cooldown \in Nat /\ Deadband \in 0 .. 99
  /\ None \notin Nat
  /\ Base \in [fixed : Nat \cup {None}, target : Nat, max : Nat]
  /\ Tunings \subseteq [fixed : Nat \cup {None}, target : Nat \cup {None}, max : Nat \cup {None}] \cup {None}
  /\ Costs \subseteq Nat \ {0} /\ Windows \subseteq Nat /\ MaxEvaluators \in Nat

VARIABLES stored,     \* the task's queue_tuning in the database
          applied,    \* the runner's copy
          config,     \* the queue's configuration
          size, pause, mean,
          training,   \* TrainingBatchSizing
          remaining,  \* samples the training window still wants
          evaluators, \* active evaluator nodes
          saved,      \* batch_size_current of the checkpoint
          cost,       \* what a sample costs now
          edits, changes, windows
vars == <<stored, applied, config, size, pause, mean, training, remaining, evaluators, saved,
          cost, edits, changes, windows>>

Larger(a, b)  == IF a > b THEN a ELSE b
Smaller(a, b) == IF a < b THEN a ELSE b
Clamp(n, lo, hi) == Larger(lo, Smaller(n, hi))
Round(a, b) == (2 * a + b) \div (2 * b)
CeilDiv(a, b) == (a + b - 1) \div b

(***************************************************************************)
(* Configuration                                                           *)
(***************************************************************************)
\* SamplerQueueTuning::validate
ValidTuning(t) ==
  t # None =>
    /\ t.target # None => t.target > 0
    /\ t.max # None => t.max > 0
    /\ t.fixed # None => t.fixed > 0
    /\ t.fixed # None /\ t.max # None => t.fixed <= t.max

\* apply_tuning: a field that is set replaces the base's.
Effective(t) ==
  IF t = None THEN Base
  ELSE [f \in DOMAIN Base |-> IF t[f] = None THEN Base[f] ELSE t[f]]
\* refresh_live_queue_tuning starts from the run's configuration each time.
Reconfigured(t) == Effective(t)

MaxOf(c) == Larger(c.max, MinSize)
\* new, apply_config and the fixed branch of tune_batch_size
SizeFor(c, n) == Clamp(IF c.fixed # None THEN c.fixed ELSE n, MinSize, MaxOf(c))

NoTraining == [previous |-> None, evaluators |-> 0, cap |-> None]

\* update_task_queue_tuning
SetTuning(t) ==
  /\ edits < MaxEdits /\ edits' = edits + 1
  /\ ValidTuning(t)
  /\ stored' = t
  /\ UNCHANGED <<applied, config, size, pause, mean, training, remaining, evaluators, saved,
                 cost, changes, windows>>

\* refresh_live_queue_tuning
Refresh ==
  /\ stored # applied
  /\ applied' = stored
  /\ config' = Reconfigured(stored)
  /\ size' = SizeFor(config', size) /\ pause' = 0
  /\ UNCHANGED <<stored, mean, training, remaining, evaluators, saved, cost, edits, changes, windows>>

Save ==
  /\ saved' = size
  /\ UNCHANGED <<stored, applied, config, size, pause, mean, training, remaining, evaluators, cost,
                 edits, changes, windows>>

\* The node starts a runner for the task: the stored tuning and the checkpoint's size.
RestartLoose(c) == saved     \* mutant: the restored size is taken as it is
Restored(c) == SizeFor(c, saved)
Restart ==
  /\ changes < MaxChanges /\ changes' = changes + 1
  /\ applied' = stored
  /\ config' = Effective(stored)
  /\ size' = Restored(config') /\ pause' = 0 /\ mean' = None /\ training' = NoTraining
  /\ UNCHANGED <<stored, remaining, evaluators, saved, cost, edits, windows>>

(***************************************************************************)
(* Adaptation                                                              *)
(***************************************************************************)
\* RollingMetric::observe_batch: the first observation, then part of the way towards each.
Smoothed(m, c) ==
  IF m = None THEN {c}
  ELSE IF m < c THEN m + 1 .. c ELSE IF m > c THEN c .. m - 1 ELSE {c}

InBand(n, c, t) == 100 * t >= (100 - Deadband) * c * n /\ 100 * t <= (100 + Deadband) * c * n
NextSize(n, c, t) == Clamp(Round(t, c), MinSize, MaxOf(config))

\* observe_completed_eval_batch and tune_batch_size
Observe ==
  /\ \E m \in Smoothed(mean, cost) :
       /\ mean' = m
       /\ \/ /\ config.fixed # None
             /\ size' = SizeFor(config, size) /\ pause' = pause
          \/ /\ config.fixed = None /\ pause > 0
             /\ pause' = pause - 1 /\ size' = size
          \/ /\ config.fixed = None /\ pause = 0
             /\ \E n \in {IF InBand(size, m, config.target) THEN size
                          ELSE NextSize(size, m, config.target)} :
                  size' = n /\ pause' = IF n = size THEN 0 ELSE Cooldown
  /\ UNCHANGED <<stored, applied, config, training, remaining, evaluators, saved, cost, edits,
                 changes, windows>>

(***************************************************************************)
(* Training windows                                                        *)
(***************************************************************************)
\* TrainingBatchSizing::batch_size: what it becomes when asked.
Sizing(tr, left, ev) ==
  IF left > 0 /\ ev > 0
    THEN [previous |-> left, evaluators |-> ev,
          cap |-> IF tr.previous = None \/ left > tr.previous \/ tr.evaluators # ev
                    THEN Larger(CeilDiv(left, 4 * ev), MinSize) ELSE tr.cap]
  ELSE [tr EXCEPT !.previous = None, !.cap = None]

Chunk(tr) == IF tr.cap = None THEN size ELSE Smaller(size, tr.cap)

\* produce: one batch is drawn and ingested, never past the window.
Produce ==
  /\ evaluators > 0 /\ remaining > 0
  /\ \E tr \in {Sizing(training, remaining, evaluators)} :
       \E n \in {Smaller(Chunk(tr), remaining)} :
         /\ remaining' = remaining - n
         /\ training' = [tr EXCEPT !.previous = @ - n]
  /\ UNCHANGED <<stored, applied, config, size, pause, mean, evaluators, saved, cost, edits,
                 changes, windows>>

\* The sampler trained on the window and opens the next, possibly right when the last one ended.
OpenWindow(w) ==
  /\ remaining = 0 /\ windows < MaxWindows /\ windows' = windows + 1
  /\ remaining' = w
  /\ UNCHANGED <<stored, applied, config, size, pause, mean, training, evaluators, saved, cost,
                 edits, changes>>

\* Evaluators come and go; samples get cheaper or dearer.
Environment ==
  /\ changes < MaxChanges /\ changes' = changes + 1
  /\ \/ evaluators' \in (0 .. MaxEvaluators) \ {evaluators} /\ cost' = cost
     \/ cost' \in Costs \ {cost} /\ evaluators' = evaluators
  /\ UNCHANGED <<stored, applied, config, size, pause, mean, training, remaining, saved, edits, windows>>

Init ==
  /\ stored \in Tunings /\ applied = stored /\ config = Effective(stored)
  /\ size = SizeFor(config, MinSize) /\ saved = size
  /\ pause = 0 /\ mean = None /\ training = NoTraining /\ remaining = 0
  /\ evaluators = 1 /\ cost \in Costs /\ edits = 0 /\ changes = 0 /\ windows = 0

Next ==
  \/ \E t \in Tunings : SetTuning(t)
  \/ Refresh \/ Save \/ Restart \/ Observe \/ Produce \/ Environment
  \/ \E w \in Windows : OpenWindow(w)

Spec == Init /\ [][Next]_vars
(***************************************************************************)
(* Properties                                                              *)
(***************************************************************************)
\* Type of the variables.
TypeOK ==
  /\ stored \in Tunings /\ applied \in Tunings
  /\ size \in Nat \ {0} /\ saved \in Nat \ {0} /\ pause \in 0 .. Cooldown
  /\ mean # None => \E a, b \in Costs : a <= mean /\ mean <= b
  /\ remaining \in Nat
  /\ training.previous # None => training.previous \in Nat /\ training.cap \in Nat \ {0}

\* Through tunings, restarts and adaptation the size respects the configuration in force:
\* between the minimum and the maximum, and the fixed size exactly while one is set.
SizeRespectsConfig ==
  /\ config = Effective(applied)
  /\ size \in MinSize .. MaxOf(config)
  /\ config.fixed # None => size = Clamp(config.fixed, MinSize, MaxOf(config))

\* While a window lasts and the evaluators stay, the cap does not change: chunks do not shrink as
\* the window empties.
CapSteady ==
  (/\ remaining' < remaining
   /\ training.previous = remaining /\ training.evaluators = evaluators)
  => training'.cap = training.cap

\* A chunk taken at the start of a window leaves work for every evaluator: unless it is of the
\* minimum size, four of them per evaluator fit in the window.
ChunkShared ==
  (remaining' < remaining /\ training.previous \in {None, 0})
  => \/ remaining - remaining' <= MinSize
     \/ (remaining - remaining' - 1) * 4 * evaluators < remaining

\* Sizes as a whole: the configuration is respected, windows have one cap and room for everyone.
SizesRespected == [](TypeOK /\ SizeRespectsConfig) /\ [][CapSteady /\ ChunkShared]_vars
=============================================================================
