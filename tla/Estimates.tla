----------------------------- MODULE Estimates -----------------------------
(***************************************************************************)
(* From evaluated samples to an estimate.  An evaluator strips the stratum *)
(* prefix from every point, classifies its values, masks the ones that     *)
(* fell into another stratum, accumulates the batch, and the sampler       *)
(* merges the batch results, in order, into the accumulator of the stage.  *)
(* Training stages use pooled statistics; a stratified stage freezes the   *)
(* sampler's stratum masses in a plan that batches and checkpoints carry.  *)
(*                                                                         *)
(* Numbers are integers, and one beyond MaxFloat stands for a value that   *)
(* is not finite.  A probability is a numerator over Den.  Means are kept  *)
(* multiplied by Scale and central moments by Scale squared, so that the   *)
(* divisions of the parallel updates are exact up to four samples.         *)
(***************************************************************************)
EXTENDS Integers, Sequences, FiniteSets, SequencesExt

CONSTANTS None,          \* nothing, or an error
          Kinds,         \* accumulator configurations
          Points,        \* points a sampler may draw: discrete, weight, value
          Partition,     \* the complete prefixes, in order, and their centres
          Masses,        \* tables the sampler may answer with (<<>>: unavailable)
          Den,           \* what the masses are divided by
          MaxFloat, MaxBins, ReadyAttempts, ReadyMatches,
          Items,         \* discrete projections: dims, fixed
          MaxSamples,    \* bound: samples of a behaviour
          MaxQueue,      \* bound: batches produced ahead
          MaxStages,     \* bound: tasks
          MaxFaults      \* bound: crashes

VARIABLES config,   \* kind of accumulator
          stage,    \* the active task: estimator, partition or None, status
          plan,     \* evaluation_plan of the runner
          acc,      \* observable_state of the runner
          queue,    \* batches produced and not merged, each with its plan
          merged,   \* history: the samples in acc, with their plan
          trained,  \* history: the values given to the sampler
          base,     \* what the stage started from: acc, merged, fresh
          saved,    \* the checkpoint
          masses,   \* discrete_mass of the sampler now
          drawn, plans, faults
vars == <<config, stage, plan, acc, queue, merged, trained, base, saved, masses, drawn, plans, faults>>


Scale == 12
Components == 1 .. 2
Abs(x) == IF x < 0 THEN -x ELSE x
Finite(x) == Abs(x) <= MaxFloat
Norm(v) == CHOOSE n \in 0 .. Abs(v[1]) + Abs(v[2]) : n * n = v[1] * v[1] + v[2] * v[2]
SumOver(f(_), s) == FoldLeft(LAMBDA n, x : n + f(x), 0, s)
Labels == DOMAIN Partition

-----------------------------------------------------------------------------
(* Statistics of one stream                                                *)

Plain == [count |-> 0, sums |-> [i \in 1 .. 5 |-> 0], positive |-> None, negative |-> None]
NewScalar == [plain |-> Plain, bins |-> <<>>, overflow |-> 0]

\* sums_with_sample
Powers(x) == <<x, Abs(x), x * x, x * x * x, x * x * x * x>>
AddSums(a, b) == [i \in 1 .. 5 |-> a[i] + b[i]]
CheckedSums(a, b) == \A i \in 1 .. 5 : Finite(a[i]) /\ Finite(b[i]) /\ Finite(a[i] + b[i])

\* The candidate replaces what the slot holds.
Better(slot, x) == slot = None \/ Abs(x) > Abs(slot.value)

Extreme(slot, x, at) == IF Better(slot, x) THEN [value |-> x, at |-> at] ELSE slot

\* add_plain_sample: the sums are checked before anything is changed.
AddPlain(p, x, at) ==
  IF p = None \/ ~CheckedSums(p.sums, Powers(x)) THEN None
  ELSE [count |-> p.count + 1, sums |-> AddSums(p.sums, Powers(x)),
        positive |-> IF x >= 0 THEN Extreme(p.positive, x, at) ELSE p.positive,
        negative |-> IF x < 0 THEN Extreme(p.negative, x, at) ELSE p.negative]

MergeSlot(a, b) == IF b # None /\ Better(a, b.value) THEN b ELSE a

\* merge_plain
MergePlain(a, b) ==
  [count |-> a.count + b.count, sums |-> AddSums(a.sums, b.sums),
   positive |-> MergeSlot(a.positive, b.positive), negative |-> MergeSlot(a.negative, b.negative)]

\* upsert_scalar_discrete_bin: beyond the limit a new bin is only counted.
Upsert(s, key, x, at) ==
  IF key \notin DOMAIN s.bins /\ Cardinality(DOMAIN s.bins) >= MaxBins
  THEN [s EXCEPT !.overflow = @ + 1]
  ELSE [s EXCEPT !.bins = [k \in DOMAIN @ \cup {key} |->
         IF k # key THEN @[k] ELSE AddPlain(IF k \in DOMAIN @ THEN @[k] ELSE Plain, x, at)]]

\* add_sample_with_details
AddSample(s, key, x, at) ==
  IF s = None \/ ~CheckedSums(s.plain.sums, Powers(x)) THEN None
  ELSE [(IF key = <<>> THEN s ELSE Upsert(s, key, x, at)) EXCEPT !.plain = AddPlain(@, x, at)]

\* validate_merge, then merge: bins are united, whatever their number.
MergeScalar(a, b) ==
  IF ~CheckedSums(a.plain.sums, b.plain.sums)
     \/ \E k \in DOMAIN a.bins \cap DOMAIN b.bins : ~CheckedSums(a.bins[k].sums, b.bins[k].sums)
  THEN None
  ELSE [plain |-> MergePlain(a.plain, b.plain), overflow |-> a.overflow + b.overflow,
        bins |-> [k \in DOMAIN a.bins \cup DOMAIN b.bins |->
                    IF k \notin DOMAIN a.bins THEN b.bins[k]
                    ELSE IF k \notin DOMAIN b.bins THEN a.bins[k]
                    ELSE MergePlain(a.bins[k], b.bins[k])]]

-----------------------------------------------------------------------------
(* Partition                                                               *)

Distance(v, c) == (v[1] - c[1]) * (v[1] - c[1]) + (v[2] - c[2]) * (v[2] - c[2])

\* classify: the nearest centre, the first of the nearest.
Classify(v) ==
  CHOOSE k \in Labels : \A j \in Labels :
    \/ Distance(v, Partition[k].center) < Distance(v, Partition[j].center)
    \/ Distance(v, Partition[k].center) = Distance(v, Partition[j].center) /\ k <= j

Starts(prefix, s) == Len(prefix) <= Len(s) /\ SubSeq(s, 1, Len(prefix)) = prefix
Requested(sample) == {k \in Labels : Starts(Partition[k].prefix, sample.discrete)}

\* integrand_batch: the label of the point's prefix and what is left behind it.
Stripped(sample, p) ==
  IF p = None THEN [label |-> 0, key |-> sample.discrete]
  ELSE LET k == CHOOSE k \in Requested(sample) : TRUE
       IN [label |-> k, key |-> SubSeq(sample.discrete, Len(Partition[k].prefix) + 1, Len(sample.discrete))]

Matched(sample, p) == p = None \/ Stripped(sample, p).label = Classify(sample.value)

\* The values of a sample that missed its stratum count as zero.
Gated(sample, p) == IF Matched(sample, p) THEN sample.value ELSE <<0, 0>>

-----------------------------------------------------------------------------
(* Accumulators                                                            *)

Streams == IF config = "component" THEN Components ELSE Components \cup {3}
Stream(v, i) == IF i \in Components THEN v[i] ELSE IF i = 3 THEN Norm(v) ELSE Norm(v) * Norm(v)
Projection == IF config = "component" THEN 1 ELSE 3
NewVector == [kind |-> "vector", parts |-> [i \in Streams |-> NewScalar], diag |-> None]
VectorCount(a) == a.parts[Projection].plain.count

\* ingest_vector_with_details: components in order, the norm last.
IngestVector(a, sample, p) ==
  LET next == [i \in Streams |-> AddSample(a.parts[i], Stripped(sample, p).key,
                                            Stream(Gated(sample, p), i) * sample.weight, sample.at)]
  IN IF a = None \/ \E i \in Streams : next[i] = None THEN None ELSE [a EXCEPT !.parts = next]

\* partition_diagnostics
Diagnostics(samples, p, training) ==
  IF p = None THEN None
  ELSE [attempts |-> [k \in Labels |-> Len(SelectSeq(samples, LAMBDA s : Stripped(s, p).label = k))],
        matches |-> [k \in Labels |-> Len(SelectSeq(samples, LAMBDA s : Stripped(s, p).label = k /\ Matched(s, p)))],
        feedback |-> IF training THEN Len(samples) ELSE 0]

MergeDiagnostics(a, b) ==
  IF b = None THEN a ELSE IF a = None THEN b
  ELSE [attempts |-> [k \in Labels |-> a.attempts[k] + b.attempts[k]],
        matches |-> [k \in Labels |-> a.matches[k] + b.matches[k]], feedback |-> a.feedback + b.feedback]

\* VectorAccumulatorState::merge: validated as a whole, then every stream.
MergeVector(a, b) ==
  LET parts == [i \in Streams |-> MergeScalar(a.parts[i], b.parts[i])] IN
  IF \/ VectorCount(a) > 0 /\ VectorCount(b) > 0 /\ (a.diag = None) # (b.diag = None)
     \/ \E i \in Streams : parts[i] = None
  THEN None
  ELSE [a EXCEPT !.parts = parts, !.diag = MergeDiagnostics(@, b.diag)]

\* GammaLoopAccumulatorState: an estimate, native histograms, the squared norm.
NewGammaloop == [kind |-> "gammaloop", est |-> NewVector, histogram |-> None, square |-> Plain]

\* merge_in_place: the first batch brings the schema of the histograms.
MergeGammaloop(a, b) ==
  IF a.histogram = None /\ VectorCount(a.est) = 0 THEN b
  ELSE LET est == MergeVector(a.est, b.est)
       IN IF est = None \/ ~CheckedSums(a.square.sums, b.square.sums) THEN None
          ELSE [a EXCEPT !.est = est, !.histogram = @ + b.histogram, !.square = MergePlain(@, b.square)]

Width == CASE config = "component" -> 2 [] config = "norm" -> 3 [] OTHER -> 4

NewMoments == [attempts |-> 0, matches |-> 0, mean |-> [i \in 1 .. Width |-> 0],
               m2 |-> [i \in 1 .. Width |-> [j \in 1 .. Width |-> 0]],
               extrema |-> [i \in 1 .. Width |-> [positive |-> None, negative |-> None]]]

FiniteMoments(m) == \A i \in 1 .. Width : /\ Abs(m.mean[i]) <= MaxFloat * Scale
                                          /\ \A j \in 1 .. Width : Abs(m.m2[i][j]) <= MaxFloat * Scale * Scale

\* StratumMoments::push: one Welford step.
PushMoments(m, x, matched, at) ==
  LET n == m.attempts + 1
      delta == [i \in 1 .. Width |-> Scale * x[i] - m.mean[i]]
      next == [i \in 1 .. Width |-> m.mean[i] + (delta[i] \div n)]
  IN [attempts |-> n, matches |-> m.matches + (IF matched THEN 1 ELSE 0), mean |-> next,
      m2 |-> [i \in 1 .. Width |-> [j \in 1 .. Width |-> m.m2[i][j] + delta[i] * (Scale * x[j] - next[j])]],
      extrema |-> [i \in 1 .. Width |->
        [positive |-> IF x[i] >= 0 THEN Extreme(m.extrema[i].positive, x[i], at) ELSE m.extrema[i].positive,
         negative |-> IF x[i] < 0 THEN Extreme(m.extrema[i].negative, x[i], at) ELSE m.extrema[i].negative]]]

\* Mutant: the spread between the two means is forgotten.
MergeMomentsPlain(a, b) ==
  IF b.attempts = 0 THEN a ELSE IF a.attempts = 0 THEN b
  ELSE LET n == a.attempts + b.attempts
       IN [a EXCEPT !.attempts = n, !.matches = @ + b.matches,
             !.mean = [i \in 1 .. Width |-> @[i] + (((b.mean[i] - @[i]) * b.attempts) \div n)],
             !.m2 = [i \in 1 .. Width |-> [j \in 1 .. Width |-> @[i][j] + b.m2[i][j]]]]

\* StratumMoments::merge: means and central moments of two groups combined.
MergeMoments(a, b) ==
  IF b.attempts = 0 THEN a ELSE IF a.attempts = 0 THEN b
  ELSE LET n == a.attempts + b.attempts
           delta == [i \in 1 .. Width |-> b.mean[i] - a.mean[i]]
       IN [attempts |-> n, matches |-> a.matches + b.matches,
           mean |-> [i \in 1 .. Width |-> a.mean[i] + ((delta[i] * b.attempts) \div n)],
           m2 |-> [i \in 1 .. Width |-> [j \in 1 .. Width |->
                     a.m2[i][j] + b.m2[i][j] + ((delta[i] * delta[j] * a.attempts * b.attempts) \div n)]],
           extrema |-> [i \in 1 .. Width |->
                     [positive |-> MergeSlot(a.extrema[i].positive, b.extrema[i].positive),
                      negative |-> MergeSlot(a.extrema[i].negative, b.extrema[i].negative)]]]

NewStratified(p) == [kind |-> "stratified", plan |-> p, strata |-> [k \in Labels |-> NewMoments],
                     pooled |-> IF config = "gammaloop" THEN NewGammaloop ELSE None]

\* push_with_diagnostics: the contribution of a sample is p W F.
Contribution(sample, p) ==
  [i \in 1 .. Width |-> Stream(Gated(sample, p), i) * sample.weight * p.probabilities[Stripped(sample, p).label]]

PushStratified(a, sample, p) ==
  LET x == Contribution(sample, p)
      next == IF a = None THEN None
              ELSE [a EXCEPT !.strata[Stripped(sample, p).label] = PushMoments(@, x, Matched(sample, p), sample.at)]
  IN IF next = None \/ ~FiniteMoments(next.strata[Stripped(sample, p).label]) THEN None ELSE next

\* StratifiedAccumulatorState::merge: a copy is merged, checked and only then kept.
MergeStratified(a, b) ==
  LET strata == [k \in Labels |-> MergeMoments(a.strata[k], b.strata[k])]
      pooled == IF a.pooled = None THEN None ELSE MergeGammaloop(a.pooled, b.pooled)
  IN IF a.plan # b.plan \/ (a.pooled # None /\ pooled = None) \/ \E k \in Labels : ~FiniteMoments(strata[k])
     THEN None
     ELSE [a EXCEPT !.strata = strata, !.pooled = pooled]

\* AccumulatorState::from_config
FromConfig == CASE config \in {"component", "norm"} -> NewVector
                [] config = "gammaloop" -> NewGammaloop
                [] config = "full" -> [kind |-> "full", rows |-> <<>>]
                [] OTHER -> [kind |-> "empty"]

\* AccumulatorState::merge
MergeState(a, b) ==
  IF a.kind # b.kind THEN None
  ELSE CASE a.kind = "vector" -> MergeVector(a, b)
         [] a.kind = "gammaloop" -> MergeGammaloop(a, b)
         [] a.kind = "stratified" -> MergeStratified(a, b)
         [] a.kind = "full" -> [a EXCEPT !.rows = @ \o b.rows]
         [] OTHER -> a

\* AccumulatorState::sample_count
SampleCount(a) ==
  CASE a.kind = "vector" -> VectorCount(a)
    [] a.kind = "gammaloop" -> VectorCount(a.est)
    [] a.kind = "stratified" -> FoldLeft(LAMBDA n, m : n + m.attempts, 0, a.strata)
    [] a.kind = "full" -> Len(a.rows)
    [] OTHER -> 0

-----------------------------------------------------------------------------
(* Evaluation of a batch                                                   *)

EvaluateVector(samples, p, training) ==
  LET a == FoldLeft(LAMBDA s, x : IngestVector(s, x, p), NewVector, samples)
  IN IF a = None THEN None ELSE [a EXCEPT !.diag = Diagnostics(samples, p, training)]

\* The state a native evaluator returns: values masked, every draw counted.
EvaluateGammaloop(samples, p, training) ==
  LET est == EvaluateVector(samples, p, training)
      square == FoldLeft(LAMBDA s, x : AddPlain(s, Stream(Gated(x, p), 4) * x.weight, x.at), Plain, samples)
  IN IF est = None \/ square = None THEN None
     ELSE [kind |-> "gammaloop", est |-> est, histogram |-> Len(samples), square |-> square]

EvaluateStratified(samples, p, training) ==
  LET a == FoldLeft(LAMBDA s, x : PushStratified(s, x, p), NewStratified(p), samples)
      pooled == EvaluateGammaloop(samples, p, training)
  IN IF a = None \/ (config = "gammaloop" /\ pooled = None) THEN None
     ELSE IF config = "gammaloop" THEN [a EXCEPT !.pooled = pooled] ELSE a

\* evaluate_claim, accumulate_values, finish_gammaloop: the result of a batch,
\* or None for an error, which drops all of it.
Evaluate(samples, p, training) ==
  IF p # None /\ \E i \in DOMAIN samples : Requested(samples[i]) = {} THEN None
  ELSE CASE p # None /\ p.probabilities # None -> EvaluateStratified(samples, p, training)
         [] config \in {"component", "norm"} -> EvaluateVector(samples, p, training)
         [] config = "gammaloop" -> EvaluateGammaloop(samples, p, training)
         [] config = "full" -> [kind |-> "full", rows |-> [i \in DOMAIN samples |->
               [j \in Components |-> samples[i].value[j] * samples[i].weight]]]
         [] OTHER -> [kind |-> "empty"]

\* Feedback::values: the weighted projection, zero for a sample that missed.
FeedbackValues(samples, p) ==
  [i \in DOMAIN samples |-> Stream(Gated(samples[i], p), Projection) * samples[i].weight]

\* validate_for_batch: one row for each sample of the batch.
ValidForBatch(result, n) == result.kind \in {"vector", "full", "stratified"} => SampleCount(result) = n

-----------------------------------------------------------------------------
(* Results                                                                 *)

\* uncertainty_ready: every stratum, not the pool.
StrataReady(a) == \A k \in Labels : a.strata[k].attempts >= ReadyAttempts /\ a.strata[k].matches >= ReadyMatches

\* estimate_for_stop: there is a mean with an uncertainty.
HasEstimate(a) ==
  CASE a.kind = "stratified" -> (\A k \in Labels : a.strata[k].attempts > 0) /\ StrataReady(a)
    [] a.kind = "vector" -> VectorCount(a) >= 2
    [] a.kind = "gammaloop" -> VectorCount(a.est) >= 2
    [] OTHER -> FALSE

\* basic_estimates: every stratum scaled back by 1/p, then pooled.
BasicEstimates(a) ==
  FoldLeft(LAMBDA m, k :
             MergeMoments(m, [a.strata[k] EXCEPT
               !.mean = [i \in 1 .. Width |-> @[i] \div a.plan.probabilities[k]],
               !.m2 = [i \in 1 .. Width |-> [j \in 1 .. Width |->
                        (@[i][j] \div a.plan.probabilities[k]) \div a.plan.probabilities[k]]]]),
           NewMoments, [k \in Labels |-> k])

\* matches_fixed_dims, projection_key
Projects(item, key) == /\ \A d \in DOMAIN item.fixed : d \in DOMAIN key /\ key[d] = item.fixed[d]
                       /\ \A i \in DOMAIN item.dims : item.dims[i] \in DOMAIN key
ProjectedKey(item, key) == [i \in DOMAIN item.dims |-> key[item.dims[i]]]

\* scalar_projected_bins: bins with the same key on the chosen dimensions are
\* merged.
ProjectedBins(item, bins) ==
  LET keys == {k \in DOMAIN bins : Projects(item, k)}
  IN [q \in {ProjectedKey(item, k) : k \in keys} |->
        FoldLeft(LAMBDA p, k : MergePlain(p, bins[k]), Plain,
                 SetToSeq({k \in keys : ProjectedKey(item, k) = q}))]

-----------------------------------------------------------------------------
(* Stages                                                                  *)

\* StratificationPlan::validate: complete, positive and normalized.
ValidMasses(t) == Len(t) = Len(Partition) /\ (\A k \in DOMAIN t : t[k] > 0) /\ SumOver(LAMBDA x : x, t) = Den

\* The plan of a restart is the saved one, whatever the sampler says now.
RestoredPlan(a, now) == [plan |-> a.plan, acc |-> a]

\* prepare_estimator: the plan and the accumulator of a runner that starts, or
\* None when the hand-over is refused.
PrepareEstimator(st, a, restoring, fresh, now) ==
  LET stratified == st.estimator = "stratified"
      new == [id |-> plans + 1, probabilities |-> IF stratified THEN now ELSE None]
  IN IF ~st.partitioned
     THEN IF stratified \/ a.kind = "stratified" THEN None ELSE [plan |-> None, acc |-> a]
     ELSE IF config \in {"full", "empty"} THEN None
     ELSE IF a.kind = "stratified"
     THEN IF stratified /\ restoring THEN RestoredPlan(a, now) ELSE None
     ELSE IF stratified /\ (restoring \/ SampleCount(a) # 0 \/ ~fresh \/ ~ValidMasses(now)) THEN None
     ELSE [plan |-> new, acc |-> IF stratified THEN NewStratified(new) ELSE a]

Started(r, from) ==
  IF r = None THEN UNCHANGED <<plan, acc, merged, trained, queue, masses>>
  ELSE /\ plan' = r.plan /\ acc' = r.acc
       /\ merged' = from.merged /\ trained' = from.trained /\ queue' = from.queue /\ masses' = from.masses
Status(r) == IF r = None THEN "failed" ELSE "active"

\* A task is activated: its accumulator is new or that of the stage before.
StartStage(estimator, partitioned, fresh) ==
  LET a == IF fresh THEN FromConfig ELSE acc
      r == PrepareEstimator([estimator |-> estimator, partitioned |-> partitioned], a, FALSE, fresh, masses)
  IN /\ stage.status = "done" /\ plans < MaxStages + faults
     /\ stage' = [estimator |-> estimator, partitioned |-> partitioned, status |-> Status(r)]
     /\ base' = [acc |-> a, merged |-> IF fresh THEN <<>> ELSE merged,
                 trained |-> IF fresh THEN <<>> ELSE trained,
                 queue |-> <<>>, masses |-> masses, fresh |-> fresh]
     /\ Started(r, base')
     /\ saved' = None /\ plans' = plans + 1
     /\ UNCHANGED <<config, drawn, faults>>

Drawn(points) == [i \in DOMAIN points |-> [at |-> drawn + i, discrete |-> points[i].discrete,
                                            weight |-> points[i].weight, value |-> points[i].value]]

\* A batch is produced; it carries the plan of the runner.
Produce(points) ==
  /\ stage.status = "active" /\ drawn + Len(points) <= MaxSamples /\ Len(queue) < MaxQueue
  /\ queue' = Append(queue, [plan |-> plan, samples |-> Drawn(points)])
  /\ drawn' = drawn + Len(points)
  /\ UNCHANGED <<config, stage, plan, acc, merged, trained, base, saved, masses, plans, faults>>

Tagged(batch) == [i \in DOMAIN batch.samples |-> [sample |-> batch.samples[i], plan |-> batch.plan]]

\* The oldest batch is evaluated with its own plan, its result merged and its
\* values given to the sampler; an error of either ends the task.
MergeNext ==
  /\ stage.status \in {"active", "stopping"} /\ queue # <<>>
  /\ \E result \in {Evaluate(Head(queue).samples, Head(queue).plan, TRUE)} :
     \E next \in {IF result = None \/ ~ValidForBatch(result, Len(Head(queue).samples)) THEN None ELSE MergeState(acc, result)} :
       \/ /\ next = None
          /\ stage' = [stage EXCEPT !.status = "failed"]
          /\ UNCHANGED <<acc, queue, merged, trained>>
       \/ /\ next # None
          /\ acc' = next
          /\ queue' = Tail(queue)
          /\ merged' = merged \o Tagged(Head(queue))
          /\ trained' = trained \o FeedbackValues(Head(queue).samples, Head(queue).plan)
          /\ UNCHANGED stage
  /\ UNCHANGED <<config, plan, base, saved, masses, drawn, plans, faults>>

\* Training changes the masses of the sampler.
Train(t) ==
  /\ stage.status = "active" /\ merged # <<>>
  /\ masses = base.masses  \* bound: once in a stage
  /\ masses # t /\ masses' = t
  /\ UNCHANGED <<config, stage, plan, acc, queue, merged, trained, base, saved, drawn, plans, faults>>

SaveCheckpoint ==
  /\ stage.status \in {"active", "stopping"} /\ faults < MaxFaults
  /\ saved' = [acc |-> acc, merged |-> merged, trained |-> trained, queue |-> queue, masses |-> masses]
  /\ UNCHANGED <<config, stage, plan, acc, queue, merged, trained, base, masses, drawn, plans, faults>>

\* The runner is lost; another starts from the checkpoint, or from what the
\* stage started from, with the sampler saved there, and later work is gone.
Restart ==
  LET from == IF saved = None THEN base ELSE saved
      r == PrepareEstimator(stage, from.acc, saved # None, base.fresh, from.masses)
  IN /\ stage.status \in {"active", "stopping"} /\ faults < MaxFaults
     /\ faults' = faults + 1 /\ plans' = plans + 1
     /\ Started(r, from)
     /\ stage' = [stage EXCEPT !.status = Status(r)]
     /\ UNCHANGED <<config, base, saved, drawn>>

\* The stop condition of the task is met: nothing more is produced.
StopEarly ==
  /\ stage.status = "active" /\ HasEstimate(acc)
  /\ stage' = [stage EXCEPT !.status = "stopping"]
  /\ UNCHANGED <<config, plan, acc, queue, merged, trained, base, saved, masses, drawn, plans, faults>>

FinishStage ==
  /\ stage.status \in {"active", "stopping"} /\ queue = <<>>
  /\ stage' = [stage EXCEPT !.status = "done"]
  /\ UNCHANGED <<config, plan, acc, queue, merged, trained, base, saved, masses, drawn, plans, faults>>

Init ==
  /\ config \in Kinds /\ masses \in Masses
  /\ stage = [estimator |-> "pooled", partitioned |-> FALSE, status |-> "done"]
  /\ plan = None /\ acc = FromConfig /\ queue = <<>> /\ merged = <<>> /\ trained = <<>>
  /\ base = None /\ saved = None
  /\ drawn = 0 /\ plans = 0 /\ faults = 0

Next ==
  \/ \E e \in {"pooled", "stratified"}, p, f \in BOOLEAN : StartStage(e, p, f)
  \/ \E n \in 1 .. 2 : \E points \in [1 .. n -> Points] : Produce(points)
  \/ MergeNext
  \/ \E t \in Masses : Train(t)
  \/ SaveCheckpoint \/ Restart \/ StopEarly \/ FinishStage

Spec == Init /\ [][Next]_vars

-----------------------------------------------------------------------------
(* Properties                                                              *)

\* The accumulator, the plan and the queue have the shape the code gives them.
TypeOK ==
  /\ config \in Kinds /\ masses \in Masses
  /\ stage \in [estimator : {"pooled", "stratified"}, partitioned : BOOLEAN,
                status : {"active", "stopping", "done", "failed"}]
  /\ plan = None \/ (DOMAIN plan = {"id", "probabilities"} /\ plan.id \in 1 .. plans)
  /\ acc.kind \in {"vector", "gammaloop", "stratified", "full", "empty"}
  /\ drawn \in 0 .. MaxSamples /\ Len(merged) <= drawn /\ Len(trained) = Len(merged)

Weighted(t, i) == Stream(Gated(t.sample, t.plan), i) * t.sample.weight
KeyOf(t) == Stripped(t.sample, t.plan).key
FirstLargest(samples, x(_)) ==
  LET s == CHOOSE s \in samples : \A t \in samples : Abs(x(t)) < Abs(x(s))
                                    \/ (Abs(x(t)) = Abs(x(s)) /\ s.sample.at <= t.sample.at)
  IN IF samples = {} THEN None ELSE [value |-> x(s), at |-> s.sample.at]

\* What one pass over the samples, in the order they were merged, would give.
Reference(samples, x(_)) ==
  [count |-> Len(samples),
   sums |-> [j \in 1 .. 5 |-> SumOver(LAMBDA t : Powers(x(t))[j], samples)],
   positive |-> FirstLargest({t \in ToSet(samples) : x(t) >= 0}, x),
   negative |-> FirstLargest({t \in ToSet(samples) : x(t) < 0}, x)]

VectorIs(v, samples) ==
  \A i \in Streams : v.parts[i].plain = Reference(samples, LAMBDA t : Weighted(t, i))

\* The statistics of a stage are those of exactly its merged samples, misses as
\* zeros, however they were cut into batches, and after any restart; a result
\* that is refused (accumulate_values, merge) leaves no trace, and the extreme
\* sample is the first one that reached the extremum.
PooledExact ==
  /\ acc.kind = "vector" => VectorIs(acc, merged)
  /\ acc.kind = "gammaloop" => /\ VectorIs(acc.est, merged)
                               /\ acc.square = Reference(merged, LAMBDA t : Weighted(t, 4))
                               /\ acc.histogram = IF merged = <<>> THEN None ELSE Len(merged)
  /\ acc.kind = "full" => acc.rows = [n \in DOMAIN merged |->
                                        [j \in Components |-> merged[n].sample.value[j] * merged[n].sample.weight]]

OwnVector == CASE acc.kind = "vector" -> acc
               [] acc.kind = "gammaloop" -> acc.est
               [] acc.kind = "stratified" -> IF acc.pooled = None THEN None ELSE acc.pooled.est
               [] OTHER -> None

\* Every sample with discrete coordinates is in one bin of each stream or counted
\* as overflow (upsert_scalar_discrete_bin, merge), and while nothing overflowed
\* each bin, and each projection of the bins that a panel shows, has exactly the
\* samples of its key.
BinsAccounted ==
  OwnVector # None => \A i \in Streams :
    LET s == OwnVector.parts[i]
        x(t) == Weighted(t, i)
        keyed(P(_)) == SelectSeq(merged, LAMBDA t : KeyOf(t) # <<>> /\ P(KeyOf(t)))
    IN /\ SumOver(LAMBDA k : s.bins[k].count, SetToSeq(DOMAIN s.bins)) + s.overflow = Len(keyed(LAMBDA k : TRUE))
       /\ s.overflow = 0 => \A k \in DOMAIN s.bins : s.bins[k] = Reference(keyed(LAMBDA q : q = k), x)
       /\ s.overflow = 0 => \A item \in Items :
            LET shown == ProjectedBins(item, s.bins)
            IN \A q \in DOMAIN shown :
                 LET ref == Reference(keyed(LAMBDA k : Projects(item, k) /\ ProjectedKey(item, k) = q), x)
                 IN shown[q].count = ref.count /\ shown[q].sums = ref.sums

Of(k) == SelectSeq(merged, LAMBDA t : Stripped(t.sample, t.plan).label = k)

\* The parallel Welford updates (StratumMoments::push and merge) give each
\* stratum the counts, mean and central moments of its own samples, and the
\* first of its largest contributions, whatever the grouping into batches.
StratifiedExact ==
  acc.kind = "stratified" => \A k \in Labels :
    LET m == acc.strata[k]
        x(t, i) == Contribution(t.sample, acc.plan)[i]
    IN /\ m.attempts = Len(Of(k))
       /\ m.matches = Len(SelectSeq(Of(k), LAMBDA t : Matched(t.sample, t.plan)))
       /\ \A i \in 1 .. Width :
            /\ m.attempts * m.mean[i] = Scale * SumOver(LAMBDA t : x(t, i), Of(k))
            /\ m.extrema[i].positive = FirstLargest({t \in ToSet(Of(k)) : x(t, i) >= 0}, LAMBDA t : x(t, i))
            /\ \A j \in 1 .. Width :
                 m.attempts * m.m2[i][j] = Scale * Scale *
                   (m.attempts * SumOver(LAMBDA t : x(t, i) * x(t, j), Of(k))
                      - SumOver(LAMBDA t : x(t, i), Of(k)) * SumOver(LAMBDA t : x(t, j), Of(k)))

\* The pooled reference computed from a stratified accumulator (basic_estimates)
\* is the pooled estimate of the same draws: the frozen probabilities cancel.
BasicIsPooled ==
  acc.kind = "stratified" =>
    LET b == BasicEstimates(acc)
        n == Len(merged)
    IN /\ b.attempts = n
       /\ \A i \in 1 .. Width :
            /\ n * b.mean[i] = Scale * SumOver(LAMBDA t : Weighted(t, i), merged)
            /\ n * b.m2[i][i] = Scale * Scale * (n * SumOver(LAMBDA t : Weighted(t, i) * Weighted(t, i), merged)
                 - SumOver(LAMBDA t : Weighted(t, i), merged) * SumOver(LAMBDA t : Weighted(t, i), merged))

\* All samples of a stratified accumulator were drawn and weighted under its one
\* plan (prepare_estimator freezes it; restoring does not ask the sampler again).
OnePlan == acc.kind = "stratified" => \A n \in DOMAIN merged : merged[n].plan = acc.plan

\* What samplers are trained with (Feedback::values) is what the accumulator
\* counts: the sums of both agree, stage after stage and after restarts.
FeedbackAgrees ==
  OwnVector # None => SumOver(LAMBDA v : v, trained) = OwnVector.parts[Projection].plain.sums[1]

\* Partition diagnostics count every merged sample under the stratum it was drawn
\* for (PartitionDiagnostics::merge), and only samples of one partitioning are mixed.
PartitionCounted ==
  OwnVector # None /\ merged # <<>> =>
    /\ (OwnVector.diag = None) = (\A n \in DOMAIN merged : merged[n].plan = None)
    /\ OwnVector.diag # None => \A k \in Labels :
         /\ \A n \in DOMAIN merged : merged[n].plan # None
         /\ OwnVector.diag.attempts[k] = Len(Of(k))
         /\ OwnVector.diag.matches[k] = Len(SelectSeq(Of(k), LAMBDA t : Matched(t.sample, t.plan)))

\* A stratified stage that stops early has sampled every stratum enough
\* (uncertainty_ready), a pooled one has two samples.
StoppedReady ==
  stage.status = "stopping" =>
    IF acc.kind = "stratified"
    THEN \A k \in Labels : /\ Len(Of(k)) >= ReadyAttempts
                           /\ Len(SelectSeq(Of(k), LAMBDA t : Matched(t.sample, t.plan))) >= ReadyMatches
    ELSE Len(merged) >= 2
=============================================================================
