----------------------------- MODULE MCSamples -----------------------------
(***************************************************************************)
(* The modules about samples on small instances, side by side: generation, *)
(* batch sizes and ids, layouts, process workers, evaluation contexts and  *)
(* estimates.  A behaviour is one of the part it starts in, whose          *)
(* variables alone move; the variables of the other parts are Void.        *)
(***************************************************************************)
EXTENDS Integers, Sequences, FiniteSets, TLC

CONSTANTS Nil, Void

VARIABLES
  part,
  faults, config, saved, last, stage,
  kind, total, bad, core, work, ready, snap, task,
  stored, applied, size, pause, mean, training, remaining, evaluators, cost, edits, changes, windows,
  now, counter, entropy, ids, owners,
  dom, answer, payload, rows, unit, batch, wire,
  pc, next_id, logged, activity, got, stdin, stdout, child, manners, serving, chatter,
  cache, active, loaded, open, retries, results, draining,
  plan, acc, queue, merged, trained, base, masses, drawn, plans

generationVars == <<kind, total, bad, core, work, ready, snap, task>>
sizingVars == <<stored, applied, size, pause, mean, training, remaining, evaluators, cost, edits,
                changes, windows>>
idsVars == <<now, counter, entropy, ids, owners>>
layoutVars == <<dom, answer, payload, rows, unit, batch, wire>>
processVars == <<pc, next_id, logged, activity, got, stdin, stdout, child, manners, serving, chatter>>
contextVars == <<cache, active, loaded, open, retries, results, draining>>
estimatesVars == <<plan, acc, queue, merged, trained, base, masses, drawn, plans>>
vars == <<part, faults, config, saved, last, stage, generationVars, sizingVars, idsVars, layoutVars,
          processVars, contextVars, estimatesVars>>

GenerationOff == kind = Void /\ total = Void /\ bad = Void /\ core = Void /\ work = Void /\
                 ready = Void /\ snap = Void /\ task = Void
SizingOff == stored = Void /\ applied = Void /\ size = Void /\ pause = Void /\ mean = Void /\
             training = Void /\ remaining = Void /\ evaluators = Void /\ cost = Void /\ edits = Void /\
             changes = Void /\ windows = Void
IdsOff == now = Void /\ counter = Void /\ entropy = Void /\ ids = Void /\ owners = Void
LayoutOff == dom = Void /\ answer = Void /\ payload = Void /\ rows = Void /\ unit = Void /\
             batch = Void /\ wire = Void
ProcessOff == pc = Void /\ next_id = Void /\ logged = Void /\ activity = Void /\ got = Void /\
              stdin = Void /\ stdout = Void /\ child = Void /\ manners = Void /\ serving = Void /\
              chatter = Void
ContextOff == cache = Void /\ active = Void /\ loaded = Void /\ open = Void /\ retries = Void /\
              results = Void /\ draining = Void
EstimatesOff == plan = Void /\ acc = Void /\ queue = Void /\ merged = Void /\ trained = Void /\
                base = Void /\ masses = Void /\ drawn = Void /\ plans = Void

-----------------------------------------------------------------------------
(* The instances.                                                          *)

Generated == INSTANCE Generation WITH
  Kinds <- {"havana", "naive", "pdf_raster", "process", "raster", "inference"}, Totals <- {1, 4},
  Window <- 3, MaxGeneration <- 3, MaxSlots <- 2, MaxChunk <- 2, MaxFaults <- 2

Tuning(f, t, m) == [fixed |-> f, target |-> t, max |-> m]
Sized == INSTANCE BatchSizing WITH
  MinSize <- 2, Cooldown <- 1, Deadband <- 15, Base <- Tuning(Nil, 12, 6),
  Tunings <- {Nil, Tuning(1, Nil, Nil), Tuning(5, Nil, Nil), Tuning(Nil, 3, Nil),
              Tuning(Nil, 24, 9), Tuning(Nil, Nil, 1)},
  Costs <- {1, 4}, Windows <- {8, 30}, MaxEvaluators <- 2, MaxEdits <- 1, MaxChanges <- 1, MaxWindows <- 2,
  None <- Nil

\* A clock that also steps back, and a restart.
Numbered == INSTANCE BatchIds WITH
  Mask <- 3, Entropies <- {0, 1}, MaxClock <- 3, MaxIds <- 8, ClockSteps <- {1, -1}, MaxProcesses <- 2

\* Boxes, mixed boxes, a ragged tree with labels that skip numbers, a tree of equal leaves, and
\* two stratum-only trees.
Domain == INSTANCE SampleDomain
Domains ==
  {Domain!Rect(0, <<>>, 1), Domain!Rect(0, <<2>>, 1),
   Domain!Disc("integrand", <<Domain!Branch(1, Domain!Rect(0, <<>>, 1)), Domain!Branch(3, Domain!Rect(0, <<2>>, 0))>>),
   Domain!Disc("integrand", <<Domain!Branch(0, Domain!Rect(0, <<2>>, 1)), Domain!Branch(1, Domain!Rect(0, <<1>>, 1))>>),
   Domain!Rect(2, <<2, 3>>, 0),
   Domain!Disc("stratum", <<Domain!Branch(0, Domain!Rect(1, <<2>>, 0)), Domain!Branch(2, Domain!Rect(1, <<1>>, 0))>>)}
LaidOut == INSTANCE SampleLayout WITH Domains <- Domains, MaxSamples <- 2, MaxWords <- 6, Stride <- 2

Worker == INSTANCE ProcessWorker WITH
  MaxRequests <- 3, MaxChatter <- 2, LogLimit <- 1, Sizes <- {"small", "big"},
  Chatter <- {"text", "progress", "odd", "badjson", "overlimit"}, Stalls <- TRUE

\* Three tasks: the first two share transforms but not the evaluator, the last two share the
\* evaluator but not the transforms.
Switching == INSTANCE EvalContext WITH
  None <- Nil, Tasks <- {"a", "b", "c"}, Batches <- 1 .. 4, TaskOf <- <<"a", "b", "c", "c">>,
  EvaluatorOf <- ("a" :> "one") @@ ("b" :> "two") @@ ("c" :> "two"),
  TransformsOf <- ("a" :> "plain") @@ ("b" :> "plain") @@ ("c" :> "other"),
  Built <- "one", MaxFaults <- 3, MaxRetries <- 1

\* A ragged prefix domain, two cells on either side of the second axis.
Cells == <<[prefix |-> <<0>>, center |-> <<3, 0>>], [prefix |-> <<1, 0>>, center |-> <<-3, 0>>]>>
Point(discrete, weight, value) == [discrete |-> discrete, weight |-> weight, value |-> value]
\* A hit in each cell and a miss (a tie, given to the first cell), with remaining coordinates
\* that fill two bins; and some with a value whose square overflows or without a prefix.
Points == {Point(<<0, 7>>, 2, <<3, 4>>), Point(<<1, 0, 8>>, 1, <<-3, 4>>), Point(<<1, 0, 7>>, 1, <<0, 5>>)}
BadPoints == {Point(<<0, 7>>, 2, <<-3, 4>>), Point(<<1, 0, 8>>, 1, <<-3, 4>>),
              Point(<<0, 9>>, 1, <<5, 12>>), Point(<<1, 1>>, 1, <<3, 4>>)}
PanelItems == {[dims |-> <<1>>, fixed |-> <<>>], [dims |-> <<2>>, fixed |-> <<0>>], [dims |-> <<1>>, fixed |-> (3 :> 7)]}
Pooled == INSTANCE Estimates WITH
  None <- Nil, Kinds <- {"component", "norm", "full", "empty"}, Points <- BadPoints, Partition <- Cells,
  Masses <- {<<1, 3>>}, Den <- 4, MaxFloat <- 10000, MaxBins <- 1, ReadyAttempts <- 2, ReadyMatches <- 1,
  Items <- PanelItems, MaxSamples <- 2, MaxQueue <- 1, MaxStages <- 2, MaxFaults <- 1
Strata == INSTANCE Estimates WITH
  None <- Nil, Kinds <- {"norm"}, Points <- Points, Partition <- Cells, Masses <- {<<1, 3>>, <<2, 2>>}, Den <- 4,
  MaxFloat <- 14000000, MaxBins <- 4, ReadyAttempts <- 1, ReadyMatches <- 1,
  Items <- PanelItems, MaxSamples <- 3, MaxQueue <- 1, MaxStages <- 1, MaxFaults <- 1
\* With a table that has an empty stratum.
Gammaloop == INSTANCE Estimates WITH
  None <- Nil, Kinds <- {"gammaloop"}, Points <- BadPoints, Partition <- Cells, Masses <- {<<4, 0>>}, Den <- 4,
  MaxFloat <- 1000000, MaxBins <- 4, ReadyAttempts <- 2, ReadyMatches <- 1,
  Items <- PanelItems, MaxSamples <- 3, MaxQueue <- 1, MaxStages <- 1, MaxFaults <- 1

\* A task handed from one sampler process to another; and two processes that overlap.
ASSUME Instances ==
  /\ Numbered!IdsAssumption /\ Sized!SizesAssumption /\ Worker!BoundsAssumption
  /\ Switching!ContextAssumption

-----------------------------------------------------------------------------
(* The sum.                                                                *)

\* What is off in a part, and what its steps leave alone.
NotGeneration ==
  /\ SizingOff /\ IdsOff /\ LayoutOff /\ ProcessOff /\ ContextOff /\ EstimatesOff
  /\ config = Void /\ saved = Void /\ last = Void /\ stage = Void
notGeneration == <<part, sizingVars, idsVars, layoutVars, processVars, contextVars, estimatesVars,
                   config, saved, last, stage>>
NotSizing ==
  /\ GenerationOff /\ IdsOff /\ LayoutOff /\ ProcessOff /\ ContextOff /\ EstimatesOff
  /\ faults = Void /\ last = Void /\ stage = Void
notSizing == <<part, generationVars, idsVars, layoutVars, processVars, contextVars, estimatesVars,
               faults, last, stage>>
NotIds ==
  /\ GenerationOff /\ SizingOff /\ LayoutOff /\ ProcessOff /\ ContextOff /\ EstimatesOff
  /\ faults = Void /\ config = Void /\ saved = Void /\ stage = Void
notIds == <<part, generationVars, sizingVars, layoutVars, processVars, contextVars, estimatesVars,
            faults, config, saved, stage>>
NotLayout ==
  /\ GenerationOff /\ SizingOff /\ IdsOff /\ ProcessOff /\ ContextOff /\ EstimatesOff
  /\ faults = Void /\ config = Void /\ saved = Void /\ last = Void
notLayout == <<part, generationVars, sizingVars, idsVars, processVars, contextVars, estimatesVars,
               faults, config, saved, last>>
NotProcess ==
  /\ GenerationOff /\ SizingOff /\ IdsOff /\ LayoutOff /\ ContextOff /\ EstimatesOff
  /\ faults = Void /\ config = Void /\ saved = Void /\ stage = Void
notProcess == <<part, generationVars, sizingVars, idsVars, layoutVars, contextVars, estimatesVars,
                faults, config, saved, stage>>
NotContext ==
  /\ GenerationOff /\ SizingOff /\ IdsOff /\ LayoutOff /\ ProcessOff /\ EstimatesOff
  /\ config = Void /\ saved = Void /\ last = Void /\ stage = Void
notContext == <<part, generationVars, sizingVars, idsVars, layoutVars, processVars, estimatesVars,
                config, saved, last, stage>>
NotEstimates ==
  /\ GenerationOff /\ SizingOff /\ IdsOff /\ LayoutOff /\ ProcessOff /\ ContextOff
  /\ last = Void
notEstimates == <<part, generationVars, sizingVars, idsVars, layoutVars, processVars, contextVars,
                  last>>

Init ==
  \/ part = "generated" /\ Generated!Init /\ NotGeneration
  \/ part = "sized" /\ Sized!Init /\ NotSizing
  \/ part = "numbered" /\ Numbered!Init /\ NotIds
  \/ part = "laidout" /\ LaidOut!Init /\ NotLayout
  \/ part = "process" /\ Worker!Init /\ NotProcess
  \/ part = "context" /\ Switching!Init /\ NotContext
  \/ part = "pooled" /\ Pooled!Init /\ NotEstimates
  \/ part = "stratified" /\ Strata!Init /\ NotEstimates
  \/ part = "gammaloop" /\ Gammaloop!Init /\ NotEstimates

Next ==
  \/ part = "generated" /\ Generated!Next /\ UNCHANGED notGeneration
  \/ part = "sized" /\ Sized!Next /\ UNCHANGED notSizing
  \/ part = "numbered" /\ Numbered!Next /\ UNCHANGED notIds
  \/ part = "laidout" /\ LaidOut!Next /\ UNCHANGED notLayout
  \/ part = "process" /\ Worker!Next /\ UNCHANGED notProcess
  \/ part = "context" /\ Switching!Next /\ UNCHANGED notContext
  \/ part = "pooled" /\ Pooled!Next /\ UNCHANGED notEstimates
  \/ part = "stratified" /\ Strata!Next /\ UNCHANGED notEstimates
  \/ part = "gammaloop" /\ Gammaloop!Next /\ UNCHANGED notEstimates

Spec == Init /\ [][Next]_vars

-----------------------------------------------------------------------------
(* The properties of the parts: invariants and action properties.          *)

\* Generation (sampling/generation.rs, havana.rs, raster.rs, sampler_aggregator.rs): work in the
\* queue is the sampler's draws, each once and in order, however draws are cut, saved and rolled
\* back; samplers are trained with each sample's own value and on the grid it was drawn from; a
\* completed task merged exactly what it produced, and only a bad batch fails one.
WorkAndFeedback ==
  part = "generated" =>
    /\ Generated!TypeOK /\ Generated!WorkIsProduction /\ Generated!FeedbackMatches
    /\ Generated!WindowKept /\ Generated!ImageExact /\ Generated!CompletedExact
    /\ Generated!OnlyBadWorkFails

\* Batch sizes (queue_tuning, runners/queue.rs): through tunings, restarts and adaptation the size
\* respects the configuration in force, a training window's cap is steady while it lasts, and
\* its chunks leave work for every evaluator.
SizesRespected ==
  /\ [](part = "sized" => Sized!TypeOK /\ Sized!SizeRespectsConfig)
  /\ [][part = "sized" => Sized!CapSteady /\ Sized!ChunkShared]_vars

\* Batch ids (batch_ids.rs): a process's ids grow whatever the clock does, and run ahead of it
\* only by what was issued.
IdsGrow == part = "numbered" => Numbered!IdsGrow

\* Layouts (batch.rs, process sampler and evaluator protocols, domain.rs): decoding uses
\* every word once, a work unit is exactly its slice of the draw, stored payloads load again,
\* evaluated points are leaves of the domain, the evaluator recovers what was packed, and the
\* readings of a domain agree.
PointsPreserved ==
  part = "laidout" =>
    /\ LaidOut!DecodedExactly /\ LaidOut!UnitIsSlice /\ LaidOut!StoredValid /\ LaidOut!EvaluatedInDomain
    /\ LaidOut!WireLossless /\ LaidOut!DomainReadings /\ LaidOut!DomainComposes

\* Process workers (process_worker.rs): an accepted answer is the answer to that very request, an
\* answered request leaves both sides in step, the reported activity is restored, a timed-out
\* worker is killed, and a dropped one leaves no process.
AnswersInStep ==
  /\ [](part = "process" => /\ Worker!TypeOK /\ Worker!AnswersMatch /\ Worker!InStep
                            /\ Worker!ActivityRestored /\ Worker!DroppedDead)
  /\ [][part = "process" => Worker!TimeoutKills]_vars

\* Evaluation contexts (runners/evaluator.rs): every batch is computed with the evaluator,
\* materializer and transforms of its own task, in whatever order tasks, failures and retries come.
ContextOwned == part = "context" => Switching!ContextOwned

\* Estimates (accumulator modules, stratification.rs): statistics, bins, strata and diagnostics are
\* those of exactly the merged samples, however they were cut into batches and restored, agree
\* with what samplers are trained with, were drawn under one plan, and a stage that stopped
\* early was ready.
EstimatesExact ==
  /\ part = "pooled" => Pooled!TypeOK /\ Pooled!PooledExact /\ Pooled!FeedbackAgrees /\ Pooled!PartitionCounted
  /\ part = "stratified" => /\ Strata!StratifiedExact /\ Strata!BasicIsPooled /\ Strata!OnePlan
                            /\ Strata!StoppedReady
  /\ part = "gammaloop" => Gammaloop!PooledExact /\ Gammaloop!BinsAccounted

=============================================================================
