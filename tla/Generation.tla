----------------------------- MODULE Generation -----------------------------
(***************************************************************************)
(* What a sampler runner does with the draws of its sampler: a draw is     *)
(* buffered, cut into work units for the evaluators, and its values are    *)
(* assembled again before the sampler is trained with them.  The samplers  *)
(* are the code's own (havana training and inference, naive, raster, PDF   *)
(* raster) and an external process.  The checkpoint saves sampler, buffer, *)
(* accumulator and cursors together; after a crash work produced later is  *)
(* deleted and results consumed later are consumed again.                  *)
(*                                                                         *)
(* A sample is named by its place in the production order and by the       *)
(* version of the grid it was drawn from; its value has the same name.     *)
(***************************************************************************)
EXTENDS Naturals, Sequences, SequencesExt

CONSTANTS Kinds,          \* samplers
          Totals,         \* sample targets of the task; the points of a raster
          Window,         \* samples_for_update / training_window_samples
          MaxGeneration,  \* max_generation_size
          MaxSlots,       \* max_batches_per_tick
          MaxChunk,       \* bound: evaluator batch size
          MaxFaults       \* bound: crashes and database errors

VARIABLES kind, total,
          bad,     \* the unit with this sample cannot be merged (0: none)
          core,    \* the runner's memory, all of it saved in a checkpoint
          work,    \* the units produced, in id order
          ready,   \* how many of them, from the first, are evaluated
          snap,    \* the checkpoint: core and length of work
          task, faults
vars == <<kind, total, bad, core, work, ready, snap, task, faults>>

None == -1
Least(a, b) == IF a < b THEN a ELSE b
Less(a, b) == IF a < b THEN 0 ELSE a - b
Lengths(draws) == FoldLeft(LAMBDA n, d : n + Len(d), 0, draws)
Ats(samples) == [i \in DOMAIN samples |-> samples[i].at]
Upto(n) == [i \in 1 .. n |-> i]

Training == {"havana", "naive", "pdf_raster", "process"}

-----------------------------------------------------------------------------
(* Samplers                                                                *)

\* Fields: samples produced and ingested, values since the last update (naive),
\* updates of the grid, draws whose values are outstanding, the PDF image, and
\* what the sampler was trained with (history).
NewSampler(n) == [produced |-> 0, ingested |-> 0, back |-> 0, version |-> 0, draws |-> <<>>,
                  image |-> [i \in 0 .. n - 1 |-> None], learned |-> <<>>]

Gcd(a, b) == CHOOSE g \in 1 .. a : a % g = 0 /\ b % g = 0 /\ \A h \in g + 1 .. a : ~(a % h = 0 /\ b % h = 0)
GoldenCandidate(n) == Least(n - 1, LET c == (n * 618034) \div 1000000 IN IF c = 0 THEN 1 ELSE c)

\* coprime_stride: the first coprime number from the candidate on, wrapping to 1.
CoprimeStride(n) ==
  IF n <= 1 THEN 1
  ELSE LET coprime == {c \in 1 .. n - 1 : Gcd(c, n) = 1}
           later == {c \in coprime : c >= GoldenCandidate(n)}
           from == IF later = {} THEN coprime ELSE later
       IN CHOOSE c \in from : \A d \in from : c <= d

\* permuted_raster_index
RasterIndex(i, n) == IF n <= 1 THEN Least(i, Less(n, 1)) ELSE (i * CoprimeStride(n)) % n

\* Mutant: draws outstanding are not counted against the window.
HavanaWindowIngested(s) == Less(((s.ingested \div Window) + 1) * Window, s.ingested)

\* training_window_samples_remaining, before the cap by the training target.
HavanaWindow(s) == Less(((s.ingested \div Window) + 1) * Window, s.ingested + Lengths(s.draws))

\* What is left to draw before values have to come back (None: no limit).
Remaining(s) ==
  CASE kind = "havana" -> Least(Less(total, s.ingested + Lengths(s.draws)), HavanaWindow(s))
    [] kind = "naive" -> Less(Less(Window, s.back), Lengths(s.draws))
    [] kind = "pdf_raster" -> total - s.produced
    [] kind = "process" -> Window
    [] OTHER -> None

Exhausts(s) ==
  CASE kind = "havana" -> s.produced >= total
    [] kind \in {"pdf_raster", "raster"} -> s.produced = total
    [] OTHER -> FALSE

Batch(s, n) ==
  LET d == [i \in 1 .. n |-> [at |-> s.produced + i, version |-> s.version]]
  IN [answer |-> "batch", samples |-> d, remaining |-> Remaining(s),
      smp |-> [s EXCEPT !.produced = @ + n,
                        !.draws = IF kind \in Training \ {"pdf_raster"} THEN Append(@, d) ELSE @]]

\* generate: what it may answer to a limit of max samples.
Generate(s, max) ==
  IF Exhausts(s) THEN {[answer |-> "finished", smp |-> s]}
  ELSE IF Remaining(s) = 0 THEN {[answer |-> "waiting", smp |-> s]}
  ELSE CASE kind = "process" -> {Batch(s, n) : n \in 1 .. Least(max, Window)} \cup {[answer |-> "finished", smp |-> s]}
         [] kind \in {"havana", "naive"} -> {Batch(s, Least(Remaining(s), max))}
         [] kind \in {"pdf_raster", "raster"} -> {Batch(s, Least(max, total - s.produced))}
         [] OTHER -> {Batch(s, max)}

Lessons(s, draw, values, n) ==
  [i \in 1 .. n |-> [of |-> draw[i], value |-> values[i], version |-> s.version]]

\* HavanaSampler::feedback: one update for each window boundary that is passed.
HavanaUpdates(before, after) == Less(after \div Window, before \div Window)

\* HavanaSampler::feedback: the values of the oldest draw, all of them.
HavanaFeedback(s, values) ==
  LET n == Least(Less(total, s.ingested), Len(values)) IN
  [ok |-> s.draws # <<>> /\ Len(Head(s.draws)) = Len(values),
   smp |-> [s EXCEPT !.draws = Tail(@), !.ingested = @ + n,
                     !.version = @ + HavanaUpdates(s.ingested, s.ingested + n),
                     !.learned = @ \o Lessons(s, Head(s.draws), values, n)]]

\* Naive feedback: only how many; the window closes when it is full exactly.
NaiveFeedback(s, values) ==
  LET full == s.back + Len(values) = Window IN
  [ok |-> Len(values) <= Lengths(s.draws),
   smp |-> [s EXCEPT !.draws = Tail(@), !.ingested = @ + Len(values),
                     !.back = IF full THEN 0 ELSE @ + Len(values),
                     !.version = @ + (IF full THEN 1 ELSE 0),
                     !.learned = @ \o Lessons(s, Head(s.draws), values, Len(values))]]

\* record_pdf_adaptation_values: value k goes to the point it was evaluated at.
RasterRecord(image, from, values) ==
  [i \in DOMAIN image |->
     IF \E k \in 1 .. Len(values) : RasterIndex(from + k - 1, total) = i
     THEN LET k == CHOOSE k \in 1 .. Len(values) : RasterIndex(from + k - 1, total) = i
          IN RasterIndex(values[k].at - 1, total)
     ELSE image[i]]

\* ingest_pdf_adaptation_values
RasterFeedback(s, values) ==
  [ok |-> s.ingested + Len(values) <= total,
   smp |-> [s EXCEPT !.image = RasterRecord(@, s.ingested, values), !.ingested = @ + Len(values)]]

\* A process learns from whole draws in order (external).
ProcessFeedback(s, values) ==
  [ok |-> s.draws # <<>>,
   smp |-> [s EXCEPT !.draws = Tail(@), !.ingested = @ + Len(values),
                     !.learned = @ \o Lessons(s, Head(s.draws), values, Len(values))]]

Feedback(s, values) ==
  CASE kind = "havana" -> HavanaFeedback(s, values)
    [] kind = "naive" -> NaiveFeedback(s, values)
    [] kind = "pdf_raster" -> RasterFeedback(s, values)
    [] OTHER -> ProcessFeedback(s, values)

-----------------------------------------------------------------------------
(* The generation buffer                                                   *)

NoDraw == [samples |-> <<>>, next |-> 0, remaining |-> None]
EmptyBuffer == [pending |-> NoDraw, groups |-> <<>>, finished |-> FALSE]
HasPending(b) == b.pending # NoDraw
PendingSamples(b) == Less(Len(b.pending.samples), b.pending.next)
HasOutstanding(b) == HasPending(b) \/ b.groups # <<>>

\* buffer_draw and, for a training draw, record_draw.
Buffered(b, g) ==
  [b EXCEPT !.pending = [samples |-> g.samples, next |-> 0, remaining |-> g.remaining],
            !.groups = IF g.remaining = None THEN @ ELSE Append(@, [samples |-> Len(g.samples), got |-> <<>>])]

Dispatched(b, n) ==
  [b EXCEPT !.pending = IF b.pending.next + n = Len(b.pending.samples) THEN NoDraw ELSE [@ EXCEPT !.next = @ + n]]

\* take_batches: at most slots chunks from the cursor on, the last one ragged.
TakeBatches(b, slots, chunk) ==
  LET n == Least(slots * chunk, PendingSamples(b))
      units == [i \in 1 .. (n + chunk - 1) \div chunk |->
                  [samples |-> SubSeq(b.pending.samples, b.pending.next + (i - 1) * chunk + 1,
                                      b.pending.next + Least(i * chunk, n)),
                   training |-> b.pending.remaining # None]]
  IN [units |-> units, buf |-> Dispatched(b, n), n |-> n]

\* accept_feedback: the oldest group; its values once they are complete.
AcceptFeedback(b, values) ==
  IF b.groups = <<>> \/ Len(Head(b.groups).got) + Len(values) > Head(b.groups).samples
  THEN [ok |-> FALSE, buf |-> b, values |-> <<>>]
  ELSE LET got == Head(b.groups).got \o values
           whole == Len(got) = Head(b.groups).samples
       IN [ok |-> TRUE,
           buf |-> [b EXCEPT !.groups = IF whole THEN Tail(@) ELSE [@ EXCEPT ![1].got = got]],
           values |-> IF whole THEN got ELSE <<>>]

-----------------------------------------------------------------------------
(* A tick of the runner                                                    *)

NewCore(n) == [smp |-> NewSampler(n), buf |-> EmptyBuffer, produced |-> 0, done |-> 0,
               acc |-> <<>>, trip |-> "needs", half |-> FALSE, err |-> FALSE]

Fed(c, values) ==
  LET a == AcceptFeedback(c.buf, values) IN
  IF ~a.ok THEN [c EXCEPT !.err = TRUE]
  ELSE IF a.values = <<>> THEN [c EXCEPT !.buf = a.buf]
  ELSE LET f == Feedback(c.smp, a.values)
       IN IF f.ok THEN [c EXCEPT !.buf = a.buf, !.smp = f.smp] ELSE [c EXCEPT !.buf = a.buf, !.err = TRUE]

Unmergeable(u) == \E i \in DOMAIN u.samples : u.samples[i].at = bad

\* process_completed_batches: one batch; an error leaves what came before it.
IngestUnit(c, u) ==
  IF c.err THEN c
  ELSE LET f == IF u.training THEN Fed(c, u.samples) ELSE c
       IN IF f.err \/ Unmergeable(u) THEN [f EXCEPT !.err = TRUE, !.half = TRUE]
          ELSE [f EXCEPT !.acc = @ \o Ats(u.samples)]

\* process_completed_batches: counters and cursor move after the whole group.
Ingest(c, group) ==
  LET i == FoldLeft(IngestUnit, c, group) IN
  IF i.err \/ group = <<>> THEN i ELSE [i EXCEPT !.done = @ + Len(group), !.trip = "ready"]

StopReached(c) == Len(c.acc) >= total

\* active_sample_remaining_budget
Budget(c) == Less(Less(total, c.produced), PendingSamples(c.buf))

\* enqueue_generated: one minimal unit before the first round trip.
Enqueue(c, slots, chunk) ==
  LET first == c.trip = "needs"
      t == TakeBatches(c.buf, IF first THEN 1 ELSE slots, IF first THEN 1 ELSE chunk)
  IN [core |-> [c EXCEPT !.buf = t.buf, !.produced = @ + t.n, !.trip = IF first THEN "waiting" ELSE @],
      units |-> t.units, wants |-> TRUE]

Idle(c, wants) == [core |-> c, units |-> <<>>, wants |-> wants]

\* produce: what it may do.  The limit of a draw is the generation size, the budget or
\* what is left of a campaign's allowance; none is made while no evaluator waits.
Produce(c, slots, chunk) ==
  IF c.trip = "waiting" THEN {Idle(c, TRUE)}
  ELSE IF HasPending(c.buf) THEN {Enqueue(c, slots, chunk)}
  ELSE IF c.buf.finished \/ Budget(c) = 0 \/ StopReached(c) THEN {Idle(c, FALSE)}
  ELSE {Idle(c, TRUE)} \cup
       {CASE g.answer = "waiting" -> Idle(c, FALSE)
          [] g.answer = "finished" -> Idle([c EXCEPT !.buf.finished = TRUE], FALSE)
          [] g.answer = "batch" -> Enqueue([c EXCEPT !.smp = g.smp, !.buf = Buffered(@, g)], slots, chunk) :
        g \in UNION {Generate(c.smp, max) : max \in 1 .. Least(MaxGeneration, Budget(c))}}

\* The task ends when nothing is open, in the queue or in the buffer.
Ended(c, open) == (StopReached(c) \/ c.buf.finished) /\ open = 0 /\ ~HasOutstanding(c.buf)

\* no_progress_is_terminal
Stuck(c, group, p, open) ==
  ~c.buf.finished /\ ~StopReached(c) /\ open = 0 /\ group = <<>> /\ p.units = <<>> /\ ~p.wants

Init ==
  /\ kind \in Kinds /\ total \in Totals /\ bad \in {0, total}
  /\ core = NewCore(total) /\ work = <<>> /\ ready = 0
  /\ snap = [core |-> NewCore(total), n |-> 0] /\ task = "active" /\ faults = 0

Fault == faults < MaxFaults /\ faults' = faults + 1

\* An evaluator answers; results are consumed in id order, see SamplerRecovery.
Evaluate == ready < Len(work) /\ ready' = ready + 1 /\ UNCHANGED <<kind, total, bad, core, work, snap, task, faults>>

After(c, group, p, open) ==
  IF Stuck(c, group, p, open) THEN "failed" ELSE IF Ended(c, open) THEN "completed" ELSE task

\* tick: k results that are there are merged, then work is produced.
TickWith(k, slots, chunk, progress) ==
  /\ task = "active"
  /\ \E group \in {SubSeq(work, core.done + 1, core.done + k)} :
     \E c \in {Ingest(core, group)} :
       /\ ~c.err
       /\ \E p \in Produce(c, slots, chunk) :
          \E next \in {After(p.core, group, p, Len(work) + Len(p.units) - c.done)} :
            /\ progress => p.core # core \/ next # task
            /\ core' = p.core /\ work' = work \o p.units /\ task' = next
  /\ UNCHANGED <<kind, total, bad, ready, snap, faults>>

Tick ==
  \E k \in 0 .. ready - core.done, slots \in 1 .. MaxSlots, chunk \in 1 .. MaxChunk :
    TickWith(k, slots, chunk, FALSE)

\* An engine error while a group is merged fails the task; if that statement fails
\* too the runner goes on with what is merged, and the group comes again.
TickError ==
  \E k \in 1 .. ready - core.done :
  \E c \in {Ingest(core, SubSeq(work, core.done + 1, core.done + k))} :
    /\ task = "active" /\ c.err
    /\ core' = [c EXCEPT !.err = FALSE]
    /\ \/ task' = "failed" /\ UNCHANGED faults
       \/ Fault /\ UNCHANGED task
    /\ UNCHANGED <<kind, total, bad, work, ready, snap>>

\* persist_state: the role is stopped and taken up again from what is saved.
Save ==
  /\ task = "active" /\ snap # [core |-> core, n |-> Len(work)]
  /\ snap' = [core |-> core, n |-> Len(work)]
  /\ UNCHANGED <<kind, total, bad, core, work, ready, task, faults>>

\* The process dies: restore_state and restore_sampler_checkpoint.
Crash ==
  /\ task = "active" /\ Fault
  /\ core' = snap.core
  /\ work' = SubSeq(work, 1, snap.n) /\ ready' = Least(ready, snap.n)
  /\ UNCHANGED <<kind, total, bad, snap, task>>

Next == Evaluate \/ Tick \/ TickError \/ Save \/ Crash
Spec == Init /\ [][Next]_vars

-----------------------------------------------------------------------------
Samples(units) == FoldLeft(LAMBDA s, u : s \o u.samples, <<>>, units)
Left(b) == SubSeq(b.pending.samples, b.pending.next + 1, Len(b.pending.samples))

\* Shape of the variables.
TypeOK ==
  /\ kind \in Kinds /\ total \in Totals /\ ready \in 0 .. Len(work)
  /\ core.done \in 0 .. ready /\ snap.n \in 0 .. Len(work) /\ ~core.err
  /\ task \in {"active", "completed", "failed"} /\ faults \in 0 .. MaxFaults

\* Units in the queue and the rest of the buffered draw are the sampler's draws,
\* each sample once and in order, whatever was cut, saved and rolled back
\* (sampling/generation.rs take_batches; stores/recovery.rs).
WorkIsProduction ==
  Ats(Samples(work) \o Left(core.buf)) = Upto(core.smp.produced)

\* The sampler is trained with each sample's own value, once, in the order of
\* production (sampling/generation.rs accept_feedback, Sampler::feedback).
FeedbackMatches ==
  ~core.half =>
    \A i \in DOMAIN core.smp.learned :
      LET l == core.smp.learned[i] IN l.of = l.value /\ l.of.at = i

\* A training value is added to the grid from which its sample was drawn: no window
\* is drawn from before all values of the last one are in (havana.rs:148, naive_monte_carlo.rs:94).
WindowKept ==
  ~core.half /\ kind \in {"havana", "naive"} =>
    \A i \in DOMAIN core.smp.learned : core.smp.learned[i].of.version = core.smp.learned[i].version

\* A PDF image holds at every point that point's own value, and all of them when
\* the task is complete (raster.rs:716 permuted_raster_index).
ImageExact ==
  kind = "pdf_raster" /\ ~core.half =>
    /\ \A i \in DOMAIN core.smp.image : core.smp.image[i] \in {None, i}
    /\ task = "completed" => \A i \in DOMAIN core.smp.image : core.smp.image[i] = i

\* A completed task has merged every sample it produced exactly once, none beyond its
\* target, and its sampler has had all their values (sampler_aggregator.rs:855, 1198).
CompletedExact ==
  task = "completed" =>
    /\ core.acc = Upto(core.smp.produced) /\ core.smp.produced <= total
    /\ kind \in Training => core.smp.ingested = core.smp.produced

\* A task fails only when a batch cannot be merged: a sampler that waits for values
\* is never taken for one that cannot go on (sampler_aggregator.rs:832).
OnlyBadWorkFails == task = "failed" => bad # 0
=============================================================================
