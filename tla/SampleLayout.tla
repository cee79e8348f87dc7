---------------------------- MODULE SampleLayout ----------------------------
(***************************************************************************)
(* The way of a draw's points from a sampler to an evaluator: a sampler    *)
(* process answers with row-major arrays and offsets, the host decodes     *)
(* them into an indexed payload, cuts a work unit out of it, and the       *)
(* evaluator's node materializes, transforms, validates and packs it for   *)
(* the evaluator process.  Discrete coordinates are values; continuous     *)
(* coordinates and weights are named by their place in the answer.         *)
(***************************************************************************)
EXTENDS SampleDomain

CONSTANTS Domains,   \* domains of runs
          MaxSamples,\* bound: points of a draw
          MaxWords,  \* bound: words of a sampler's answer
          Stride     \* RNG_CHECKPOINT_STRIDE

VARIABLES stage,    \* how far the batch has come
          dom,      \* the domain of the run
          answer,   \* the sampler's answer (history)
          payload,  \* the latent batch
          rows,     \* the points of the draw
          unit,     \* the cut: first point and length (history)
          batch,    \* the evaluator's points
          wire      \* what the evaluator process is sent
vars == <<stage, dom, answer, payload, rows, unit, batch, wire>>

Absent == <<-1>>
SumOf(s) == FoldLeft(LAMBDA a, b : a + b, 0, s)
Row(d, c, w) == [disc |-> d, cont |-> c, weight |-> w]
Rejected == stage' = "rejected" /\ UNCHANGED <<dom, answer, payload, rows, unit, batch, wire>>

-----------------------------------------------------------------------------
(* Decoding a sampler's answer.                                            *)

OrZero(n) == IF n = None THEN 0 ELSE n

\* offsets_total_len: the last offset, or a fixed width for every point.
TotalLen(offsets, n, width) == IF offsets = Absent THEN n * width ELSE Last(offsets)

\* parse_process_offsets: n + 1 numbers from 0 to the length, none decreasing.
OffsetsOk(offsets, n, width, len) ==
  IF offsets = Absent THEN len = n * width
  ELSE /\ Len(offsets) = n + 1 /\ offsets[1] = 0 /\ Last(offsets) = len
       /\ \A i \in 1 .. n : offsets[i] <= offsets[i + 1] /\ offsets[i] <= len
Parsed(offsets, n, width) == IF offsets = Absent THEN [i \in 1 .. n + 1 |-> (i - 1) * width] ELSE offsets

Cut(s, offsets, i) == SubSeq(s, offsets[i] + 1, offsets[i + 1])
Places(from, len) == [i \in 1 .. len |-> from + i]

\* decode_generation: the binary block holds exactly the discrete words, the coordinates, the weights.
WordsFit(a, used) == Len(a.words) = used

Accepts(a) ==
  LET dl == TotalLen(a.discOff, a.n, OrZero(FixedDiscreteDepth(dom)))
      cl == TotalLen(a.contOff, a.n, OrZero(FixedContinuousDims(dom)))
  IN /\ WordsFit(a, dl + cl + a.n)
     /\ \A i \in 1 .. a.n : a.words[dl + cl + i] > 0
     /\ OffsetsOk(a.discOff, a.n, OrZero(FixedDiscreteDepth(dom)), dl)
     /\ OffsetsOk(a.contOff, a.n, OrZero(FixedContinuousDims(dom)), cl)

AnswerRows(a) ==
  LET dw == OrZero(FixedDiscreteDepth(dom))
      cw == OrZero(FixedContinuousDims(dom))
      dl == TotalLen(a.discOff, a.n, dw)
      cl == TotalLen(a.contOff, a.n, cw)
  IN [i \in 1 .. a.n |->
       Row(Cut(a.words, Parsed(a.discOff, a.n, dw), i),
           Cut(Places(dl, cl), Parsed(a.contOff, a.n, cw), i),
           dl + cl + i)]

-----------------------------------------------------------------------------
(* The indexed payload.                                                    *)

Distinct(s) == FoldLeft(LAMBDA acc, x : IF x \in Range(acc) THEN acc ELSE Append(acc, x), <<>>, s)
IndexIn(s, x) == CHOOSE i \in DOMAIN s : s[i] = x

\* IndexedBatchBuilder: each discrete path once, in order of appearance, and coordinates in a row.
Built(rs) ==
  LET paths == [i \in DOMAIN rs |-> rs[i].disc]
      sigs == Distinct(paths)
  IN [kind |-> "indexed", n |-> Len(rs), sigs |-> sigs,
      map |-> [i \in DOMAIN rs |-> IndexIn(sigs, paths[i])],
      layouts |-> [i \in DOMAIN rs |-> Len(rs[i].cont)],
      values |-> FlattenSeq([i \in DOMAIN rs |-> rs[i].cont]),
      weights |-> [i \in DOMAIN rs |-> rs[i].weight]]

\* A Havana inference draw carries RNG states, one per Stride points, and is sampled by the evaluator.
\* A state is named by the point it is about to sample.
HavanaDraw(n) == [kind |-> "rng", n |-> n, offset |-> 0, states |-> [i \in 1 .. (n + Stride - 1) \div Stride |-> (i - 1) * Stride]]

\* slice_at.
SliceIndexed(p, start, len) ==
  LET from == SumOf(SubSeq(p.layouts, 1, start))
      layouts == SubSeq(p.layouts, start + 1, start + len)
      used == SubSeq(p.map, start + 1, start + len)
      remap == Distinct(used)
  IN [p EXCEPT !.n = len, !.sigs = [i \in DOMAIN remap |-> p.sigs[remap[i]]],
               !.map = [i \in 1 .. len |-> IndexIn(remap, used[i])], !.layouts = layouts,
               !.values = SubSeq(p.values, from + 1, from + SumOf(layouts)), !.weights = SubSeq(p.weights, start + 1, start + len)]
SliceRngOffset(p, start, len) ==
  [p EXCEPT !.n = len, !.offset = start % Stride,
            !.states = SubSeq(p.states, (start \div Stride) + 1, ((p.offset + start + len - 1) \div Stride) + 1)]
SliceRng(p, start, len) ==
  [p EXCEPT !.n = len, !.offset = (p.offset + start) % Stride,
            !.states = SubSeq(p.states, ((p.offset + start) \div Stride) + 1, ((p.offset + start + len - 1) \div Stride) + 1)]

\* validate_nr_samples.
PayloadOk(p) ==
  IF p.kind = "rng" THEN p.offset < Stride /\ Len(p.states) = (p.n + p.offset + Stride - 1) \div Stride
  ELSE Len(p.weights) = p.n /\ Len(p.map) = p.n /\ Len(p.layouts) = p.n /\ Len(p.values) = SumOf(p.layouts)

\* decode_indexed_batch.
Decoded(p) ==
  [i \in 1 .. p.n |-> Row(p.sigs[p.map[i]],
                          SubSeq(p.values, SumOf(SubSeq(p.layouts, 1, i - 1)) + 1, SumOf(SubSeq(p.layouts, 1, i))),
                          p.weights[i])]

-----------------------------------------------------------------------------
(* The way of a batch.                                                     *)

Init == /\ stage = "new" /\ dom \in Domains
        /\ answer = <<>> /\ payload = <<>> /\ rows = <<>> /\ unit = <<0, 0>> /\ batch = <<>> /\ wire = <<>>

Offsets(n) == {Absent} \cup [1 .. n + 1 -> 0 .. 2]
Words == UNION {{[i \in 1 .. len |-> IF i = z THEN 0 ELSE 1] : z \in 0 .. len} : len \in 1 .. MaxWords}

\* A sampler process answers generate.
Decode ==
  /\ stage = "new"
  /\ \E n \in 1 .. MaxSamples : \E w \in Words : \E d, c \in Offsets(n) :
       LET a == [n |-> n, words |-> w, discOff |-> d, contOff |-> c]
       IN /\ Accepts(a)
          /\ answer' = a /\ rows' = AnswerRows(a) /\ payload' = Built(AnswerRows(a))
  /\ stage' = "drawn" /\ UNCHANGED <<dom, unit, batch, wire>>

\* Havana inference draws on its own; the points are named by their place in the draw.
DrawHavana ==
  /\ stage = "new"
  /\ \E n \in 1 .. 2 * Stride + 1 :
       /\ payload' = HavanaDraw(n)
       /\ \E p \in GridPaths(dom) :
            rows' = [i \in 1 .. n |-> Row(p, <<>>, i - 1)]
  /\ stage' = "drawn" /\ UNCHANGED <<dom, answer, unit, batch, wire>>

\* take_batches cuts a work unit; a unit may be the whole draw.  A cut is cut again when the draw's
\* remainder was stored in a checkpoint and restored.
TakeUnit ==
  /\ stage = "drawn" /\ payload.n > 0
  /\ \E start \in 0 .. payload.n - 1 : \E len \in 1 .. payload.n - start :
       /\ payload' = IF payload.kind = "rng" THEN SliceRng(payload, start, len) ELSE SliceIndexed(payload, start, len)
       /\ unit' = <<unit[1] + start, len>>
  /\ stage' \in {"drawn", "stored"}
  /\ UNCHANGED <<dom, answer, rows, batch, wire>>

\* The materializer: identity, or the grid replayed from the first checkpoint.
Materialize ==
  /\ stage = "stored"
  /\ IF ~PayloadOk(payload) THEN Rejected
     ELSE /\ batch' = IF payload.kind = "indexed" THEN Decoded(payload)
                      ELSE [i \in 1 .. payload.n |->
                             Row(ToLabels(dom, rows[1].disc), <<>>, payload.states[1] + payload.offset + i - 1)]
          /\ stage' = "materialized"
          /\ UNCHANGED <<dom, answer, payload, rows, unit, wire>>

\* row_major_batch
RowMajor(b) == [disc |-> FlattenSeq([i \in DOMAIN b |-> b[i].disc]), cont |-> FlattenSeq([i \in DOMAIN b |-> b[i].cont])]

\* A transform process answers with arrays and offsets (decode_process_batch); it may answer anything,
\* for instance as many rows with other shapes.
Transform ==
  /\ stage = "materialized" /\ payload.kind = "indexed" /\ Len(batch) <= 2
  /\ LET values == RowMajor(batch).cont
         discs == RowMajor(batch).disc
         n == Len(batch)
     IN \E d, c \in Offsets(n) :
          /\ OffsetsOk(d, n, OrZero(FixedDiscreteDepth(dom)), Len(discs))
          /\ OffsetsOk(c, n, OrZero(FixedContinuousDims(dom)), Len(values))
          /\ batch' = [i \in 1 .. n |->
                        Row(Cut(discs, Parsed(d, n, OrZero(FixedDiscreteDepth(dom))), i),
                            Cut(values, Parsed(c, n, OrZero(FixedContinuousDims(dom))), i), batch[i].weight)]
  /\ stage' = "transformed"
  /\ UNCHANGED <<dom, answer, payload, rows, unit, wire>>

\* pack_eval_inputs: discrete words, then coordinates; offsets only where the width is not fixed.
PackOffsets(lens, fixed) ==
  IF fixed # None THEN Absent ELSE [i \in 1 .. Len(lens) + 1 |-> SumOf(SubSeq(lens, 1, i - 1))]
Packed(b) ==
  [disc |-> RowMajor(b).disc, cont |-> RowMajor(b).cont,
   discOff |-> PackOffsets([i \in DOMAIN b |-> Len(b[i].disc)], FixedDiscreteDepth(dom)),
   contOff |-> PackOffsets([i \in DOMAIN b |-> Len(b[i].cont)], FixedContinuousDims(dom))]

\* evaluate_claim: the sample count is kept and every point lies in the run's domain.
BatchOk(b) == Len(b) = payload.n /\ \A i \in DOMAIN b : ValidPoint(dom, b[i].disc, Len(b[i].cont))

Evaluate ==
  /\ stage \in {"materialized", "transformed"} /\ payload.kind = "indexed"
  /\ IF BatchOk(batch)
     THEN /\ wire' = Packed(batch) /\ stage' = "evaluated"
          /\ UNCHANGED <<dom, answer, payload, rows, unit, batch>>
     ELSE Rejected

Next == Decode \/ DrawHavana \/ TakeUnit \/ Materialize \/ Transform \/ Evaluate
Spec == Init /\ [][Next]_vars

-----------------------------------------------------------------------------
(* Properties.                                                             *)

\* What an accepted answer decodes to uses every word once and in order: the rows are a partition of the
\* discrete words, of the coordinates and of the weights (decode_generation, parse_process_offsets).
DecodedExactly ==
  stage = "drawn" /\ unit = <<0, 0>> /\ answer # <<>> =>
    LET discs == FlattenSeq([i \in DOMAIN rows |-> rows[i].disc])
        conts == FlattenSeq([i \in DOMAIN rows |-> rows[i].cont])
    IN /\ discs = SubSeq(answer.words, 1, Len(discs))
       /\ conts = Places(Len(discs), Len(conts))
       /\ Len(discs) + Len(conts) + Len(rows) = Len(answer.words)

\* However often a draw is cut, a work unit decodes to exactly its points of the draw: paths, coordinates
\* and weights (slice_at, decode_indexed_batch, the RNG checkpoints of Havana inference).
UnitIsSlice ==
  stage = "materialized" =>
    /\ Len(batch) = unit[2]
    /\ \A i \in DOMAIN batch :
         /\ batch[i].cont = rows[unit[1] + i].cont
         /\ batch[i].weight = rows[unit[1] + i].weight
         /\ payload.kind = "indexed" => batch[i].disc = rows[unit[1] + i].disc

\* A stored payload always passes the validation of the process that loads it (validate_nr_samples).
StoredValid == stage = "stored" => PayloadOk(payload)

\* Points that reach an evaluator are leaves of the run's domain, although the decoders of sampler,
\* materializer and transform answers accept explicit offsets of any shape (evaluate_claim).
EvaluatedInDomain ==
  stage = "evaluated" => \A i \in DOMAIN batch : <<batch[i].disc, Len(batch[i].cont)>> \in Leaves(dom)

\* The evaluator process recovers the points from what it is sent: a width it is not told is the one that
\* every point of the domain has (pack_eval_inputs).
WireLossless ==
  stage = "evaluated" =>
    LET n == Len(batch)
        dw == FixedDiscreteDepth(dom)
        cw == FixedContinuousDims(dom)
    IN \A i \in 1 .. n :
         /\ Cut(wire.disc, Parsed(wire.discOff, n, dw), i) = batch[i].disc
         /\ Cut(wire.cont, Parsed(wire.contOff, n, cw), i) = batch[i].cont

\* Every reading of a domain agrees with its set of leaves: the fixed widths, the width at a path that
\* stops early, the point check, the strata, and the labels of a Havana grid's bins.
Exactly(fixed, values) == fixed = IF Cardinality(values) = 1 THEN CHOOSE v \in values : TRUE ELSE None
Paths == UNION {[1 .. k -> -1 .. 3] : k \in 0 .. 2}
DomainReadings == stage = "new" =>
  /\ Valid(dom)
  /\ Exactly(FixedContinuousDims(dom), {l[2] : l \in Leaves(dom)})
  /\ Exactly(FixedDiscreteDepth(dom), {Len(l[1]) : l \in Leaves(dom)})
  /\ \A p \in Paths :
       /\ Exactly(DimsAtPath(dom, p), {l[2] : l \in {m \in Leaves(dom) : IsPrefix(p, m[1])}})
       /\ \A k \in 0 .. 2 : ValidPoint(dom, p, k) <=> <<p, k>> \in Leaves(dom)
  /\ {ToLabels(dom, p) : p \in GridPaths(dom)} = {l[1] : l \in Leaves(dom)}

\* Attaching an integrand to independently specified strata gives a valid domain whose points are a
\* stratum followed by a point of the integrand, with the same strata (with_integrand).
StrataAttached(strata, integrand) ==
  LET whole == WithIntegrand(strata, integrand)
      prefixes == StratumPrefixes(strata)
  IN /\ Valid(whole) /\ StratumPrefixes(whole) = prefixes
     /\ Leaves(whole) = {<<p \o l[1], l[2]>> : p \in ToSet(prefixes), l \in Leaves(integrand)}
DomainComposes ==
  stage = "new" /\ StratumPrefixes(dom) = << <<>> >> =>
    \A s \in Domains : StratumOnly(s) => StrataAttached(s, dom)
=============================================================================
