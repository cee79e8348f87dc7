--------------------------- MODULE ExecutionProofs --------------------------
(***************************************************************************)
(* How samples are cut into batches and evaluated, for any tasks, batches, *)
(* tunings, requests and bounds: a batch is computed in its own task's     *)
(* context, ids grow, sizes follow the configuration, a process worker     *)
(* answers in step with its host, and reported rates count what was done.  *)
(* Each part is an instance whose constants and variables have its own     *)
(* names; a theorem is about one of them.                                  *)
(***************************************************************************)
EXTENDS Integers, Sequences, FiniteSets, FiniteSetTheorems, WellFoundedInduction, TLAPS

CONSTANTS
  Tasks, Batches, TaskOf, EvaluatorOf, TransformsOf, Built, MaxFaults, MaxRetries, None, Mask,
  Entropies, MaxClock, MaxIds, ClockSteps, MaxProcesses, MinSize, Cooldown, Deadband, Base,
  Tunings, Costs, Windows, MaxEvaluators, MaxEdits, MaxChanges, MaxWindows, MaxRequests,
  MaxChatter, LogLimit, Sizes, Chatter, Stalls, Evaluators, Sampler, MaxTime, MaxOps, MaxCount,
  MaxEpochs, MaxTasks, MaxReports, MaxAge, MaxSnaps

VARIABLES
  cache, active, loaded, open, retries, results, draining, faults, now, last, counter, entropy,
  ids, owners, stored, applied, config, size, pause, mean, training, remaining, evaluators,
  saved, cost, edits, changes, windows, pc, next_id, logged, activity, got, stdin, stdout,
  child, manners, serving, chatter, runner, latest, history, task, epochs, snaps, births

Switching == INSTANCE EvalContext
Numbered == INSTANCE BatchIds
Sized == INSTANCE BatchSizing
Worker == INSTANCE ProcessWorker
Reports == INSTANCE Telemetry

\* An instance has its own name for each operator of FiniteSets.
LEMMA NumberedCardinality == ASSUME NEW S PROVE Numbered!Cardinality(S) = Cardinality(S)
  BY DEF Numbered!Cardinality, Cardinality

LEMMA NumberedFinite == ASSUME NEW S PROVE Numbered!IsFiniteSet(S) <=> IsFiniteSet(S)
  BY DEF Numbered!IsFiniteSet, IsFiniteSet

-----------------------------------------------------------------------------
(* Evaluation contexts.                                                    *)

\* The cached context is some task's own; a batch in hand is loaded with its task's; nothing open, in
\* hand and answered at once.
ContextInv ==
  /\ cache = [task |-> cache.task, evaluator |-> cache.evaluator, materializer |-> cache.materializer,
              transforms |-> cache.transforms]
  /\ cache.task # None => cache.task \in Tasks /\ cache = Switching!Context(cache.task)
  /\ cache.task = None \/ cache.task \in Tasks
  /\ active \in Batches \cup {None} /\ active \notin open /\ open \subseteq Batches
  /\ loaded # None => active # None /\ loaded = Switching!Context(TaskOf[active])
  /\ \A b \in open : retries[b] <= MaxRetries
  /\ active # None => retries[active] <= MaxRetries
  /\ retries \in [Batches -> 0 .. (MaxRetries + 1)]
  /\ \A r \in results : r.batch \in Batches \ open /\ r.batch # active /\ r.with = Switching!Context(TaskOf[r.batch])

LEMMA ContextStep ==
  ASSUME Switching!ContextAssumption, ContextInv, [Switching!Next]_Switching!vars
  PROVE  ContextInv'
<1> USE DEF ContextInv, Switching!ContextAssumption
<1>0. \A b \in Batches : TaskOf[b] \in Tasks
  BY DEF Switching!ContextAssumption
<1>1. ASSUME NEW b \in Batches, Switching!Claim(b) PROVE ContextInv'
  BY <1>1 DEF Switching!Claim
<1>2. CASE Switching!LoadTaskContext
  BY <1>2 DEF Switching!LoadTaskContext, Switching!InHand
<1>3. CASE Switching!LoadFails
  BY <1>3 DEF Switching!LoadFails
<1>4. CASE Switching!Install
  BY <1>0, <1>4 DEF Switching!Install, Switching!Context
<1>5. CASE Switching!BuildFails
  BY <1>5 DEF Switching!BuildFails, Switching!LeftByFailedBuild
<1>6. CASE Switching!Evaluate
  BY <1>0, <1>6 DEF Switching!Evaluate, Switching!CanEvaluate, Switching!Current, Switching!InHand
<1>7. CASE Switching!EvaluationFails
  BY <1>7 DEF Switching!EvaluationFails, Switching!CanEvaluate, Switching!InHand,
       Switching!ContextAssumption
<1>8. CASE Switching!Stop
  BY <1>8 DEF Switching!Stop
<1>9. CASE UNCHANGED Switching!vars
  BY <1>9 DEF Switching!vars
<1> QED BY <1>1, <1>2, <1>3, <1>4, <1>5, <1>6, <1>7, <1>8, <1>9 DEF Switching!Next

LEMMA ContextInit ==
  ASSUME Switching!ContextAssumption, Switching!Init
  PROVE  ContextInv
BY DEF Switching!ContextAssumption, Switching!Init, ContextInv

\* The whole of the run's property.
\* Evaluation contexts (runners/evaluator.rs): every batch is computed with the evaluator,
\* materializer and transforms of its own task, whatever the cache held before, and whatever failed.
THEOREM ContextsOwned == ASSUME Switching!ContextAssumption PROVE Switching!Spec => []Switching!ContextOwned
<1>1. ContextInv /\ [Switching!Next]_Switching!vars => ContextInv'
  BY ContextStep
<1>2. ContextInv => Switching!ContextOwned
  BY DEF ContextInv, Switching!ContextOwned, Switching!TypeOK, Switching!OwnContext,
       Switching!Context
<1> QED BY ContextInit, <1>1, <1>2, PTL DEF Switching!Spec

-----------------------------------------------------------------------------
(* Batch ids.                                                              *)

\* The generator is where its last id was, and its clock is ahead only by whole runs of the counter.
IdsInv ==
  /\ now \in 1 .. MaxClock /\ last \in Nat /\ counter \in 0 .. Mask + 1 /\ entropy \in Entropies
  /\ ids \in Seq(Int) /\ owners \in Seq(Nat) /\ Len(ids) = Len(owners)
  /\ ids # <<>> => counter >= 1 /\ ids[Len(ids)] = Numbered!Id(last, entropy, counter - 1)
  /\ Numbered!MonotonePerProcess
  /\ Mask * (last - MaxClock) + counter <= Len(ids)

\* A larger integer exceeds by a whole step.
LEMMA Product ==
  ASSUME NEW k \in Nat, NEW a \in Int, NEW b \in Int, a < b
  PROVE  a * k + k <= b * k
<1>1. (b - a - 1) * k >= 0
  <2> DEFINE x == b - a - 1
  <2>1. x \in Nat
    OBVIOUS
  <2> QED BY <2>1
<1>2. (b - a - 1) * k = b * k - a * k - k
  OBVIOUS
<1>3. a * k \in Int /\ b * k \in Int
  OBVIOUS
<1> QED BY <1>1, <1>2, <1>3

LEMMA IdInt ==
  ASSUME Numbered!IdsAssumption, NEW m \in Nat, NEW e \in Entropies, NEW c \in Nat
  PROVE  Numbered!Id(m, e, c) \in Int
<1>1. Cardinality(Entropies) \in Nat /\ Numbered!Scale \in Nat /\ e \in Nat
  BY FS_CardinalityType, NumberedFinite DEF Numbered!IdsAssumption, Numbered!Scale
<1>2. Cardinality(Entropies) * Numbered!Scale \in Nat
  BY <1>1
<1>3. m * (Cardinality(Entropies) * Numbered!Scale) \in Nat /\ e * Numbered!Scale \in Nat
  BY <1>1, <1>2
<1> QED BY <1>3, NumberedCardinality DEF Numbered!Id

LEMMA IdOrder ==
  ASSUME Numbered!IdsAssumption, NEW m \in Nat, NEW n \in Nat, NEW e \in Entropies, NEW c \in 0 .. Mask, NEW d \in Nat,
         m < n \/ (m = n /\ c < d)
  PROVE  Numbered!Id(m, e, c) < Numbered!Id(n, e, d)
<1> DEFINE K == Cardinality(Entropies) * Numbered!Scale
<1>1. Cardinality(Entropies) \in Nat /\ Cardinality(Entropies) # 0 /\ Numbered!Scale \in Nat /\ Numbered!Scale = Mask + 1 /\ e \in Nat
  BY FS_CardinalityType, FS_EmptySet, NumberedFinite DEF Numbered!IdsAssumption, Numbered!Scale
<1>2. K \in Nat /\ K >= Numbered!Scale
  <2>1. K \in Nat
    BY <1>1
  <2>2. CASE Cardinality(Entropies) = 1
    BY <1>1, <2>2
  <2>3. CASE Cardinality(Entropies) # 1
    <3>1. 1 * Numbered!Scale + Numbered!Scale <= K
      BY <1>1, <2>3, Product
    <3> QED BY <1>1, <2>1, <3>1
  <2> QED BY <2>1, <2>2, <2>3
<1>3. e * Numbered!Scale \in Int /\ m * K \in Int /\ n * K \in Int
  BY <1>1, <1>2
<1>4. CASE m < n
  <2>1. m * K + K <= n * K
    BY <1>2, <1>4, Product
  <2> HIDE DEF K
  <2>2. m * K + e * Numbered!Scale + c < n * K + e * Numbered!Scale + d
    BY <1>1, <1>2, <1>3, <2>1 DEF Numbered!IdsAssumption
  <2> QED BY <2>2, NumberedCardinality DEF Numbered!Id, K
<1>5. CASE m = n /\ c < d
  BY <1>3, <1>5, NumberedCardinality, NumberedFinite DEF Numbered!Id, Numbered!IdsAssumption
<1> QED BY <1>4, <1>5

LEMMA Ahead ==
  ASSUME NEW k \in Nat, NEW t \in Int, NEW m \in Int, t <= m
  PROVE  k * (t - m) <= 0 /\ k * (t - m) \in Int
<1> DEFINE x == m - t
<1>1. x \in Nat /\ k * x >= 0 /\ k * x \in Int
  OBVIOUS
<1>2. k * (t - m) = 0 - k * x
  OBVIOUS
<1> QED BY <1>1, <1>2

LEMMA Issued ==
  ASSUME Numbered!IdsAssumption, IdsInv, NEW m \in Nat, NEW c \in 0 .. Mask, NEW e \in Entropies, NEW p \in Nat,
         ids' = Append(ids, Numbered!Id(m, e, c)), owners' = Append(owners, p), last' = m, counter' = c + 1, entropy' = e,
         now' = now,
         ids # <<>> /\ owners[Len(owners)] = p => ids[Len(ids)] < Numbered!Id(m, e, c),
         Mask * (m - MaxClock) + c <= Len(ids)
  PROVE  IdsInv'
<1>1. Numbered!Id(m, e, c) \in Int
  BY IdInt DEF Numbered!IdsAssumption
<1>2. /\ ids' \in Seq(Int) /\ owners' \in Seq(Nat) /\ Len(ids') = Len(ids) + 1 /\ Len(owners') = Len(owners) + 1
      /\ ids'[Len(ids')] = Numbered!Id(m, e, c) /\ owners'[Len(owners')] = p /\ Len(ids') = Len(owners') /\ Len(ids) \in Nat
      /\ \A i \in 1 .. Len(ids) : ids'[i] = ids[i] /\ owners'[i] = owners[i]
  BY <1>1 DEF IdsInv
<1>3. ASSUME NEW i \in 2 .. Len(ids'), owners'[i] = owners'[i - 1] PROVE ids'[i - 1] < ids'[i]
  <2>1. CASE i = Len(ids')
    <3>1. i - 1 = Len(ids) /\ Len(ids) \in 1 .. Len(ids) /\ ids # <<>>
      BY <1>2, <2>1 DEF IdsInv
    <3>2. ids'[i - 1] = ids[Len(ids)] /\ owners'[i - 1] = owners[Len(owners)] /\ owners'[i] = p
      BY <1>2, <2>1, <3>1 DEF IdsInv
    <3> QED BY <1>2, <1>3, <2>1, <3>1, <3>2
  <2>2. CASE i # Len(ids')
    <3>1. i \in 2 .. Len(ids) /\ i \in 1 .. Len(ids) /\ i - 1 \in 1 .. Len(ids)
      BY <1>2, <2>2
    <3> QED BY <1>2, <1>3, <3>1 DEF IdsInv, Numbered!MonotonePerProcess
  <2> QED BY <2>1, <2>2
<1>4. Numbered!MonotonePerProcess'
  BY <1>3 DEF Numbered!MonotonePerProcess
<1>5. Mask * (last' - MaxClock) + counter' <= Len(ids')
  <2>1. Mask * (m - MaxClock) \in Int
    BY DEF Numbered!IdsAssumption
  <2> QED BY <1>2, <2>1 DEF Numbered!IdsAssumption
<1>6. ids' # <<>> => counter' >= 1 /\ ids'[Len(ids')] = Numbered!Id(last', entropy', counter' - 1)
  BY <1>2
<1> QED BY <1>2, <1>4, <1>5, <1>6 DEF IdsInv, Numbered!IdsAssumption

LEMMA IdsStep ==
  ASSUME Numbered!IdsAssumption, IdsInv, [Numbered!Next]_Numbered!vars
  PROVE  IdsInv'
<1>p. Numbered!Process \in Nat /\ (owners # <<>> => Numbered!Process = owners[Len(owners)])
  BY DEF Numbered!Process, Numbered!Last, IdsInv
<1>t. Mask \in Nat /\ MaxClock \in Nat /\ last \in Nat /\ now \in Nat /\ now <= MaxClock /\ counter \in Nat /\ Len(ids) \in Nat
  BY DEF IdsInv, Numbered!IdsAssumption
<1>1. CASE Numbered!NextId(Numbered!Process)
  <2> DEFINE r == Numbered!Reading(now)
  <2>1. /\ r[1] \in Nat /\ r[2] \in 0 .. Mask
        /\ ids # <<>> => last < r[1] \/ (last = r[1] /\ counter - 1 < r[2])
    BY <1>t DEF Numbered!Reading, IdsInv
  <2>2. Mask * (r[1] - MaxClock) + r[2] <= Len(ids)
    <3>1. CASE now > last
      BY <1>t, <3>1, Ahead DEF Numbered!Reading
    <3>2. CASE now <= last /\ counter >= Mask
      <4>1. Mask * (last + 1 - MaxClock) = Mask * (last - MaxClock) + Mask /\ Mask * (last - MaxClock) \in Int
        BY <1>t
      <4> QED BY <1>t, <3>2, <4>1 DEF Numbered!Reading, IdsInv
    <3>3. CASE now <= last /\ counter < Mask
      BY <1>t, <3>3 DEF Numbered!Reading, IdsInv
    <3> QED BY <1>t, <3>1, <3>2, <3>3
  <2>3. ids # <<>> => ids[Len(ids)] < Numbered!Id(r[1], entropy, r[2])
    <3>1. SUFFICES ASSUME ids # <<>> PROVE ids[Len(ids)] < Numbered!Id(r[1], entropy, r[2])
      OBVIOUS
    <3>2. counter - 1 \in 0 .. Mask
      BY <3>1, <1>t DEF IdsInv
    <3> HIDE DEF r
    <3> QED BY <2>1, <3>1, <3>2, <1>t, IdOrder DEF IdsInv
  <2>4. /\ ids' = Append(ids, Numbered!Id(r[1], entropy, r[2])) /\ owners' = Append(owners, Numbered!Process) /\ last' = r[1]
        /\ counter' = r[2] + 1 /\ entropy' = entropy /\ now' = now
    BY <1>1 DEF Numbered!NextId
  <2>5. entropy \in Entropies
    BY DEF IdsInv
  <2> HIDE DEF r
  <2> QED BY <1>p, <2>1, <2>2, <2>3, <2>4, <2>5, Issued
<1>2. CASE Numbered!Clock
  BY <1>2 DEF Numbered!Clock, IdsInv, Numbered!MonotonePerProcess, Numbered!Id
<1>3. CASE Numbered!Restart
  <2>1. PICK e \in Entropies : entropy' = e /\ last' = now /\ counter' = 0 + 1 /\ ids' = Append(ids, Numbered!Id(now, e, 0))
                               /\ owners' = Append(owners, Numbered!Process + 1) /\ now' = now
    BY <1>3 DEF Numbered!Restart
  <2>2. Mask * (now - MaxClock) + 0 <= Len(ids)
    BY <1>t, Ahead
  <2>3. ids # <<>> => owners[Len(owners)] # Numbered!Process + 1
    BY <1>p DEF IdsInv
  <2>4. 0 \in 0 .. Mask /\ Numbered!Process + 1 \in Nat
    BY <1>t, <1>p
  <2> QED BY <1>t, <2>1, <2>2, <2>3, <2>4, Issued
<1>4. CASE UNCHANGED Numbered!vars
  BY <1>4 DEF Numbered!vars, IdsInv, Numbered!MonotonePerProcess
<1> QED BY <1>1, <1>2, <1>3, <1>4 DEF Numbered!Next

LEMMA IdsInit ==
  ASSUME Numbered!IdsAssumption, Numbered!Init
  PROVE  IdsInv
<1>1. Mask * (0 - MaxClock) <= 0 /\ Mask * (0 - MaxClock) \in Int
  BY Ahead DEF Numbered!IdsAssumption
<1> QED BY <1>1 DEF Numbered!Init, IdsInv, Numbered!MonotonePerProcess, Numbered!IdsAssumption

LEMMA IdsSafe ==
  ASSUME Numbered!IdsAssumption, IdsInv
  PROVE  Numbered!IdsGrow
<1>1. Mask * (last - MaxClock) \in Int /\ counter \in Nat /\ Len(ids) \in Nat
  BY DEF IdsInv, Numbered!IdsAssumption
<1> QED BY <1>1 DEF IdsInv, Numbered!IdsGrow, Numbered!AheadBounded

\* Batch ids (batch_ids.rs): for any counter width, entropies and clock a process's ids grow, also when
\* the clock steps back, and the generator runs ahead of the clock only by what it issued.
THEOREM IdsOrdered == ASSUME Numbered!IdsAssumption PROVE Numbered!Spec => []Numbered!IdsGrow
<1>1. IdsInv /\ [Numbered!Next]_Numbered!vars => IdsInv'
  BY IdsStep
<1>2. IdsInv => Numbered!IdsGrow
  BY IdsSafe
<1> QED BY IdsInit, <1>1, <1>2, PTL DEF Numbered!Spec

-----------------------------------------------------------------------------
(* Batch sizes.                                                            *)

\* Configurations in force, and overrides of them.
Configs == [fixed : Nat \cup {None}, target : Nat, max : Nat]
TuningsAllowed == [fixed : Nat \cup {None}, target : Nat \cup {None}, max : Nat \cup {None}] \cup {None}

\* A window that was begun has a cap.
TrainingOK(tr) ==
  /\ tr \in [previous : Nat \cup {None}, evaluators : Nat, cap : (Nat \ {0}) \cup {None}]
  /\ tr.previous # None => tr.cap # None

\* The size is within the configuration in force, and the mean between costs that occurred.
SizingInv ==
  /\ stored \in Tunings /\ applied \in Tunings /\ config = Sized!Effective(applied)
  /\ size \in Nat /\ MinSize <= size /\ size <= Sized!MaxOf(config)
  /\ (config.fixed # None => size = Sized!Clamp(config.fixed, MinSize, Sized!MaxOf(config)))
  /\ saved \in Nat \ {0} /\ pause \in 0 .. Cooldown
  /\ (mean # None => mean \in Int /\ \E a, b \in Costs : a <= mean /\ mean <= b)
  /\ remaining \in Nat /\ evaluators \in Nat /\ cost \in Costs
  /\ TrainingOK(training)

LEMMA QuotientBelow == ASSUME NEW a \in Nat, NEW b \in Nat, b > 0 PROVE (a \div b) * b <= a /\ a \div b \in Nat
OBVIOUS

LEMMA ProductMonotone == ASSUME NEW q \in Nat, NEW b \in Nat, NEW n \in Nat, n <= q PROVE (n - 1) * b <= (q - 1) * b
OBVIOUS

LEMMA ProductLess == ASSUME NEW q \in Nat, NEW b \in Nat PROVE (q - 1) * b = q * b - b
OBVIOUS

LEMMA CeilDivBelow ==
  ASSUME NEW a \in Nat, NEW b \in Nat, b > 0, NEW n \in Nat, n <= Sized!CeilDiv(a, b)
  PROVE  (n - 1) * b < a
<1> DEFINE q == (a + b - 1) \div b
<1>1. a + b - 1 \in Nat
  OBVIOUS
<1>2. q * b <= a + b - 1 /\ q \in Nat
  BY <1>1, QuotientBelow
<1>3. n <= q
  BY DEF Sized!CeilDiv
<1> HIDE DEF q
<1>4. (n - 1) * b <= (q - 1) * b /\ (q - 1) * b = q * b - b
  BY <1>2, <1>3, ProductMonotone, ProductLess
<1>5. (n - 1) * b \in Int /\ q * b \in Int
  BY <1>2
<1> QED BY <1>2, <1>4, <1>5

LEMMA CeilDivNat == ASSUME NEW a \in Nat, NEW b \in Nat, b > 0 PROVE Sized!CeilDiv(a, b) \in Nat
<1>1. a + b - 1 \in Nat
  OBVIOUS
<1> QED BY <1>1, QuotientBelow DEF Sized!CeilDiv

LEMMA FourTimes == ASSUME NEW m \in Int, NEW e \in Nat PROVE m * 4 * e = m * (4 * e)
OBVIOUS

LEMMA RoundInt == ASSUME NEW a \in Nat, NEW b \in Nat, b > 0 PROVE Sized!Round(a, b) \in Int
<1>1. 2 * a + b \in Nat /\ 2 * b \in Nat /\ 2 * b > 0
  OBVIOUS
<1> QED BY <1>1, QuotientBelow DEF Sized!Round

LEMMA EffectiveConfig == ASSUME Sized!SizesAssumption, NEW t \in Tunings PROVE Sized!Effective(t) \in Configs
<1>1. Base \in Configs /\ t \in TuningsAllowed
  BY DEF Sized!SizesAssumption, Configs, TuningsAllowed
<1>2. DOMAIN Base = {"fixed", "target", "max"}
  BY <1>1 DEF Configs
<1>3. CASE t = None
  BY <1>1, <1>3 DEF Sized!Effective
<1>4. CASE t # None
  <2>1. t \in [fixed : Nat \cup {None}, target : Nat \cup {None}, max : Nat \cup {None}]
    BY <1>1, <1>4 DEF TuningsAllowed
  <2>2. Sized!Effective(t) = [f \in {"fixed", "target", "max"} |-> IF t[f] = None THEN Base[f] ELSE t[f]]
    BY <1>2, <1>4 DEF Sized!Effective
  <2> QED BY <1>1, <2>1, <2>2 DEF Configs
<1> QED BY <1>3, <1>4

LEMMA ClampWithin ==
  ASSUME NEW n \in Int, NEW lo \in Nat, NEW hi \in Nat, lo <= hi
  PROVE  Sized!Clamp(n, lo, hi) \in Nat /\ lo <= Sized!Clamp(n, lo, hi) /\ Sized!Clamp(n, lo, hi) <= hi
BY DEF Sized!Clamp, Sized!Larger, Sized!Smaller

LEMMA MaxOfNat == ASSUME Sized!SizesAssumption, NEW c \in Configs PROVE Sized!MaxOf(c) \in Nat /\ MinSize <= Sized!MaxOf(c) /\ MinSize \in Nat \ {0}
BY DEF Sized!MaxOf, Sized!Larger, Configs, Sized!SizesAssumption

LEMMA SizeForWithin ==
  ASSUME Sized!SizesAssumption, NEW c \in Configs, NEW n \in Nat
  PROVE  /\ Sized!SizeFor(c, n) \in Nat /\ MinSize <= Sized!SizeFor(c, n) /\ Sized!SizeFor(c, n) <= Sized!MaxOf(c)
         /\ (c.fixed # None => Sized!SizeFor(c, n) = Sized!Clamp(c.fixed, MinSize, Sized!MaxOf(c)))
<1>1. c.fixed # None => c.fixed \in Nat
  BY DEF Configs
<1>2. Sized!MaxOf(c) \in Nat /\ MinSize <= Sized!MaxOf(c) /\ MinSize \in Nat
  BY MaxOfNat
<1>3. CASE c.fixed # None
  <2>1. Sized!SizeFor(c, n) = Sized!Clamp(c.fixed, MinSize, Sized!MaxOf(c)) /\ c.fixed \in Int
    BY <1>1, <1>3 DEF Sized!SizeFor
  <2> QED BY <1>2, <1>3, <2>1, ClampWithin
<1>4. CASE c.fixed = None
  <2>1. Sized!SizeFor(c, n) = Sized!Clamp(n, MinSize, Sized!MaxOf(c))
    BY <1>4 DEF Sized!SizeFor
  <2> QED BY <1>2, <1>4, <2>1, ClampWithin
<1> QED BY <1>3, <1>4

LEMMA SmoothedWithin ==
  ASSUME Sized!SizesAssumption, NEW c \in Costs, mean # None => mean \in Int /\ \E a, b \in Costs : a <= mean /\ mean <= b,
         NEW m \in Sized!Smoothed(mean, c)
  PROVE  m \in Nat \ {0} /\ \E a, b \in Costs : a <= m /\ m <= b
<1>1. c \in Nat \ {0} /\ Costs \subseteq Nat \ {0}
  BY DEF Sized!SizesAssumption
<1>2. CASE mean = None
  BY <1>1, <1>2 DEF Sized!Smoothed
<1>3. CASE mean # None
  <2>1. PICK a \in Costs, b \in Costs : a <= mean /\ mean <= b /\ mean \in Int
    BY <1>3
  <2>2. a \in Nat \ {0} /\ b \in Nat \ {0}
    BY <1>1
  <2>3. \/ m \in Int /\ mean < m /\ m <= c
        \/ m \in Int /\ c <= m /\ m < mean
        \/ m = c
    BY <1>1, <1>3, <2>1 DEF Sized!Smoothed
  <2>4. CASE m \in Int /\ mean < m /\ m <= c
    BY <1>1, <2>1, <2>2, <2>4
  <2>5. CASE m \in Int /\ c <= m /\ m < mean
    BY <1>1, <2>1, <2>2, <2>5
  <2>6. CASE m = c
    BY <1>1, <2>6
  <2> QED BY <2>3, <2>4, <2>5, <2>6
<1> QED BY <1>2, <1>3

LEMMA SizingInit == ASSUME Sized!SizesAssumption, Sized!Init PROVE SizingInv
<1>1. config = Sized!Effective(stored) /\ stored \in Tunings /\ config \in Configs
  BY EffectiveConfig DEF Sized!Init
<1>2. MinSize \in Nat \ {0} /\ Cooldown \in Nat
  BY DEF Sized!SizesAssumption
<1>3. size = Sized!SizeFor(config, MinSize) /\ size \in Nat /\ MinSize <= size /\ size <= Sized!MaxOf(config)
      /\ (config.fixed # None => size = Sized!Clamp(config.fixed, MinSize, Sized!MaxOf(config)))
  BY <1>1, <1>2, SizeForWithin DEF Sized!Init
<1>4. TrainingOK(training)
  BY DEF Sized!Init, TrainingOK, Sized!NoTraining
<1> QED BY <1>1, <1>2, <1>3, <1>4 DEF Sized!Init, SizingInv

LEMMA SettingsKeep ==
  ASSUME Sized!SizesAssumption, SizingInv, (\E t \in Tunings : Sized!SetTuning(t)) \/ Sized!Save
  PROVE  SizingInv'
<1>1. MinSize \in Nat \ {0}
  BY DEF Sized!SizesAssumption
<1> QED BY <1>1 DEF SizingInv, Sized!SetTuning, Sized!Save

LEMMA ReconfigureKeeps ==
  ASSUME Sized!SizesAssumption, SizingInv, Sized!Refresh \/ Sized!Restart
  PROVE  SizingInv'
<1> DEFINE n == IF Sized!Refresh THEN size ELSE saved
<1>1. applied' = stored /\ stored' = stored /\ config' = Sized!Effective(stored) /\ pause' = 0
      /\ saved' = saved /\ remaining' = remaining /\ evaluators' = evaluators /\ cost' = cost
  BY DEF Sized!Refresh, Sized!Restart, Sized!Reconfigured
<1>2. stored \in Tunings /\ size \in Nat /\ saved \in Nat
  BY DEF SizingInv
<1>3. config' \in Configs
  BY <1>1, <1>2, EffectiveConfig
<1>4. size' = Sized!SizeFor(config', size) \/ size' = Sized!SizeFor(config', saved)
  BY DEF Sized!Refresh, Sized!Restart, Sized!Restored
<1>5. /\ size' \in Nat /\ MinSize <= size' /\ size' <= Sized!MaxOf(config')
      /\ (config'.fixed # None => size' = Sized!Clamp(config'.fixed, MinSize, Sized!MaxOf(config')))
  BY <1>2, <1>3, <1>4, SizeForWithin
<1>6. TrainingOK(training')
  BY DEF Sized!Refresh, Sized!Restart, SizingInv, TrainingOK, Sized!NoTraining
<1>7. mean' = mean \/ mean' = None
  BY DEF Sized!Refresh, Sized!Restart
<1>8. 0 \in 0 .. Cooldown
  BY DEF Sized!SizesAssumption
<1> QED BY <1>1, <1>2, <1>5, <1>6, <1>7, <1>8 DEF SizingInv, Sized!MaxOf, Sized!Clamp

LEMMA ObserveKeeps == ASSUME Sized!SizesAssumption, SizingInv, Sized!Observe PROVE SizingInv'
<1>1. PICK m \in Sized!Smoothed(mean, cost) :
        /\ mean' = m
        /\ \/ config.fixed # None /\ size' = Sized!SizeFor(config, size) /\ pause' = pause
           \/ config.fixed = None /\ pause > 0 /\ pause' = pause - 1 /\ size' = size
           \/ /\ config.fixed = None /\ pause = 0
              /\ size' \in {size, Sized!NextSize(size, m, config.target)} /\ pause' \in {0, Cooldown}
  BY DEF Sized!Observe
<1>2. m \in Nat \ {0} /\ \E a, b \in Costs : a <= m /\ m <= b
  BY SmoothedWithin DEF SizingInv
<1>3. config = Sized!Effective(applied) /\ config \in Configs /\ config' = config /\ applied' = applied
  BY EffectiveConfig DEF SizingInv, Sized!Observe
<1>4. Sized!MaxOf(config) \in Nat /\ MinSize <= Sized!MaxOf(config) /\ MinSize \in Nat \ {0}
  BY <1>3, MaxOfNat
<1>5. Sized!NextSize(size, m, config.target) \in Nat /\ MinSize <= Sized!NextSize(size, m, config.target)
      /\ Sized!NextSize(size, m, config.target) <= Sized!MaxOf(config)
  <2>1. config.target \in Nat
    BY <1>3 DEF Configs
  <2>2. Sized!Round(config.target, m) \in Int
    BY <1>2, <2>1, RoundInt
  <2> QED BY <1>4, <2>2, ClampWithin DEF Sized!NextSize
<1>6. size \in Nat /\ MinSize <= size /\ size <= Sized!MaxOf(config)
      /\ (config.fixed # None => size = Sized!Clamp(config.fixed, MinSize, Sized!MaxOf(config)))
  BY DEF SizingInv
<1>7. /\ Sized!SizeFor(config, size) \in Nat /\ MinSize <= Sized!SizeFor(config, size) /\ Sized!SizeFor(config, size) <= Sized!MaxOf(config)
      /\ (config.fixed # None => Sized!SizeFor(config, size) = Sized!Clamp(config.fixed, MinSize, Sized!MaxOf(config)))
  BY <1>3, <1>6, SizeForWithin
<1>8. /\ size' \in Nat /\ MinSize <= size' /\ size' <= Sized!MaxOf(config)
      /\ (config.fixed # None => size' = Sized!Clamp(config.fixed, MinSize, Sized!MaxOf(config)))
  BY <1>1, <1>5, <1>6, <1>7
<1>9. pause' \in 0 .. Cooldown
  <2>1. Cooldown \in Nat /\ pause \in 0 .. Cooldown
    BY DEF Sized!SizesAssumption, SizingInv
  <2> QED BY <1>1, <2>1
<1>10. UNCHANGED <<stored, training, remaining, evaluators, saved, cost>>
  BY DEF Sized!Observe
<1> QED BY <1>1, <1>2, <1>3, <1>8, <1>9, <1>10 DEF SizingInv, TrainingOK

\* The window that is sized, the chunk it allows and what is left.
LEMMA ProduceDoes ==
  ASSUME Sized!SizesAssumption, SizingInv, Sized!Produce
  PROVE  \E tr, n :
           /\ tr = [previous |-> remaining, evaluators |-> evaluators,
                    cap |-> IF training.previous = None \/ remaining > training.previous \/ training.evaluators # evaluators
                              THEN Sized!Larger(Sized!CeilDiv(remaining, 4 * evaluators), MinSize) ELSE training.cap]
           /\ tr.cap \in Nat \ {0} /\ n \in Nat /\ n <= remaining /\ n <= tr.cap
           /\ remaining' = remaining - n /\ training' = [tr EXCEPT !.previous = remaining - n]
           /\ UNCHANGED <<stored, applied, config, size, pause, mean, evaluators, saved, cost>>
<1>1. remaining \in Nat \ {0} /\ evaluators \in Nat \ {0} /\ size \in Nat /\ MinSize \in Nat \ {0} /\ TrainingOK(training)
      /\ None \notin Nat
  BY DEF SizingInv, Sized!Produce, Sized!SizesAssumption
<1> DEFINE tr == Sized!Sizing(training, remaining, evaluators)
           n == Sized!Smaller(Sized!Chunk(tr), remaining)
           cap == IF training.previous = None \/ remaining > training.previous \/ training.evaluators # evaluators
                    THEN Sized!Larger(Sized!CeilDiv(remaining, 4 * evaluators), MinSize) ELSE training.cap
<1>2. tr = [previous |-> remaining, evaluators |-> evaluators, cap |-> cap]
  BY <1>1 DEF Sized!Sizing
<1>3. cap \in Nat \ {0}
  <2>1. Sized!CeilDiv(remaining, 4 * evaluators) \in Nat
    <3>1. 4 * evaluators \in Nat /\ 4 * evaluators > 0
      BY <1>1
    <3> QED BY <1>1, <3>1, CeilDivNat
  <2>2. Sized!Larger(Sized!CeilDiv(remaining, 4 * evaluators), MinSize) \in Nat \ {0}
    BY <1>1, <2>1 DEF Sized!Larger
  <2>3. training.previous # None => training.cap \in Nat \ {0}
    BY <1>1 DEF TrainingOK
  <2> QED BY <2>2, <2>3
<1>4. remaining' = remaining - n /\ training' = [tr EXCEPT !.previous = @ - n]
      /\ UNCHANGED <<stored, applied, config, size, pause, mean, evaluators, saved, cost>>
  BY DEF Sized!Produce
<1> HIDE DEF cap
<1>5. tr.cap = cap /\ tr.previous = remaining
  BY <1>2
<1>6. n \in Nat /\ n <= remaining /\ n <= cap
  BY <1>1, <1>3, <1>5 DEF Sized!Chunk, Sized!Smaller
<1> HIDE DEF tr, n
<1>7. training' = [tr EXCEPT !.previous = remaining - n]
  BY <1>4, <1>5
<1>8. tr = [previous |-> remaining, evaluators |-> evaluators,
            cap |-> IF training.previous = None \/ remaining > training.previous \/ training.evaluators # evaluators
                      THEN Sized!Larger(Sized!CeilDiv(remaining, 4 * evaluators), MinSize) ELSE training.cap]
  BY <1>2 DEF cap
<1> QED BY <1>3, <1>4, <1>5, <1>6, <1>7, <1>8

LEMMA ProduceKeeps == ASSUME Sized!SizesAssumption, SizingInv, Sized!Produce PROVE SizingInv'
<1>1. PICK tr, n :
           /\ tr = [previous |-> remaining, evaluators |-> evaluators,
                    cap |-> IF training.previous = None \/ remaining > training.previous \/ training.evaluators # evaluators
                              THEN Sized!Larger(Sized!CeilDiv(remaining, 4 * evaluators), MinSize) ELSE training.cap]
           /\ tr.cap \in Nat \ {0} /\ n \in Nat /\ n <= remaining /\ n <= tr.cap
           /\ remaining' = remaining - n /\ training' = [tr EXCEPT !.previous = remaining - n]
           /\ UNCHANGED <<stored, applied, config, size, pause, mean, evaluators, saved, cost>>
  BY ProduceDoes
<1>2. remaining \in Nat /\ evaluators \in Nat /\ None \notin Nat
  BY DEF SizingInv, Sized!SizesAssumption
<1>3. training' = [previous |-> remaining - n, evaluators |-> evaluators, cap |-> tr.cap] /\ remaining - n \in Nat
  BY <1>1, <1>2
<1>4. TrainingOK(training')
  BY <1>1, <1>2, <1>3 DEF TrainingOK
<1> QED BY <1>1, <1>2, <1>3, <1>4 DEF SizingInv

LEMMA WindowsKeep ==
  ASSUME Sized!SizesAssumption, SizingInv, (\E w \in Windows : Sized!OpenWindow(w)) \/ Sized!Environment
  PROVE  SizingInv'
<1>1. Windows \subseteq Nat /\ Costs \subseteq Nat \ {0} /\ MaxEvaluators \in Nat
  BY DEF Sized!SizesAssumption
<1>2. remaining' \in Nat /\ evaluators' \in Nat /\ cost' \in Costs
  BY <1>1 DEF Sized!OpenWindow, Sized!Environment, SizingInv
<1>3. UNCHANGED <<stored, applied, config, size, pause, mean, training, saved>>
  BY DEF Sized!OpenWindow, Sized!Environment
<1> QED BY <1>2, <1>3 DEF SizingInv

LEMMA SizingStep == ASSUME Sized!SizesAssumption, SizingInv, [Sized!Next]_Sized!vars PROVE SizingInv'
<1>1. CASE Sized!Next
  BY <1>1, SettingsKeep, ReconfigureKeeps, ObserveKeeps, ProduceKeeps, WindowsKeep DEF Sized!Next
<1>2. CASE Sized!vars' = Sized!vars
  BY <1>2 DEF Sized!vars, SizingInv
<1> QED BY <1>1, <1>2

LEMMA InvSizes == ASSUME Sized!SizesAssumption, SizingInv PROVE Sized!TypeOK /\ Sized!SizeRespectsConfig
<1>1. config \in Configs
  BY EffectiveConfig DEF SizingInv
<1>2. Sized!MaxOf(config) \in Nat /\ MinSize \in Nat \ {0} /\ None \notin Nat
  BY <1>1, MaxOfNat DEF Sized!SizesAssumption
<1>3. Sized!SizeRespectsConfig
  BY <1>2 DEF SizingInv, Sized!SizeRespectsConfig
<1>4. training.previous # None => training.previous \in Nat /\ training.cap \in Nat \ {0}
  BY DEF SizingInv, TrainingOK
<1>5. Sized!TypeOK
  BY <1>2, <1>4 DEF SizingInv, Sized!TypeOK
<1> QED BY <1>3, <1>5

\* Only Produce takes from a window, at most its cap, which is set at its first chunk.
LEMMA StepsShare ==
  ASSUME Sized!SizesAssumption, SizingInv, [Sized!Next]_Sized!vars
  PROVE  [Sized!CapSteady /\ Sized!ChunkShared]_Sized!vars
<1>1. remaining \in Nat /\ evaluators \in Nat /\ MinSize \in Nat \ {0} /\ None \notin Nat /\ Windows \subseteq Nat
  BY DEF SizingInv, Sized!SizesAssumption
<1>2. SUFFICES ASSUME remaining' < remaining
               PROVE  Sized!CapSteady /\ Sized!ChunkShared
  BY DEF Sized!CapSteady, Sized!ChunkShared
<1>3. Sized!Produce
  <2>1. ASSUME NEW w \in Windows, Sized!OpenWindow(w) PROVE FALSE
    BY <1>1, <1>2, <2>1 DEF Sized!OpenWindow
  <2>2. Sized!Next
    BY <1>1, <1>2 DEF Sized!vars
  <2> QED BY <1>1, <1>2, <2>1, <2>2 DEF Sized!Next, Sized!SetTuning, Sized!Refresh, Sized!Save,
       Sized!Restart, Sized!Observe, Sized!Environment
<1>4. PICK tr, n :
           /\ tr = [previous |-> remaining, evaluators |-> evaluators,
                    cap |-> IF training.previous = None \/ remaining > training.previous \/ training.evaluators # evaluators
                              THEN Sized!Larger(Sized!CeilDiv(remaining, 4 * evaluators), MinSize) ELSE training.cap]
           /\ tr.cap \in Nat \ {0} /\ n \in Nat /\ n <= remaining /\ n <= tr.cap
           /\ remaining' = remaining - n /\ training' = [tr EXCEPT !.previous = remaining - n]
           /\ UNCHANGED <<stored, applied, config, size, pause, mean, evaluators, saved, cost>>
  BY <1>3, ProduceDoes
<1>5. Sized!CapSteady
  <2>1. SUFFICES ASSUME training.previous = remaining, training.evaluators = evaluators
                 PROVE  training'.cap = training.cap
    BY DEF Sized!CapSteady
  <2>2. tr.cap = training.cap
    BY <1>1, <1>4, <2>1
  <2> QED BY <1>4, <2>2
<1>6. Sized!ChunkShared
  <2>1. SUFFICES ASSUME training.previous \in {None, 0}, n > MinSize
                 PROVE  (n - 1) * 4 * evaluators < remaining
    BY <1>1, <1>4 DEF Sized!ChunkShared
  <2>2. remaining > 0 /\ evaluators > 0
    BY <1>1, <1>2, <1>3, <1>4 DEF Sized!Produce
  <2>3. tr.cap = Sized!Larger(Sized!CeilDiv(remaining, 4 * evaluators), MinSize)
    BY <1>1, <1>4, <2>1, <2>2
  <2>4. 4 * evaluators \in Nat /\ 4 * evaluators > 0
    BY <1>1, <2>2
  <2>5. n <= Sized!CeilDiv(remaining, 4 * evaluators)
    BY <1>1, <1>4, <2>1, <2>3, <2>4, CeilDivNat DEF Sized!Larger
  <2>6. (n - 1) * (4 * evaluators) < remaining
    BY <1>1, <1>4, <2>4, <2>5, CeilDivBelow
  <2>7. (n - 1) * 4 * evaluators = (n - 1) * (4 * evaluators)
    BY <1>1, <1>4, FourTimes
  <2> QED BY <2>6, <2>7
<1> QED BY <1>5, <1>6

\* Batch sizes (runners/queue.rs, queue_tuning): for any tunings, costs and windows the size stays within
\* the limits in force and is the fixed one when there is one.
THEOREM SizesFollow == ASSUME Sized!SizesAssumption PROVE Sized!Spec => [](Sized!TypeOK /\ Sized!SizeRespectsConfig)
<1>1. Sized!Init => SizingInv
  BY SizingInit
<1>2. SizingInv /\ [Sized!Next]_Sized!vars => SizingInv'
  BY SizingStep
<1>3. SizingInv => Sized!TypeOK /\ Sized!SizeRespectsConfig
  BY InvSizes
<1> QED BY <1>1, <1>2, <1>3, PTL DEF Sized!Spec

\* A training window keeps its cap while it lasts and its evaluators stay, and its first chunk leaves
\* work for every evaluator.
THEOREM WindowsShared == ASSUME Sized!SizesAssumption PROVE Sized!Spec => [][Sized!CapSteady /\ Sized!ChunkShared]_Sized!vars
<1>1. Sized!Init => SizingInv
  BY SizingInit
<1>2. SizingInv /\ [Sized!Next]_Sized!vars => SizingInv'
  BY SizingStep
<1>3. SizingInv /\ [Sized!Next]_Sized!vars => [Sized!CapSteady /\ Sized!ChunkShared]_Sized!vars
  BY StepsShare
<1> QED BY <1>1, <1>2, <1>3, PTL DEF Sized!Spec

\* Batch sizing as a whole.
THEOREM SizesSafe == ASSUME Sized!SizesAssumption PROVE Sized!Spec => Sized!SizesRespected
BY SizesFollow, WindowsShared, PTL DEF Sized!SizesRespected

-----------------------------------------------------------------------------
(* Process workers.                                                        *)

\* What a worker writes: answers, and all it should not.
Frames == [kind : {"answer", "text", "progress", "odd", "badjson", "overlimit"}, id : Nat, ok : BOOLEAN]

\* What is on its way, oldest first: answers in out, then s, then requests in in; b bounds them.
Order(in, out, s, b) ==
  /\ in \in Seq(Nat) /\ out \in Seq(Frames) /\ s \in Nat /\ b \in Nat
  /\ s <= b
  /\ \A j \in 1 .. Len(in) : in[j] > s /\ in[j] > 0 /\ in[j] <= b
  /\ \A i, j \in 1 .. Len(in) : i < j => in[i] < in[j]
  /\ \A i \in 1 .. Len(out) : out[i].kind = "answer" =>
       /\ out[i].id <= b /\ (s # 0 => out[i].id < s)
       /\ \A j \in 1 .. Len(in) : out[i].id < in[j]
  /\ \A i, j \in 1 .. Len(out) : i < j /\ out[i].kind = "answer" /\ out[j].kind = "answer" => out[i].id < out[j].id

LEMMA AnswerFrame == ASSUME NEW s \in Nat, NEW ok \in BOOLEAN PROVE Worker!Answer(s, ok) \in Frames
BY DEF Worker!Answer, Frames

LEMMA NoteFrame ==
  ASSUME NEW k \in {"text", "progress", "odd", "badjson", "overlimit"}
  PROVE  Worker!Note(k) \in Frames /\ Worker!Note(k).kind # "answer"
BY DEF Worker!Note, Frames

LEMMA OrderSend ==
  ASSUME NEW in, NEW out, NEW s, NEW b, Order(in, out, s, b), NEW x \in Nat, x > b
  PROVE  Order(Append(in, x), out, s, x)
<1>1. /\ Append(in, x) \in Seq(Nat) /\ Len(Append(in, x)) = Len(in) + 1 /\ Append(in, x)[Len(in) + 1] = x
      /\ \A j \in 1 .. Len(in) : Append(in, x)[j] = in[j]
      /\ Len(in) \in Nat
  BY DEF Order
<1> DEFINE t == Append(in, x)
<1> HIDE DEF t
<1>2. \A j \in 1 .. Len(t) : j \in 1 .. Len(in) \/ j = Len(in) + 1
  BY <1>1 DEF t
<1>3. \A i \in 1 .. Len(out) : out[i] \in Frames
  BY DEF Order
<1>4. \A i \in 1 .. Len(out) : out[i].id \in Nat
  BY <1>3 DEF Frames
<1>5. \A j \in 1 .. Len(in) : in[j] \in Nat
  BY DEF Order
<1>6. \A i, j \in 1 .. Len(t) : i < j => t[i] < t[j]
  BY <1>1, <1>2, <1>5 DEF Order, t
<1>7. \A j \in 1 .. Len(t) : t[j] > s /\ t[j] > 0 /\ t[j] <= x
  BY <1>1, <1>2, <1>5 DEF Order, t
<1>8. \A i \in 1 .. Len(out) : out[i].kind = "answer" =>
       /\ out[i].id <= x /\ (s # 0 => out[i].id < s)
       /\ \A j \in 1 .. Len(t) : out[i].id < t[j]
  BY <1>1, <1>2, <1>4, <1>5 DEF Order, t
<1>9. out \in Seq(Frames) /\ s \in Nat /\ x \in Nat /\ s <= x /\ t \in Seq(Nat)
  BY <1>1 DEF Order, t
<1>10. \A i, j \in 1 .. Len(out) : i < j /\ out[i].kind = "answer" /\ out[j].kind = "answer" => out[i].id < out[j].id
  BY DEF Order
<1>11. Order(t, out, s, x)
  BY <1>6, <1>7, <1>8, <1>9, <1>10 DEF Order
<1> QED BY <1>11 DEF t

LEMMA OrderTake ==
  ASSUME NEW in, NEW out, NEW b, Order(in, out, 0, b), in # <<>>
  PROVE  Order(Tail(in), out, Head(in), b) /\ Head(in) \in 1 .. b
<1>1. /\ Tail(in) \in Seq(Nat) /\ Len(Tail(in)) = Len(in) - 1 /\ Head(in) = in[1] /\ Len(in) \in Nat /\ Len(in) > 0
      /\ \A j \in 1 .. Len(in) - 1 : Tail(in)[j] = in[j + 1]
      /\ \A j \in 1 .. Len(in) : in[j] \in Nat
  BY DEF Order
<1> DEFINE t == Tail(in)
<1> HIDE DEF t
<1>2. /\ t \in Seq(Nat) /\ Len(t) = Len(in) - 1 /\ \A j \in 1 .. Len(t) : t[j] = in[j + 1] /\ j + 1 \in 1 .. Len(in) /\ t[j] \in Nat
  BY <1>1 DEF t
<1>3. 1 \in 1 .. Len(in) /\ in[1] \in 1 .. b
  BY <1>1 DEF Order
<1>4. \A j \in 1 .. Len(t) : t[j] > in[1] /\ t[j] > 0 /\ t[j] <= b
  BY <1>1, <1>2, <1>3 DEF Order
<1>5. ASSUME NEW i \in 1 .. Len(t), NEW j \in 1 .. Len(t), i < j PROVE t[i] < t[j]
  <2>1. t[i] = in[i + 1] /\ t[j] = in[j + 1] /\ i + 1 \in 1 .. Len(in) /\ j + 1 \in 1 .. Len(in) /\ i + 1 < j + 1
    BY <1>2, <1>5
  <2>2. \A k, l \in 1 .. Len(in) : k < l => in[k] < in[l]
    BY DEF Order
  <2> QED BY <2>1, <2>2
<1>6. \A i \in 1 .. Len(out) : out[i].kind = "answer" =>
       /\ out[i].id <= b /\ out[i].id < in[1]
       /\ \A j \in 1 .. Len(t) : out[i].id < t[j]
  BY <1>2, <1>3 DEF Order
<1> QED BY <1>1, <1>2, <1>3, <1>4, <1>5, <1>6 DEF Order, t

LEMMA OrderRespond ==
  ASSUME NEW in, NEW out, NEW s, NEW b, Order(in, out, s, b), s # 0, NEW ok \in BOOLEAN
  PROVE  Order(in, Append(out, Worker!Answer(s, ok)), 0, b)
<1> DEFINE f == Worker!Answer(s, ok)
           t == Append(out, f)
<1>1. f \in Frames /\ f.kind = "answer" /\ f.id = s /\ s \in Nat
  BY AnswerFrame DEF Worker!Answer, Order
<1> HIDE DEF f
<1>2. /\ t \in Seq(Frames) /\ Len(t) = Len(out) + 1 /\ t[Len(out) + 1] = f /\ Len(out) \in Nat
      /\ \A j \in 1 .. Len(out) : t[j] = out[j] /\ out[j] \in Frames
  BY <1>1 DEF Order
<1> HIDE DEF t
<1>3. \A j \in 1 .. Len(t) : j \in 1 .. Len(out) \/ j = Len(out) + 1
  BY <1>2
<1>4. \A j \in 1 .. Len(in) : in[j] \in Nat
  BY DEF Order
<1>5. \A j \in 1 .. Len(out) : out[j].id \in Nat
  BY <1>2 DEF Frames
<1>6. \A i \in 1 .. Len(t) : t[i].kind = "answer" => t[i].id <= b /\ \A j \in 1 .. Len(in) : t[i].id < in[j]
  BY <1>1, <1>2, <1>3, <1>4, <1>5 DEF Order
<1>7. ASSUME NEW i \in 1 .. Len(t), NEW j \in 1 .. Len(t), i < j, t[i].kind = "answer", t[j].kind = "answer"
      PROVE  t[i].id < t[j].id
  <2>1. i \in 1 .. Len(out) /\ t[i] = out[i]
    BY <1>2, <1>3, <1>7
  <2>2. CASE j \in 1 .. Len(out)
    <3>1. t[j] = out[j]
      BY <1>2, <2>2
    <3> QED BY <1>7, <2>1, <2>2, <3>1 DEF Order
  <2>3. CASE j = Len(out) + 1
    BY <1>1, <1>2, <1>7, <2>1, <2>3 DEF Order
  <2> QED BY <1>3, <2>2, <2>3
<1>8. \A j \in 1 .. Len(in) : in[j] > 0 /\ in[j] <= b
  BY DEF Order
<1> QED BY <1>2, <1>6, <1>7, <1>8 DEF Order, t, f

LEMMA OrderNote ==
  ASSUME NEW in, NEW out, NEW s, NEW b, Order(in, out, s, b), NEW f \in Frames, f.kind # "answer"
  PROVE  Order(in, Append(out, f), s, b)
<1> DEFINE t == Append(out, f)
<1>2. /\ t \in Seq(Frames) /\ Len(t) = Len(out) + 1 /\ t[Len(out) + 1] = f /\ Len(out) \in Nat
      /\ \A j \in 1 .. Len(out) : t[j] = out[j]
  BY DEF Order
<1> HIDE DEF t
<1>3. \A j \in 1 .. Len(t) : j \in 1 .. Len(out) \/ j = Len(out) + 1
  BY <1>2
<1> QED BY <1>2, <1>3 DEF Order, t

LEMMA OrderRead ==
  ASSUME NEW in, NEW out, NEW s, NEW b, Order(in, out, s, b), out # <<>>
  PROVE  Order(in, Tail(out), s, b) /\ Head(out) \in Frames
<1> DEFINE t == Tail(out)
<1>1. /\ t \in Seq(Frames) /\ Len(t) = Len(out) - 1 /\ Len(out) \in Nat /\ Len(out) > 0
      /\ \A j \in 1 .. Len(out) - 1 : t[j] = out[j + 1]
      /\ Head(out) = out[1] /\ out[1] \in Frames
  BY DEF Order
<1> HIDE DEF t
<1>2. \A j \in 1 .. Len(t) : t[j] = out[j + 1] /\ j + 1 \in 1 .. Len(out)
  BY <1>1
<1>3. \A i \in 1 .. Len(t) : t[i].kind = "answer" =>
       /\ t[i].id <= b /\ (s # 0 => t[i].id < s) /\ \A j \in 1 .. Len(in) : t[i].id < in[j]
  BY <1>2 DEF Order
<1>4. ASSUME NEW i \in 1 .. Len(t), NEW j \in 1 .. Len(t), i < j, t[i].kind = "answer", t[j].kind = "answer"
      PROVE  t[i].id < t[j].id
  <2>1. t[i] = out[i + 1] /\ t[j] = out[j + 1] /\ i + 1 \in 1 .. Len(out) /\ j + 1 \in 1 .. Len(out) /\ i + 1 < j + 1
    BY <1>2, <1>4
  <2> QED BY <1>4, <2>1 DEF Order
<1> QED BY <1>1, <1>3, <1>4 DEF Order, t

LEMMA OrderPut ==
  ASSUME NEW in, NEW out, NEW s, NEW b, Order(in, out, s, b), NEW f \in Frames, f.kind # "answer"
  PROVE  Order(in, <<f>> \o out, s, b)
<1> DEFINE t == <<f>> \o out
<1>1. /\ t \in Seq(Frames) /\ Len(t) = Len(out) + 1 /\ t[1] = f /\ Len(out) \in Nat
      /\ \A j \in 2 .. Len(t) : t[j] = out[j - 1]
  BY DEF Order
<1> HIDE DEF t
<1>2. \A j \in 1 .. Len(t) : j = 1 \/ (t[j] = out[j - 1] /\ j - 1 \in 1 .. Len(out))
  BY <1>1
<1>3. \A i \in 1 .. Len(t) : t[i].kind = "answer" =>
       /\ t[i].id <= b /\ (s # 0 => t[i].id < s) /\ \A j \in 1 .. Len(in) : t[i].id < in[j]
  BY <1>1, <1>2 DEF Order
<1>4. ASSUME NEW i \in 1 .. Len(t), NEW j \in 1 .. Len(t), i < j, t[i].kind = "answer", t[j].kind = "answer"
      PROVE  t[i].id < t[j].id
  <2>1. i # 1 /\ j # 1
    BY <1>1, <1>4
  <2>2. t[i] = out[i - 1] /\ t[j] = out[j - 1] /\ i - 1 \in 1 .. Len(out) /\ j - 1 \in 1 .. Len(out) /\ i - 1 < j - 1
    BY <1>2, <1>4, <2>1
  <2> QED BY <1>4, <2>2 DEF Order
<1> QED BY <1>1, <1>3, <1>4 DEF Order, t

LEMMA OrderWider ==
  ASSUME NEW in, NEW out, NEW s, NEW b, Order(in, out, s, b), NEW c \in Nat, b <= c
  PROVE  Order(in, out, s, c) /\ Order(in, out, 0, b)
<1>1. \A j \in 1 .. Len(in) : in[j] \in Nat
  BY DEF Order
<1>2. \A i \in 1 .. Len(out) : out[i].id \in Nat
  <2>1. \A i \in 1 .. Len(out) : out[i] \in Frames
    BY DEF Order
  <2> QED BY <2>1 DEF Frames
<1> QED BY <1>1, <1>2 DEF Order

LEMMA OrderLast ==
  ASSUME NEW in, NEW out, NEW s, NEW b, Order(in, out, s, b), out # <<>>, Head(out).kind = "answer", Head(out).id = b
  PROVE  in = <<>> /\ s = 0 /\ \A i \in DOMAIN Tail(out) : Tail(out)[i].kind # "answer"
<1>1. /\ Len(Tail(out)) = Len(out) - 1 /\ Len(out) \in Nat /\ Len(out) > 0 /\ Tail(out) \in Seq(Frames)
      /\ \A j \in 1 .. Len(out) - 1 : Tail(out)[j] = out[j + 1]
      /\ Head(out) = out[1] /\ 1 \in 1 .. Len(out)
  BY DEF Order
<1>2. \A i \in 1 .. Len(out) : out[i].id \in Nat
  <2>1. \A i \in 1 .. Len(out) : out[i] \in Frames
    BY DEF Order
  <2> QED BY <2>1 DEF Frames
<1>3. in = <<>>
  <2>1. Len(in) = 0
    <3>1. SUFFICES ASSUME Len(in) # 0 PROVE FALSE
      OBVIOUS
    <3>2. 1 \in 1 .. Len(in) /\ in[1] \in Nat
      BY <3>1 DEF Order
    <3> QED BY <1>1, <1>2, <3>2 DEF Order
  <2> QED BY <2>1 DEF Order
<1>4. s = 0
  BY <1>1, <1>2 DEF Order
<1>5. ASSUME NEW i \in 1 .. Len(out) - 1 PROVE Tail(out)[i].kind # "answer"
  <2>1. Tail(out)[i] = out[i + 1] /\ i + 1 \in 1 .. Len(out) /\ 1 < i + 1
    BY <1>1
  <2> QED BY <1>1, <1>2, <2>1 DEF Order
<1> QED BY <1>1, <1>3, <1>4, <1>5

-----------------------------------------------------------------------------
\* What has been sent: a request being written does not count yet.
Bound == IF pc = "writing" THEN next_id - 2 ELSE next_id - 1

\* Ranges of host and child; a request in flight has a number.
Scalars ==
  /\ pc \in {"idle", "writing", "waiting", "closing", "terminating", "reaped"}
  /\ next_id \in 1 .. MaxRequests + 1 /\ logged \in Nat
  /\ activity \in {Worker!Resting, "waiting_for_response", "evaluating"}
  /\ last \in {"none", "ok", "error", "failed"} /\ got \in 0 .. MaxRequests
  /\ child \in {"up", "stuck", "dead"} /\ serving \in 0 .. MaxRequests /\ chatter \in 0 .. MaxChatter
  /\ (Worker!InFlight => next_id >= 2)

\* The invariant: requests and answers pass in the order of their numbers.
WorkerInv == Scalars /\ Order(stdin, stdout, serving, Bound)
             /\ Worker!AnswersMatch /\ Worker!InStep /\ Worker!ActivityRestored /\ Worker!DroppedDead

LEMMA OrderRange ==
  ASSUME NEW in, NEW out, NEW s, NEW b, Order(in, out, s, b), NEW c \in Nat, b <= c
  PROVE  \A j \in DOMAIN in : in[j] \in 1 .. c
<1>1. in \in Seq(Nat) /\ b \in Nat /\ \A j \in 1 .. Len(in) : in[j] \in Nat /\ in[j] > 0 /\ in[j] <= b
  BY DEF Order
<1>2. DOMAIN in = 1 .. Len(in)
  BY <1>1
<1> QED BY <1>1, <1>2

LEMMA Limits == ASSUME Worker!BoundsAssumption PROVE MaxRequests \in Nat \ {0} /\ MaxChatter \in Nat /\ LogLimit \in Nat
BY Zenon DEF Worker!BoundsAssumption

LEMMA BoundNat == ASSUME Worker!BoundsAssumption, Scalars PROVE Bound \in Nat /\ Bound <= MaxRequests /\ MaxRequests \in Nat
BY Limits DEF Scalars, Bound, Worker!InFlight

LEMMA InvTyped == ASSUME Worker!BoundsAssumption, WorkerInv PROVE Worker!TypeOK
BY OrderRange, BoundNat DEF WorkerInv, Scalars, Worker!TypeOK

LEMMA WorkerInit == ASSUME Worker!BoundsAssumption, Worker!Init PROVE WorkerInv
<1>1. Scalars /\ Bound = 0
  BY Limits DEF Worker!Init, Scalars, Worker!InFlight, Worker!Resting, Bound
<1>2. Order(<<>>, <<>>, 0, 0)
  BY DEF Order
<1> QED BY <1>1, <1>2 DEF Worker!Init, WorkerInv, Worker!AnswersMatch, Worker!InStep,
     Worker!ActivityRestored, Worker!DroppedDead, Worker!Resting, Worker!InFlight

LEMMA SendKeeps == ASSUME Worker!BoundsAssumption, WorkerInv, NEW sz \in Sizes, Worker!Send(sz) PROVE WorkerInv'
<1> USE DEF Worker!Send, Worker!Leave, Worker!InFlight, Worker!Resting, Worker!childVars
<1>1. Scalars'
  BY Limits DEF WorkerInv, Scalars
<1>2. pc = "idle" /\ Bound = next_id - 1 /\ next_id \in Nat \ {0}
  BY Limits DEF WorkerInv, Scalars, Bound
<1>3. Order(stdin, stdout, serving, next_id - 1)
  BY <1>2 DEF WorkerInv
<1>4. Order(stdin', stdout', serving', Bound')
  <2>1. CASE child = "dead"
    <3>1. Bound' = next_id /\ stdin' = stdin /\ stdout' = stdout /\ serving' = serving
      BY <1>2, <2>1 DEF Bound
    <3>2. Order(stdin, stdout, serving, next_id)
      BY <1>2, <1>3, OrderWider
    <3> QED BY <3>1, <3>2
  <2>2. CASE child # "dead" /\ sz = "small"
    <3>1. Bound' = next_id /\ stdin' = Append(stdin, next_id) /\ stdout' = stdout /\ serving' = serving
      BY <1>2, <2>2 DEF Bound
    <3>2. Order(Append(stdin, next_id), stdout, serving, next_id)
      BY <1>2, <1>3, OrderSend
    <3> QED BY <3>1, <3>2
  <2>3. CASE child # "dead" /\ sz # "small"
    <3>1. Bound' = next_id - 1 /\ stdin' = stdin /\ stdout' = stdout /\ serving' = serving
      BY <1>2, <2>3 DEF Bound
    <3> QED BY <1>3, <3>1
  <2> QED BY <2>1, <2>2, <2>3
<1>5. (Worker!AnswersMatch /\ Worker!InStep /\ Worker!ActivityRestored /\ Worker!DroppedDead)'
  BY <1>2 DEF WorkerInv, Worker!AnswersMatch, Worker!InStep, Worker!ActivityRestored,
       Worker!DroppedDead
<1> QED BY <1>1, <1>4, <1>5 DEF WorkerInv

LEMMA WriteBigKeeps == ASSUME Worker!BoundsAssumption, WorkerInv, Worker!WriteBig PROVE WorkerInv'
<1> USE DEF Worker!WriteBig, Worker!Leave, Worker!InFlight, Worker!Resting, Worker!childVars
<1>1. Scalars'
  BY Limits DEF WorkerInv, Scalars
<1>2. pc = "writing" /\ Bound = next_id - 2 /\ next_id \in Nat /\ next_id >= 2
  BY Limits DEF WorkerInv, Scalars, Bound
<1>3. Order(stdin, stdout, serving, next_id - 2)
  BY <1>2 DEF WorkerInv
<1>4. Order(stdin', stdout', serving', Bound')
  <2>1. Bound' = next_id - 1 /\ stdout' = stdout /\ serving' = serving
    BY <1>2 DEF Bound
  <2>2. CASE stdin' = stdin
    <3>1. Order(stdin, stdout, serving, next_id - 1)
      BY <1>2, <1>3, OrderWider
    <3> QED BY <2>1, <2>2, <3>1
  <2>3. CASE stdin' = Append(stdin, next_id - 1)
    <3>1. Order(Append(stdin, next_id - 1), stdout, serving, next_id - 1)
      BY <1>2, <1>3, OrderSend
    <3> QED BY <2>1, <2>3, <3>1
  <2> QED BY <2>2, <2>3
<1>5. (Worker!AnswersMatch /\ Worker!InStep /\ Worker!ActivityRestored /\ Worker!DroppedDead)'
  BY <1>2 DEF WorkerInv, Worker!AnswersMatch, Worker!InStep, Worker!ActivityRestored,
       Worker!DroppedDead
<1> QED BY <1>1, <1>4, <1>5 DEF WorkerInv

LEMMA ReadKeeps == ASSUME Worker!BoundsAssumption, WorkerInv, Worker!ReadFrame PROVE WorkerInv'
<1> DEFINE frame == Head(stdout)
<1>1. pc = "waiting" /\ stdout # <<>> /\ Bound = next_id - 1 /\ next_id \in Nat /\ next_id >= 2 /\ next_id - 1 \in 0 .. MaxRequests
      /\ UNCHANGED <<next_id, stdin, Worker!childVars>>
  BY Limits DEF Worker!ReadFrame, WorkerInv, Scalars, Bound, Worker!InFlight
<1>2. Order(stdin, stdout, serving, next_id - 1)
  BY <1>1 DEF WorkerInv
<1>3. Order(stdin, Tail(stdout), serving, next_id - 1) /\ frame \in Frames
  BY <1>1, <1>2, OrderRead
<1>4. CASE frame.kind # "answer"
  <2>1. Worker!ReadNote(frame)
    BY <1>4 DEF Worker!ReadFrame
  <2>2. /\ logged' \in Nat /\ pc' \in {"waiting", "idle"} /\ (pc' = "idle" => last' = "failed" /\ got' = 0 /\ activity' = Worker!Resting)
        /\ (pc' = "waiting" => last' = last /\ got' = got /\ activity' \in {activity, "evaluating"})
    BY <1>1, <2>1 DEF Worker!ReadNote, WorkerInv, Scalars, Worker!Leave
  <2>3. Scalars'
    BY <1>1, <2>2, Limits DEF WorkerInv, Scalars, Worker!InFlight, Worker!childVars
  <2>4. Order(stdin', stdout', serving', Bound')
    <3>1. Bound' = next_id - 1 /\ stdin' = stdin /\ serving' = serving
      BY <1>1, <2>2 DEF Bound, Worker!childVars
    <3>2. stdout' = Tail(stdout) \/ stdout' = <<Worker!Note("text")>> \o Tail(stdout)
      BY <2>1 DEF Worker!ReadNote
    <3>3. Order(stdin, <<Worker!Note("text")>> \o Tail(stdout), serving, next_id - 1)
      BY <1>3, NoteFrame, OrderPut
    <3> QED BY <1>3, <3>1, <3>2, <3>3
  <2>5. (Worker!AnswersMatch /\ Worker!InStep /\ Worker!ActivityRestored /\ Worker!DroppedDead)'
    BY <1>1, <2>2 DEF WorkerInv, Worker!AnswersMatch, Worker!InStep, Worker!ActivityRestored,
         Worker!DroppedDead, Worker!InFlight
  <2> QED BY <2>3, <2>4, <2>5 DEF WorkerInv
<1>5. CASE frame.kind = "answer"
  <2>1. /\ pc' = "idle" /\ logged' = logged /\ stdout' = Tail(stdout) /\ activity' = Worker!Resting
        /\ \/ last' = "failed" /\ got' = 0
           \/ last' \in {"ok", "error"} /\ got' = frame.id /\ frame.id = next_id - 1
    BY <1>5 DEF Worker!ReadFrame, Worker!Leave, Worker!Envelope
  <2>2. Scalars'
    BY <1>1, <2>1, Limits DEF WorkerInv, Scalars, Worker!InFlight, Worker!childVars
  <2>3. Order(stdin', stdout', serving', Bound')
    <3>1. Bound' = next_id - 1 /\ stdin' = stdin /\ serving' = serving
      BY <1>1, <2>1 DEF Bound, Worker!childVars
    <3> QED BY <1>3, <2>1, <3>1
  <2>4. Worker!InStep'
    <3>1. SUFFICES ASSUME last' \in {"ok", "error"}
                   PROVE  stdin = <<>> /\ serving = 0 /\ \A i \in DOMAIN Tail(stdout) : Tail(stdout)[i].kind # "answer"
      BY <1>1, <2>1 DEF Worker!InStep, Worker!childVars
    <3> QED BY <1>1, <1>2, <1>5, <2>1, <3>1, OrderLast
  <2>5. (Worker!AnswersMatch /\ Worker!ActivityRestored /\ Worker!DroppedDead)'
    BY <1>1, <2>1 DEF WorkerInv, Worker!AnswersMatch, Worker!ActivityRestored, Worker!DroppedDead,
         Worker!InFlight
  <2> QED BY <2>2, <2>3, <2>4, <2>5 DEF WorkerInv
<1> QED BY <1>4, <1>5

LEMMA HostKeeps ==
  ASSUME Worker!BoundsAssumption, WorkerInv, Worker!ReadEof \/ Worker!ReadTimeout \/ Worker!Close \/ Worker!Reap \/ Worker!GraceOver \/ Worker!ForceKill
  PROVE  WorkerInv'
<1> USE DEF Worker!ReadEof, Worker!ReadTimeout, Worker!Close, Worker!Reap, Worker!GraceOver,
     Worker!ForceKill, Worker!Leave, Worker!InFlight, Worker!Resting, Worker!childVars
<1>1. Scalars'
  BY Limits DEF WorkerInv, Scalars
<1>2. Order(stdin', stdout', serving', Bound')
  <2>1. Bound' = Bound /\ stdin' = stdin /\ stdout' = stdout /\ serving' \in {serving, 0}
    BY DEF WorkerInv, Scalars, Bound
  <2>2. Order(stdin, stdout, serving, Bound) /\ Bound \in Nat
    BY BoundNat DEF WorkerInv
  <2>3. Order(stdin, stdout, 0, Bound)
    BY <2>2, OrderWider
  <2> QED BY <2>1, <2>2, <2>3
<1>3. (Worker!AnswersMatch /\ Worker!InStep /\ Worker!ActivityRestored /\ Worker!DroppedDead)'
  BY DEF WorkerInv, Scalars, Worker!AnswersMatch, Worker!InStep, Worker!ActivityRestored,
       Worker!DroppedDead
<1> QED BY <1>1, <1>2, <1>3 DEF WorkerInv

LEMMA ChildKeeps ==
  ASSUME Worker!BoundsAssumption, WorkerInv, Worker!Child
  PROVE  WorkerInv'
<1>1. Order(stdin, stdout, serving, Bound) /\ Bound \in Nat /\ Bound <= MaxRequests /\ MaxRequests \in Nat
  BY BoundNat DEF WorkerInv
<1>2. Worker!host' = Worker!host
  BY DEF Worker!Child, Worker!Take, Worker!Respond, Worker!Chat, Worker!Stall, Worker!Exit
<1>3. Bound' = Bound /\ pc' = pc /\ next_id' = next_id /\ logged' = logged /\ activity' = activity /\ last' = last /\ got' = got
  BY <1>2 DEF Worker!host, Bound
<1>4. (Worker!AnswersMatch /\ Worker!ActivityRestored)'
  BY <1>3 DEF WorkerInv, Worker!AnswersMatch, Worker!ActivityRestored, Worker!InFlight
<1>5. CASE Worker!Take
  <2>1. Order(stdin', stdout', serving', Bound) /\ serving' \in 1 .. Bound
    <3>1. stdin # <<>> /\ serving = 0 /\ serving' = Head(stdin) /\ stdin' = Tail(stdin) /\ stdout' = stdout
      BY <1>5 DEF Worker!Take
    <3>2. Order(Tail(stdin), stdout, Head(stdin), Bound) /\ Head(stdin) \in 1 .. Bound
      BY <1>1, <3>1, OrderTake
    <3> QED BY <3>1, <3>2
  <2>2. Scalars'
    BY <1>1, <1>3, <1>5, <2>1 DEF Worker!Take, WorkerInv, Scalars, Worker!InFlight
  <2>3. (Worker!InStep /\ Worker!DroppedDead)'
    BY <1>3, <1>5 DEF Worker!Take, WorkerInv, Worker!InStep, Worker!DroppedDead
  <2> QED BY <1>3, <1>4, <2>1, <2>2, <2>3 DEF WorkerInv
<1>6. ASSUME NEW ok \in BOOLEAN, Worker!Respond(ok) PROVE WorkerInv'
  <2>1. Order(stdin', stdout', serving', Bound)
    <3>1. serving # 0 /\ serving' = 0 /\ stdout' = Append(stdout, Worker!Answer(serving, ok)) /\ stdin' = stdin
      BY <1>6 DEF Worker!Respond
    <3>2. Order(stdin, Append(stdout, Worker!Answer(serving, ok)), 0, Bound)
      BY <1>1, <3>1, OrderRespond
    <3> QED BY <3>1, <3>2
  <2>2. Scalars'
    BY <1>1, <1>3, <1>6 DEF Worker!Respond, WorkerInv, Scalars, Worker!InFlight
  <2>3. (Worker!InStep /\ Worker!DroppedDead)'
    BY <1>3, <1>6 DEF Worker!Respond, WorkerInv, Worker!InStep, Worker!DroppedDead
  <2> QED BY <1>3, <1>4, <2>1, <2>2, <2>3 DEF WorkerInv
<1>7. ASSUME NEW k \in Chatter, Worker!Chat(k) PROVE WorkerInv'
  <2>1. Worker!Note(k) \in Frames /\ Worker!Note(k).kind # "answer"
    BY NoteFrame DEF Worker!BoundsAssumption
  <2>2. stdout' = Append(stdout, Worker!Note(k)) /\ stdin' = stdin /\ serving' = serving /\ child' = child /\ child = "up"
        /\ chatter < MaxChatter /\ chatter' = chatter + 1
    BY <1>7 DEF Worker!Chat
  <2>3. Order(stdin', stdout', serving', Bound)
    BY <1>1, <2>1, <2>2, OrderNote
  <2>4. Scalars'
    BY <1>3, <2>2, Limits DEF WorkerInv, Scalars, Worker!InFlight
  <2>5. Worker!InStep'
    <3>1. SUFFICES ASSUME pc = "idle", last \in {"ok", "error"}, stdin = <<>>, serving = 0,
                          \A i \in DOMAIN stdout : stdout[i].kind # "answer",
                          NEW i \in DOMAIN stdout'
                   PROVE  stdout'[i].kind # "answer"
      BY <1>3, <2>2 DEF WorkerInv, Worker!InStep
    <3>2. stdout \in Seq(Frames)
      BY <1>1 DEF Order
    <3>3. CASE i \in 1 .. Len(stdout)
      BY <2>2, <3>1, <3>2, <3>3, <2>1
    <3>4. CASE i = Len(stdout) + 1
      BY <2>1, <2>2, <3>2, <3>4
    <3> QED BY <2>1, <2>2, <3>1, <3>2, <3>3, <3>4
  <2>6. Worker!DroppedDead'
    BY <1>3, <2>2 DEF WorkerInv, Worker!DroppedDead
  <2> QED BY <1>3, <1>4, <2>3, <2>4, <2>5, <2>6 DEF WorkerInv
<1>8. CASE Worker!Stall
  <2>1. (Scalars /\ Worker!InStep /\ Worker!DroppedDead)'
    BY <1>3, <1>8 DEF Worker!Stall, WorkerInv, Scalars, Worker!InStep, Worker!DroppedDead,
         Worker!InFlight
  <2>2. stdin' = stdin /\ stdout' = stdout /\ serving' = serving
    BY <1>8 DEF Worker!Stall
  <2> QED BY <1>1, <1>3, <1>4, <2>1, <2>2 DEF WorkerInv
<1>9. CASE Worker!Exit
  <2>1. (Scalars /\ Worker!InStep /\ Worker!DroppedDead)'
    BY <1>1, <1>3, <1>9 DEF Worker!Exit, WorkerInv, Scalars, Worker!InStep, Worker!DroppedDead,
         Worker!InFlight
  <2>2. stdin' = stdin /\ stdout' = stdout /\ serving' = 0
    BY <1>9 DEF Worker!Exit
  <2>3. Order(stdin, stdout, 0, Bound)
    BY <1>1, OrderWider
  <2> QED BY <1>3, <1>4, <2>1, <2>2, <2>3 DEF WorkerInv
<1> QED BY <1>5, <1>6, <1>7, <1>8, <1>9 DEF Worker!Child

LEMMA WorkerStep == ASSUME Worker!BoundsAssumption, WorkerInv, [Worker!Next]_Worker!vars PROVE WorkerInv'
<1>1. CASE Worker!Next
  BY <1>1, SendKeeps, WriteBigKeeps, ReadKeeps, HostKeeps, ChildKeeps DEF Worker!Next, Worker!Host
<1>2. CASE Worker!vars' = Worker!vars
  <2>1. Bound' = Bound /\ stdin' = stdin /\ stdout' = stdout /\ serving' = serving
    BY <1>2 DEF Worker!vars, Worker!host, Worker!childVars, Bound
  <2> QED BY <1>2, <2>1 DEF Worker!vars, Worker!host, Worker!childVars, WorkerInv, Scalars,
       Worker!AnswersMatch, Worker!InStep, Worker!ActivityRestored, Worker!DroppedDead,
       Worker!InFlight
<1> QED BY <1>1, <1>2

\* Process workers (process_worker.rs): pipes keep the numbers of requests and answers in order, however
\* host and child interleave, chatter, stall, time out and die.
THEOREM WorkerInvariance == ASSUME Worker!BoundsAssumption PROVE Worker!Spec => []WorkerInv
<1>1. Worker!Init => WorkerInv
  BY WorkerInit
<1>2. WorkerInv /\ [Worker!Next]_Worker!vars => WorkerInv'
  BY WorkerStep
<1> QED BY <1>1, <1>2, PTL DEF Worker!Spec

\* A request that timed out or met the end of the output kills the worker.
THEOREM TimedOutKilled == ASSUME Worker!BoundsAssumption PROVE Worker!Spec => [][Worker!TimeoutKills]_Worker!vars
<1>1. [Worker!Next]_Worker!vars => [Worker!TimeoutKills]_Worker!vars
  <2>1. SUFFICES ASSUME Worker!Next, pc = "waiting", stdout = <<>>, last' = "failed", pc' = "idle"
                 PROVE  child' = "dead"
    BY DEF Worker!TimeoutKills
  <2>2. CASE Worker!ReadEof \/ Worker!ReadTimeout
    BY <2>2 DEF Worker!ReadEof, Worker!ReadTimeout, Worker!childVars
  <2>3. ~Worker!ReadFrame /\ ~Worker!WriteBig /\ ~Worker!Close /\ ~Worker!Reap /\ ~Worker!GraceOver /\ ~Worker!ForceKill
    BY <2>1 DEF Worker!ReadFrame, Worker!WriteBig, Worker!Close, Worker!Reap, Worker!GraceOver,
         Worker!ForceKill
  <2>4. ASSUME NEW sz \in Sizes PROVE ~Worker!Send(sz)
    BY <2>1 DEF Worker!Send
  <2>5. ~Worker!Child
    BY <2>1 DEF Worker!Child, Worker!Take, Worker!Respond, Worker!Chat, Worker!Stall, Worker!Exit,
         Worker!host
  <2> QED BY <2>1, <2>2, <2>3, <2>4, <2>5 DEF Worker!Next, Worker!Host
<1> QED BY <1>1, PTL DEF Worker!Spec

\* The protocol as a whole: an accepted answer is that request's, an answered request leaves both
\* sides in step, the activity is restored, and a dropped worker leaves no process.
THEOREM WorkerSafe == ASSUME Worker!BoundsAssumption PROVE Worker!Spec => Worker!AnswersInStep
<1>1. WorkerInv => Worker!TypeOK /\ Worker!AnswersMatch /\ Worker!InStep /\ Worker!ActivityRestored /\ Worker!DroppedDead
  BY InvTyped DEF WorkerInv
<1> QED BY <1>1, WorkerInvariance, TimedOutKilled, PTL DEF Worker!AnswersInStep

-----------------------------------------------------------------------------
(* Performance reports.                                                    *)

Rows == [epoch : Nat, task : Nat, at : Nat, count : Nat, elapsed : Nat, busy : Nat, window : Nat]
Runners == [up : BOOLEAN, epoch : Nat, task : Nat, count : Nat, window : Nat, started : Nat,
            accounted : Nat, active : Nat, occupied : Nat, busy : Nat, observed : Nat]
Seen == [Reports!Workers -> Rows \cup {None}]
Shots == [at : Nat, task : Nat, accepted : Nat, live : SUBSET Reports!Workers, rows : Seen]

ReportsTyped ==
  /\ now \in Nat /\ task \in Nat /\ epochs \in Nat
  /\ runner \in [Reports!Workers -> Runners]
  /\ history \in [Reports!Workers -> Seq(Rows)]
  /\ latest \in Seen
  /\ births \in [Reports!Workers -> SUBSET Nat]
  /\ snaps \in Seq(Shots)
  /\ stored \in Nat

\* A runner that is up has occupied its lane for as long as it was busy.
Lane(r, t, n) ==
  /\ r.started <= r.accounted /\ r.accounted <= t /\ r.epoch <= n
  /\ r.up /\ r.active > 0 => r.busy = r.occupied + (t - r.accounted)
  /\ r.up /\ r.active = 0 => r.busy = r.occupied

\* A row of a living runner's epoch is behind the runner, in its counters and in time.
Behind(q, r) ==
  /\ q.epoch <= r.epoch
  /\ r.up /\ q.epoch = r.epoch => /\ q.at <= r.accounted /\ q.elapsed = q.at - r.started
                                  /\ q.count <= r.count /\ q.busy <= r.occupied
                                  /\ r.occupied - q.busy <= r.accounted - q.at

\* So is an earlier row behind a later one.
Precedes(p, q) ==
  p.epoch = q.epoch => /\ q.at - q.elapsed = p.at - p.elapsed /\ p.count <= q.count
                       /\ p.busy <= q.busy /\ q.busy - p.busy <= q.at - p.at

\* No runner started within the life of the row's.
Apart(q, bs) == \A b \in bs : b <= q.at - q.elapsed \/ q.at <= b

HistoryInv ==
  \A x \in Reports!Workers :
    /\ \A i \in DOMAIN history[x] : Behind(history[x][i], runner[x])
    /\ \A i, j \in DOMAIN history[x] : i < j => Precedes(history[x][i], history[x][j])

LatestInv ==
  \A x \in Reports!Workers :
    /\ \A b \in births[x] : b <= runner[x].started
    /\ latest[x] # None => /\ Behind(latest[x], runner[x]) /\ Apart(latest[x], births[x])
                           /\ latest[x].at <= now /\ latest[x].elapsed <= latest[x].at

SnapsInv ==
  \A x \in Reports!Workers :
    /\ \A i \in DOMAIN snaps : snaps[i].rows[x] # None =>
         /\ Behind(snaps[i].rows[x], runner[x]) /\ Apart(snaps[i].rows[x], births[x])
         /\ snaps[i].rows[x].at <= snaps[i].at /\ snaps[i].at <= now
         /\ snaps[i].rows[x].elapsed <= snaps[i].rows[x].at
         /\ latest[x] # None /\ Precedes(snaps[i].rows[x], latest[x])
    /\ \A i, j \in DOMAIN snaps : i < j /\ snaps[i].rows[x] # None =>
         snaps[j].rows[x] # None /\ Precedes(snaps[i].rows[x], snaps[j].rows[x])

ReportsInv ==
  /\ ReportsTyped /\ (\A x \in Reports!Workers : Lane(runner[x], now, epochs))
  /\ HistoryInv /\ LatestInv /\ SnapsInv

LEMMA ReportsInit == ASSUME None \notin Rows, Reports!Init PROVE ReportsInv
<1>1. \A x \in Reports!Workers : runner[x] \in Runners /\ Lane(runner[x], now, epochs)
  <2> TAKE x \in Reports!Workers
  <2>1. runner[x] = [Reports!Fresh(0, 0) EXCEPT !.epoch = 0]
    BY DEF Reports!Init
  <2>2. Reports!Fresh(0, 0) \in Runners /\ now = 0 /\ epochs = 0
    BY DEF Reports!Init, Reports!Fresh, Runners
  <2>3. runner[x] \in Runners
    BY <2>1, <2>2 DEF Runners
  <2>4. /\ runner[x].started = 0 /\ runner[x].accounted = 0 /\ runner[x].epoch = 0
        /\ runner[x].occupied = 0 /\ runner[x].busy = 0 /\ runner[x].active = 0
    BY <2>1, <2>2 DEF Reports!Fresh, Runners
  <2> QED BY <2>2, <2>3, <2>4 DEF Lane
<1> QED BY <1>1 DEF Reports!Init, ReportsInv, ReportsTyped, HistoryInv, LatestInv, SnapsInv, Seen

\* How a runner may move without a report of its epoch getting ahead of it.
Follows(r, s) ==
  /\ r.epoch <= s.epoch /\ r.started <= s.started
  /\ s.up /\ s.epoch = r.epoch => /\ r.up /\ s.started = r.started /\ r.count <= s.count
                                  /\ r.occupied <= s.occupied /\ r.accounted <= s.accounted
                                  /\ s.occupied - r.occupied <= s.accounted - r.accounted

LEMMA BehindKept ==
  ASSUME NEW q \in Rows, NEW r \in Runners, NEW s \in Runners, Behind(q, r), Follows(r, s)
  PROVE  Behind(q, s)
<1> USE DEF Rows, Runners
<1>1. q.epoch <= s.epoch
  BY DEF Behind, Follows
<1>2. ASSUME s.up, q.epoch = s.epoch
      PROVE  /\ q.at <= s.accounted /\ q.elapsed = q.at - s.started /\ q.count <= s.count
             /\ q.busy <= s.occupied /\ s.occupied - q.busy <= s.accounted - q.at
  <2>1. s.epoch = r.epoch
    BY <1>2 DEF Behind, Follows
  <2> QED BY <1>2, <2>1 DEF Behind, Follows
<1> QED BY <1>1, <1>2 DEF Behind

LEMMA HistorySteady ==
  ASSUME ReportsInv, ReportsTyped', history' = history,
         \A x \in Reports!Workers : Follows(runner[x], runner'[x])
  PROVE  HistoryInv'
<1>1. \A x \in Reports!Workers : runner[x] \in Runners /\ runner'[x] \in Runners /\ history[x] \in Seq(Rows)
  BY DEF ReportsInv, ReportsTyped
<1>2. ASSUME NEW x \in Reports!Workers, NEW i \in DOMAIN history[x]
      PROVE  Behind(history[x][i], runner'[x])
  <2>1. history[x][i] \in Rows /\ Behind(history[x][i], runner[x])
    BY <1>1 DEF ReportsInv, HistoryInv
  <2> QED BY <1>1, <2>1, BehindKept
<1> QED BY <1>2 DEF ReportsInv, HistoryInv

\* The rows kept are those of before or newly published, and births are at the present.
Recent ==
  \A x \in Reports!Workers :
    /\ \A b \in births'[x] : b \in births[x] \/ b = now
    /\ \A b \in births'[x] : b <= runner'[x].started

LEMMA LatestKept ==
  ASSUME ReportsInv, ReportsTyped', now <= now', Recent,
         NEW x \in Reports!Workers, latest'[x] = latest[x], Follows(runner[x], runner'[x]), latest[x] # None
  PROVE  /\ Behind(latest'[x], runner'[x]) /\ Apart(latest'[x], births'[x])
         /\ latest'[x].at <= now' /\ latest'[x].elapsed <= latest'[x].at
<1>1. /\ runner[x] \in Runners /\ runner'[x] \in Runners /\ latest[x] \in Rows
      /\ now \in Nat /\ now' \in Nat /\ births[x] \subseteq Nat /\ births'[x] \subseteq Nat
  BY DEF ReportsInv, ReportsTyped, Seen
<1>2. /\ Behind(latest[x], runner[x]) /\ Apart(latest[x], births[x]) /\ latest[x].at <= now
      /\ latest[x].elapsed <= latest[x].at
  BY DEF ReportsInv, LatestInv
<1>3. Behind(latest[x], runner'[x])
  BY <1>1, <1>2, BehindKept
<1>4. latest[x].at \in Nat /\ latest[x].elapsed \in Nat
  BY <1>1 DEF Rows
<1>5. \A b \in births'[x] : b <= latest[x].at - latest[x].elapsed \/ latest[x].at <= b
  BY <1>1, <1>2, <1>4 DEF Recent, Apart
<1> QED BY <1>1, <1>2, <1>3, <1>4, <1>5 DEF Apart

LEMMA SnapsSteady ==
  ASSUME ReportsInv, ReportsTyped', snaps' = snaps, now <= now', Recent,
         \A x \in Reports!Workers : Follows(runner[x], runner'[x]),
         \A x \in Reports!Workers : latest'[x] = latest[x] \/
           (latest'[x] # None /\ \A i \in DOMAIN snaps : snaps[i].rows[x] # None => Precedes(snaps[i].rows[x], latest'[x]))
  PROVE  SnapsInv'
<1>1. ASSUME NEW x \in Reports!Workers, NEW i \in DOMAIN snaps, snaps[i].rows[x] # None
      PROVE  /\ Behind(snaps[i].rows[x], runner'[x]) /\ Apart(snaps[i].rows[x], births'[x])
             /\ snaps[i].rows[x].at <= snaps[i].at /\ snaps[i].at <= now'
             /\ snaps[i].rows[x].elapsed <= snaps[i].rows[x].at
             /\ latest'[x] # None /\ Precedes(snaps[i].rows[x], latest'[x])
  <2> DEFINE s == snaps[i]
             q == s.rows[x]
  <2>1. s \in Shots
    BY DEF ReportsInv, ReportsTyped
  <2>2. q \in Rows /\ s.at \in Nat
    BY <1>1, <2>1 DEF Seen, Shots
  <2>3. /\ runner[x] \in Runners /\ runner'[x] \in Runners /\ now \in Nat /\ now' \in Nat
        /\ births[x] \subseteq Nat /\ births'[x] \subseteq Nat
    BY DEF ReportsInv, ReportsTyped
  <2>4. /\ Behind(q, runner[x]) /\ Apart(q, births[x]) /\ q.at <= s.at /\ s.at <= now /\ q.elapsed <= q.at
        /\ latest[x] # None /\ Precedes(q, latest[x])
    BY <1>1 DEF ReportsInv, SnapsInv
  <2>5. Behind(q, runner'[x])
    BY <2>2, <2>3, <2>4, BehindKept
  <2>6. q.at \in Nat /\ q.elapsed \in Nat
    BY <2>2 DEF Rows
  <2>7. \A b \in births'[x] : b <= q.at - q.elapsed \/ q.at <= b
    <3> HIDE DEF s, q
    <3> QED BY <2>2, <2>3, <2>4, <2>6 DEF Recent, Apart
  <2>8. latest'[x] # None /\ Precedes(q, latest'[x])
    BY <1>1, <2>4
  <2>9. s.at <= now'
    BY <2>2, <2>3, <2>4
  <2> QED BY <2>4, <2>5, <2>7, <2>8, <2>9 DEF Apart
<1> QED BY <1>1 DEF ReportsInv, SnapsInv

\* Steps that publish and show nothing.
LEMMA ReportsSteady ==
  ASSUME ReportsInv, ReportsTyped', now <= now', history' = history, latest' = latest, snaps' = snaps, Recent,
         \A x \in Reports!Workers : Follows(runner[x], runner'[x]) /\ Lane(runner'[x], now', epochs')
  PROVE  ReportsInv'
<1>1. HistoryInv' /\ SnapsInv'
  BY HistorySteady, SnapsSteady
<1>2. LatestInv'
  BY LatestKept DEF LatestInv, Recent
<1> QED BY <1>1, <1>2 DEF ReportsInv

LEMMA AccountFacts ==
  ASSUME ReportsInv, NEW x \in Reports!Workers
  PROVE  LET r == runner[x]
             s == Reports!Account(r)
         IN  /\ r \in Runners /\ s \in Runners /\ s.accounted = now
             /\ s.up = r.up /\ s.epoch = r.epoch /\ s.started = r.started /\ s.count = r.count
             /\ s.active = r.active /\ s.busy = r.busy /\ s.window = r.window /\ s.observed = r.observed /\ s.task = r.task
             /\ r.occupied <= s.occupied /\ s.occupied - r.occupied <= now - r.accounted
             /\ r.up => s.occupied = s.busy
<1> DEFINE r == runner[x]
           s == Reports!Account(r)
           o == r.occupied + (IF r.active > 0 THEN now - r.accounted ELSE 0)
<1>1. r \in Runners /\ now \in Nat /\ Lane(r, now, epochs)
  BY DEF ReportsInv, ReportsTyped
<1>2. s = [r EXCEPT !.occupied = o, !.accounted = now]
  BY DEF Reports!Account
<1>3. /\ r.occupied \in Nat /\ r.accounted \in Nat /\ r.accounted <= now /\ r.active \in Nat
      /\ r.up \in BOOLEAN /\ r.busy \in Nat
  BY <1>1 DEF Runners, Lane
<1>4. o \in Nat /\ r.occupied <= o /\ o - r.occupied <= now - r.accounted
  BY <1>1, <1>3
<1>5. r.up => o = r.busy
  BY <1>1, <1>3 DEF Lane
<1> HIDE DEF o
<1>6. s \in Runners /\ s.occupied = o /\ s.accounted = now
  BY <1>1, <1>2, <1>4 DEF Runners
<1>7. /\ s.up = r.up /\ s.epoch = r.epoch /\ s.started = r.started /\ s.count = r.count
      /\ s.active = r.active /\ s.busy = r.busy /\ s.window = r.window /\ s.observed = r.observed /\ s.task = r.task
  BY <1>1, <1>2 DEF Runners
<1> QED BY <1>1, <1>4, <1>5, <1>6, <1>7

\* One runner moves.
LEMMA OneRunner ==
  ASSUME ReportsInv, NEW x \in Reports!Workers, NEW t \in Runners, runner' = [runner EXCEPT ![x] = t],
         now' = now, epochs' \in Nat, epochs <= epochs', Follows(runner[x], t), Lane(t, now, epochs')
  PROVE  /\ runner' \in [Reports!Workers -> Runners] /\ runner'[x] = t
         /\ \A y \in Reports!Workers : y # x => runner'[y] = runner[y]
         /\ \A y \in Reports!Workers : Follows(runner[y], runner'[y]) /\ Lane(runner'[y], now', epochs')
<1>1. runner \in [Reports!Workers -> Runners] /\ epochs \in Nat /\ now \in Nat
  BY DEF ReportsInv, ReportsTyped
<1>2. runner' \in [Reports!Workers -> Runners]
  BY <1>1
<1>3. runner'[x] = t /\ \A y \in Reports!Workers : y # x => runner'[y] = runner[y]
  BY <1>1
<1>4. \A y \in Reports!Workers : runner[y] \in Runners /\ Lane(runner[y], now, epochs)
  BY <1>1 DEF ReportsInv
<1>5. \A y \in Reports!Workers : Follows(runner[y], runner[y])
  BY <1>4 DEF Follows, Runners
<1>6. \A y \in Reports!Workers : Lane(runner[y], now, epochs')
  BY <1>1, <1>4 DEF Lane, Runners
<1> QED BY <1>2, <1>3, <1>5, <1>6

LEMMA NoBirth ==
  ASSUME ReportsInv, runner' \in [Reports!Workers -> Runners], births' = births,
         \A x \in Reports!Workers : Follows(runner[x], runner'[x])
  PROVE  Recent
<1>1. ASSUME NEW x \in Reports!Workers, NEW b \in births[x] PROVE b <= runner'[x].started
  <2>1. runner[x] \in Runners /\ runner'[x] \in Runners /\ b \in Nat
    BY DEF ReportsInv, ReportsTyped
  <2>2. b <= runner[x].started /\ runner[x].started <= runner'[x].started
    BY DEF ReportsInv, LatestInv, Follows
  <2>3. runner[x].started \in Nat /\ runner'[x].started \in Nat
    BY <2>1 DEF Runners
  <2> QED BY <2>1, <2>2, <2>3
<1> QED BY <1>1 DEF Recent

\* Operations start and end.
LEMMA OpStep ==
  ASSUME ReportsInv, NEW x \in Reports!Workers, NEW n \in Nat,
         runner' = [runner EXCEPT ![x] = [Reports!Account(runner[x]) EXCEPT !.active = n]],
         UNCHANGED <<now, latest, history, task, epochs, snaps, stored, births>>
  PROVE  ReportsInv'
<1> DEFINE r == runner[x]
           s == Reports!Account(r)
           t == [s EXCEPT !.active = n]
<1>1. /\ r \in Runners /\ s \in Runners /\ s.accounted = now
      /\ s.up = r.up /\ s.epoch = r.epoch /\ s.started = r.started /\ s.count = r.count
      /\ r.occupied <= s.occupied /\ s.occupied - r.occupied <= now - r.accounted
      /\ r.up => s.occupied = s.busy
  BY AccountFacts
<1>2. runner' = [runner EXCEPT ![x] = t]
  OBVIOUS
<1> HIDE DEF s
<1>3. /\ t \in Runners /\ t.active = n /\ t.accounted = s.accounted /\ t.up = s.up /\ t.epoch = s.epoch
      /\ t.started = s.started /\ t.count = s.count /\ t.occupied = s.occupied /\ t.busy = s.busy
  BY <1>1 DEF Runners
<1>4. now \in Nat /\ epochs \in Nat /\ Lane(r, now, epochs)
  BY DEF ReportsInv, ReportsTyped
<1> HIDE DEF t
<1>5. Follows(r, t) /\ Lane(t, now, epochs)
  <2>1. r.accounted <= now /\ r.epoch <= epochs /\ r.started <= r.accounted
    BY <1>4 DEF Lane
  <2>2. {r.accounted, r.started, r.epoch, r.count, r.occupied, s.occupied, s.busy} \subseteq Nat /\ r.up \in BOOLEAN
    BY <1>1 DEF Runners
  <2> HIDE DEF r
  <2> QED BY <1>1, <1>3, <1>4, <2>1, <2>2 DEF Follows, Lane
<1>6. /\ runner' \in [Reports!Workers -> Runners]
      /\ \A y \in Reports!Workers : Follows(runner[y], runner'[y]) /\ Lane(runner'[y], now', epochs')
  <2>1. now' = now /\ epochs' = epochs /\ epochs <= epochs'
    BY <1>4
  <2>2. t \in Runners /\ epochs' \in Nat /\ Follows(runner[x], t) /\ Lane(t, now, epochs')
    BY <1>3, <1>4, <1>5, <2>1 DEF r
  <2> HIDE DEF r
  <2> QED BY <1>2, <2>1, <2>2, OneRunner
<1>7. ReportsTyped' /\ now <= now'
  BY <1>4, <1>6 DEF ReportsInv, ReportsTyped
<1>8. Recent
  BY <1>6, NoBirth
<1> QED BY <1>6, <1>7, <1>8, ReportsSteady

LEMMA CompleteStep ==
  ASSUME ReportsInv, NEW x \in Reports!Workers, Reports!Complete(x)
  PROVE  ReportsInv'
<1> DEFINE r == runner[x]
           t == Reports!Observe(r)
<1>1. r \in Runners /\ now \in Nat /\ epochs \in Nat /\ task \in Nat /\ Lane(r, now, epochs) /\ runner \in [Reports!Workers -> Runners]
  BY DEF ReportsInv, ReportsTyped
<1>2. runner' = [runner EXCEPT ![x] = t]
  BY DEF Reports!Complete
<1>3. /\ t \in Runners /\ t.active = r.active /\ t.accounted = r.accounted /\ t.up = r.up /\ t.epoch = r.epoch
      /\ t.started = r.started /\ t.count = r.count + 1 /\ t.occupied = r.occupied /\ t.busy = r.busy
  <2>1. r.count + 1 \in Nat /\ r.window + 1 \in Nat /\ r.observed + 1 \in Nat
    BY <1>1 DEF Runners
  <2> HIDE DEF r
  <2>2. t = [r EXCEPT !.count = r.count + 1, !.window = r.window + 1, !.observed = r.observed + 1, !.task = task]
    BY DEF Reports!Observe
  <2> HIDE DEF t
  <2> QED BY <1>1, <2>1, <2>2 DEF Runners
<1> HIDE DEF t
<1>5. Follows(r, t) /\ Lane(t, now, epochs)
  <2>2. {r.accounted, r.started, r.epoch, r.count, r.occupied, r.busy} \subseteq Nat
    BY <1>1 DEF Runners
  <2> HIDE DEF r
  <2> QED BY <1>1, <1>3, <2>2 DEF Follows, Lane
<1>6. /\ runner' \in [Reports!Workers -> Runners]
      /\ \A y \in Reports!Workers : Follows(runner[y], runner'[y]) /\ Lane(runner'[y], now', epochs')
  <2>1. now' = now /\ epochs' = epochs /\ epochs <= epochs'
    BY <1>1 DEF Reports!Complete
  <2>2. t \in Runners /\ epochs' \in Nat /\ Follows(runner[x], t) /\ Lane(t, now, epochs')
    BY <1>1, <1>3, <1>5, <2>1 DEF r
  <2> HIDE DEF r
  <2> QED BY <1>2, <2>1, <2>2, OneRunner
<1>7. ReportsTyped' /\ now <= now' /\ births' = births /\ history' = history /\ latest' = latest /\ snaps' = snaps
  BY <1>1, <1>6 DEF ReportsInv, ReportsTyped, Reports!Complete
<1>8. Recent
  BY <1>6, <1>7, NoBirth
<1> QED BY <1>6, <1>7, <1>8, ReportsSteady

LEMMA AdvanceStep ==
  ASSUME ReportsInv, Reports!Advance
  PROVE  ReportsInv'
<1>1. now \in Nat /\ epochs \in Nat /\ runner \in [Reports!Workers -> Runners] /\ now' = now + 1 /\ epochs' = epochs
  BY DEF ReportsInv, ReportsTyped, Reports!Advance
<1>2. ASSUME NEW y \in Reports!Workers
      PROVE  runner'[y] \in Runners /\ Follows(runner[y], runner'[y]) /\ Lane(runner'[y], now', epochs')
  <2> DEFINE r == runner[y]
             k == r.busy + (IF r.up /\ r.active > 0 THEN 1 ELSE 0)
             t == [r EXCEPT !.busy = k]
  <2>1. r \in Runners /\ Lane(r, now, epochs)
    BY <1>1 DEF ReportsInv
  <2>2. runner'[y] = t
    BY DEF Reports!Advance
  <2>3. /\ {r.accounted, r.started, r.epoch, r.count, r.occupied, r.busy, r.active} \subseteq Nat /\ k \in Nat
        /\ r.up /\ r.active > 0 => k = r.busy + 1
        /\ r.up /\ r.active = 0 => k = r.busy
    BY <2>1 DEF Runners
  <2> HIDE DEF k
  <2>4. /\ t \in Runners /\ t.active = r.active /\ t.accounted = r.accounted /\ t.up = r.up /\ t.epoch = r.epoch
        /\ t.started = r.started /\ t.count = r.count /\ t.occupied = r.occupied /\ t.busy = k
    BY <2>1, <2>3 DEF Runners
  <2> HIDE DEF r, t
  <2>5. Follows(r, t) /\ Lane(t, now', epochs')
    BY <1>1, <2>1, <2>3, <2>4 DEF Follows, Lane
  <2> QED BY <2>2, <2>4, <2>5 DEF r
<1>3. runner' \in [Reports!Workers -> Runners]
  <2>1. DOMAIN runner' = Reports!Workers /\ runner' = [y \in Reports!Workers |-> runner'[y]]
    BY DEF Reports!Advance
  <2> QED BY <1>2, <2>1
<1>4. ReportsTyped' /\ now <= now' /\ births' = births /\ history' = history /\ latest' = latest /\ snaps' = snaps
  BY <1>1, <1>3 DEF ReportsInv, ReportsTyped, Reports!Advance
<1>5. Recent
  BY <1>2, <1>3, <1>4, NoBirth
<1> QED BY <1>2, <1>4, <1>5, ReportsSteady

\* What a living runner reports now is ahead of all it reported before.
LEMMA RowFacts ==
  ASSUME ReportsInv, NEW x \in Reports!Workers, runner[x].up
  PROVE  LET r == runner[x]
             s == Reports!Account(r)
             q == Reports!Row(x, s)
         IN  /\ q \in Rows /\ q.epoch = r.epoch /\ q.at = now /\ q.count = r.count
             /\ q.elapsed = now - r.started /\ q.busy = s.occupied
             /\ Apart(q, births[x])
             /\ \A p \in Rows : Behind(p, r) => Precedes(p, q)
<1> DEFINE r == runner[x]
           s == Reports!Account(r)
           q == Reports!Row(x, s)
<1>1. /\ r \in Runners /\ s \in Runners /\ s.epoch = r.epoch /\ s.started = r.started /\ s.count = r.count
      /\ r.occupied <= s.occupied /\ s.occupied - r.occupied <= now - r.accounted
  BY AccountFacts
<1>2. now \in Nat /\ task \in Nat /\ births[x] \subseteq Nat /\ Lane(r, now, epochs)
  BY DEF ReportsInv, ReportsTyped
<1>3. q = [epoch |-> s.epoch, task |-> task, at |-> now, count |-> s.count,
           elapsed |-> now - s.started, busy |-> s.occupied, window |-> s.window]
  BY DEF Reports!Row
<1>4. \A b \in births[x] : b <= r.started
  BY DEF ReportsInv, LatestInv
<1> HIDE DEF r, s, q
<1>5. {r.started, r.accounted, r.occupied, r.count, r.epoch, s.occupied, s.window} \subseteq Nat /\ r.started <= now
  BY <1>1, <1>2 DEF Runners, Lane
<1>6. now - r.started \in Nat
  BY <1>2, <1>5
<1>7. /\ q \in Rows /\ q.epoch = r.epoch /\ q.at = now /\ q.count = r.count
      /\ q.elapsed = now - r.started /\ q.busy = s.occupied
  BY <1>1, <1>2, <1>3, <1>5, <1>6 DEF Rows
<1>8. Apart(q, births[x])
  BY <1>2, <1>4, <1>5, <1>7 DEF Apart
<1>9. ASSUME NEW p \in Rows, Behind(p, r) PROVE Precedes(p, q)
  <2>1. {p.at, p.elapsed, p.count, p.busy, p.epoch} \subseteq Nat
    BY DEF Rows
  <2>2. ASSUME p.epoch = q.epoch
        PROVE  /\ q.at - q.elapsed = p.at - p.elapsed /\ p.count <= q.count
               /\ p.busy <= q.busy /\ q.busy - p.busy <= q.at - p.at
    <3>1. /\ p.at <= r.accounted /\ p.elapsed = p.at - r.started /\ p.count <= r.count /\ p.busy <= r.occupied
          /\ r.occupied - p.busy <= r.accounted - p.at
      BY <1>7, <1>9, <2>2 DEF Behind, r
    <3> QED BY <1>1, <1>2, <1>5, <1>7, <2>1, <3>1
  <2> QED BY <2>2 DEF Precedes
<1> QED BY <1>7, <1>8, <1>9 DEF r, s, q

LEMMA RowAppended ==
  ASSUME ReportsInv, NEW x \in Reports!Workers, NEW q \in Rows,
         runner' \in [Reports!Workers -> Runners], \A y \in Reports!Workers : Follows(runner[y], runner'[y]),
         history' = [history EXCEPT ![x] = Append(@, q)],
         Behind(q, runner'[x]), \A p \in Rows : Behind(p, runner[x]) => Precedes(p, q)
  PROVE  HistoryInv' /\ history' \in [Reports!Workers -> Seq(Rows)]
<1>1. history \in [Reports!Workers -> Seq(Rows)] /\ runner \in [Reports!Workers -> Runners]
  BY DEF ReportsInv, ReportsTyped
<1>2. history' \in [Reports!Workers -> Seq(Rows)]
  BY <1>1
<1>3. /\ history'[x] = Append(history[x], q)
      /\ \A y \in Reports!Workers : y # x => history'[y] = history[y]
  BY <1>1
<1>4. ASSUME NEW y \in Reports!Workers
      PROVE  /\ \A i \in DOMAIN history[y] : history[y][i] \in Rows /\ Behind(history[y][i], runner[y]) /\ Behind(history[y][i], runner'[y])
             /\ \A i, j \in DOMAIN history[y] : i < j => Precedes(history[y][i], history[y][j])
  <2>1. /\ \A i \in DOMAIN history[y] : history[y][i] \in Rows /\ Behind(history[y][i], runner[y])
        /\ \A i, j \in DOMAIN history[y] : i < j => Precedes(history[y][i], history[y][j])
    BY <1>1 DEF ReportsInv, HistoryInv
  <2>2. runner[y] \in Runners /\ runner'[y] \in Runners /\ Follows(runner[y], runner'[y])
    BY <1>1
  <2> QED BY <2>1, <2>2, BehindKept
<1>5. ASSUME NEW y \in Reports!Workers, NEW i \in DOMAIN history'[y] PROVE Behind(history'[y][i], runner'[y])
  <2>1. CASE y = x /\ i = Len(history[x]) + 1
    BY <1>1, <1>3, <2>1
  <2>2. CASE ~(y = x /\ i = Len(history[x]) + 1)
    <3>1. i \in DOMAIN history[y] /\ history'[y][i] = history[y][i]
      BY <1>1, <1>3, <2>2
    <3> QED BY <1>4, <3>1
  <2> QED BY <2>1, <2>2
<1>6. ASSUME NEW y \in Reports!Workers, NEW i \in DOMAIN history'[y], NEW j \in DOMAIN history'[y], i < j
      PROVE  Precedes(history'[y][i], history'[y][j])
  <2>1. i \in DOMAIN history[y] /\ history'[y][i] = history[y][i]
    BY <1>1, <1>3, <1>6
  <2>2. CASE y = x /\ j = Len(history[x]) + 1
    <3>1. history'[y][j] = q
      BY <1>1, <1>3, <2>2
    <3> QED BY <1>4, <2>1, <2>2, <3>1
  <2>3. CASE ~(y = x /\ j = Len(history[x]) + 1)
    <3>1. j \in DOMAIN history[y] /\ history'[y][j] = history[y][j]
      BY <1>1, <1>3, <2>3
    <3> QED BY <1>4, <1>6, <2>1, <3>1
  <2> QED BY <2>2, <2>3
<1> QED BY <1>2, <1>5, <1>6 DEF HistoryInv

LEMMA PublishStep ==
  ASSUME ReportsInv, None \notin Rows, NEW x \in Reports!Workers, Reports!Publish(x)
  PROVE  ReportsInv'
<1> DEFINE r == runner[x]
           s == Reports!Account(r)
           q == Reports!Row(x, s)
           t == Reports!ResetWindow(s)
<1>1. /\ r.up /\ runner' = [runner EXCEPT ![x] = t] /\ latest' = [latest EXCEPT ![x] = q]
      /\ history' = history \/ history' = [history EXCEPT ![x] = Append(@, q)]
      /\ UNCHANGED <<now, task, epochs, snaps, stored, births>>
  BY DEF Reports!Publish
<1>2. /\ r \in Runners /\ s \in Runners /\ s.accounted = now
      /\ s.up = r.up /\ s.epoch = r.epoch /\ s.started = r.started /\ s.count = r.count
      /\ r.occupied <= s.occupied /\ s.occupied - r.occupied <= now - r.accounted
      /\ s.occupied = s.busy
  BY <1>1, AccountFacts
<1>3. /\ q \in Rows /\ q.epoch = r.epoch /\ q.at = now /\ q.count = r.count
      /\ q.elapsed = now - r.started /\ q.busy = s.occupied
      /\ Apart(q, births[x])
      /\ \A p \in Rows : Behind(p, r) => Precedes(p, q)
  BY <1>1, RowFacts
<1> HIDE DEF s, q
<1>4. /\ t \in Runners /\ t.active = s.active /\ t.accounted = s.accounted /\ t.up = s.up /\ t.epoch = s.epoch
      /\ t.started = s.started /\ t.count = s.count /\ t.occupied = s.occupied /\ t.busy = s.busy
  BY <1>2 DEF Runners, Reports!ResetWindow
<1>5. now \in Nat /\ epochs \in Nat /\ Lane(r, now, epochs) /\ latest \in Seen
  BY DEF ReportsInv, ReportsTyped
<1> HIDE DEF t
<1>6. Follows(r, t) /\ Lane(t, now, epochs) /\ Behind(q, t)
  <2>1. r.accounted <= now /\ r.epoch <= epochs /\ r.started <= r.accounted
    BY <1>5 DEF Lane
  <2>2. {r.accounted, r.started, r.epoch, r.count, r.occupied, s.occupied, s.busy} \subseteq Nat
    BY <1>2 DEF Runners
  <2> HIDE DEF r
  <2> QED BY <1>2, <1>3, <1>4, <1>5, <2>1, <2>2 DEF Follows, Lane, Behind
<1>7. /\ runner' \in [Reports!Workers -> Runners] /\ runner'[x] = t
      /\ \A y \in Reports!Workers : Follows(runner[y], runner'[y]) /\ Lane(runner'[y], now', epochs')
  <2>1. now' = now /\ epochs' = epochs /\ epochs <= epochs'
    BY <1>1, <1>5
  <2>2. t \in Runners /\ epochs' \in Nat /\ Follows(runner[x], t) /\ Lane(t, now, epochs')
    BY <1>4, <1>5, <1>6, <2>1 DEF r
  <2>3. runner' = [runner EXCEPT ![x] = t]
    BY <1>1
  <2> HIDE DEF r
  <2> QED BY <2>1, <2>2, <2>3, OneRunner
<1>8. latest' \in Seen /\ latest'[x] = q /\ \A y \in Reports!Workers : y # x => latest'[y] = latest[y]
  BY <1>1, <1>3, <1>5 DEF Seen
<1>9. history' = history \/ (HistoryInv' /\ history' \in [Reports!Workers -> Seq(Rows)])
  <2>1. CASE history' = [history EXCEPT ![x] = Append(@, q)]
    <3>1. Behind(q, runner'[x]) /\ \A p \in Rows : Behind(p, runner[x]) => Precedes(p, q)
      BY <1>3, <1>6, <1>7
    <3> HIDE DEF r
    <3> QED BY <1>3, <1>7, <2>1, <3>1, RowAppended
  <2> QED BY <1>1, <2>1
<1>10. ReportsTyped'
  BY <1>1, <1>7, <1>8, <1>9 DEF ReportsInv, ReportsTyped
<1>11. HistoryInv'
  BY <1>7, <1>9, <1>10, HistorySteady
<1>12. Recent /\ now <= now'
  BY <1>1, <1>5, <1>7, NoBirth
<1>13. SnapsInv'
  <2>1. ASSUME NEW i \in DOMAIN snaps, snaps[i].rows[x] # None PROVE Precedes(snaps[i].rows[x], q)
    <3>1. snaps[i] \in Shots
      BY DEF ReportsInv, ReportsTyped
    <3>2. snaps[i].rows[x] \in Rows
      BY <2>1, <3>1 DEF Shots, Seen
    <3>3. Behind(snaps[i].rows[x], r)
      BY <2>1 DEF ReportsInv, SnapsInv
    <3> QED BY <1>3, <3>2, <3>3
  <2>2. q # None
    BY <1>3
  <2>3. \A y \in Reports!Workers : latest'[y] = latest[y] \/
           (latest'[y] # None /\ \A i \in DOMAIN snaps : snaps[i].rows[y] # None => Precedes(snaps[i].rows[y], latest'[y]))
    BY <1>8, <2>1, <2>2
  <2>4. snaps' = snaps
    BY <1>1
  <2> QED BY <1>7, <1>10, <1>12, <2>3, <2>4, SnapsSteady
<1>14. LatestInv'
  <2>1. ASSUME NEW y \in Reports!Workers, y # x, latest'[y] # None
        PROVE  /\ Behind(latest'[y], runner'[y]) /\ Apart(latest'[y], births'[y])
               /\ latest'[y].at <= now' /\ latest'[y].elapsed <= latest'[y].at
    BY <1>7, <1>8, <1>10, <1>12, <2>1, LatestKept
  <2>2. /\ Behind(q, t) /\ Apart(q, births'[x]) /\ q.at <= now'
        /\ q.elapsed <= q.at
    <3>1. r.started \in Nat
      BY <1>2 DEF Runners
    <3> QED BY <1>1, <1>3, <1>5, <1>6, <3>1
  <2> QED BY <1>7, <1>8, <1>12, <2>1, <2>2 DEF LatestInv, Recent
<1> QED BY <1>7, <1>10, <1>11, <1>13, <1>14 DEF ReportsInv

LEMMA PublishFailsStep ==
  ASSUME ReportsInv, NEW x \in Reports!Workers, Reports!PublishFails(x)
  PROVE  ReportsInv'
<1> DEFINE r == runner[x]
           q == Reports!Row(x, Reports!Account(r))
           t == Reports!Failed(r)
<1>1. /\ r.up /\ runner' = [runner EXCEPT ![x] = t]
      /\ history' = history \/ history' = [history EXCEPT ![x] = Append(@, q)]
      /\ UNCHANGED <<now, latest, task, epochs, snaps, stored, births>>
  BY DEF Reports!PublishFails
<1>2. /\ q \in Rows /\ q.epoch = r.epoch
      /\ \A p \in Rows : Behind(p, r) => Precedes(p, q)
  BY <1>1, RowFacts
<1> HIDE DEF q
<1>3. r \in Runners /\ now \in Nat /\ epochs \in Nat /\ Lane(r, now, epochs)
  BY DEF ReportsInv, ReportsTyped
<1>4. /\ t \in Runners /\ t.accounted = r.accounted /\ t.up = FALSE /\ t.epoch = r.epoch
      /\ t.started = r.started
  BY <1>3 DEF Runners, Reports!Failed
<1> HIDE DEF t
<1>5. Follows(r, t) /\ Lane(t, now, epochs) /\ Behind(q, t)
  <2>1. {r.epoch, r.started} \subseteq Nat
    BY <1>3 DEF Runners
  <2> HIDE DEF r
  <2> QED BY <1>2, <1>3, <1>4, <2>1 DEF Follows, Lane, Behind
<1>6. /\ runner' \in [Reports!Workers -> Runners] /\ runner'[x] = t
      /\ \A y \in Reports!Workers : Follows(runner[y], runner'[y]) /\ Lane(runner'[y], now', epochs')
  <2>1. now' = now /\ epochs' = epochs /\ epochs <= epochs'
    BY <1>1, <1>3
  <2>2. t \in Runners /\ epochs' \in Nat /\ Follows(runner[x], t) /\ Lane(t, now, epochs')
    BY <1>3, <1>4, <1>5, <2>1 DEF r
  <2>3. runner' = [runner EXCEPT ![x] = t]
    BY <1>1
  <2> HIDE DEF r
  <2> QED BY <2>1, <2>2, <2>3, OneRunner
<1>7. history' = history \/ (HistoryInv' /\ history' \in [Reports!Workers -> Seq(Rows)])
  <2>1. CASE history' = [history EXCEPT ![x] = Append(@, q)]
    <3>1. Behind(q, runner'[x]) /\ \A p \in Rows : Behind(p, runner[x]) => Precedes(p, q)
      BY <1>2, <1>5, <1>6
    <3> HIDE DEF r
    <3> QED BY <1>2, <1>6, <2>1, <3>1, RowAppended
  <2> QED BY <1>1, <2>1
<1>8. ReportsTyped'
  BY <1>1, <1>6, <1>7 DEF ReportsInv, ReportsTyped
<1>9. Recent /\ now <= now' /\ latest' = latest /\ snaps' = snaps
  BY <1>1, <1>3, <1>6, NoBirth
<1>10. HistoryInv' /\ SnapsInv'
  BY <1>6, <1>7, <1>8, <1>9, HistorySteady, SnapsSteady
<1>11. LatestInv'
  BY <1>6, <1>8, <1>9, LatestKept DEF LatestInv, Recent
<1> QED BY <1>6, <1>8, <1>10, <1>11 DEF ReportsInv

LEMMA RestartStep ==
  ASSUME ReportsInv, NEW x \in Reports!Workers, Reports!Restart(x)
  PROVE  ReportsInv'
<1> DEFINE r == runner[x]
<1>1. /\ epochs' = epochs + 1 /\ births' = [births EXCEPT ![x] = @ \cup {now}]
      /\ UNCHANGED <<now, latest, history, task, snaps>>
  BY DEF Reports!Restart
<1>2. r \in Runners /\ now \in Nat /\ epochs \in Nat /\ task \in Nat /\ stored \in Nat /\ Lane(r, now, epochs)
  BY DEF ReportsInv, ReportsTyped
<1>3. PICK c \in Nat : runner' = [runner EXCEPT ![x] = Reports!Fresh(epochs', c)] /\ stored' \in Nat
  <2>1. r.count \in Nat
    BY <1>2 DEF Runners
  <2>2. PICK c \in IF x = Sampler THEN 0 .. r.count ELSE {0} :
          /\ runner' = [runner EXCEPT ![x] = Reports!Fresh(epochs', c)]
          /\ stored' = IF x = Sampler THEN c ELSE stored
    BY DEF Reports!Restart
  <2>3. c \in Nat
    BY <2>1, <2>2
  <2> QED BY <1>2, <2>2, <2>3
<1> DEFINE t == Reports!Fresh(epochs', c)
<1>4. /\ t \in Runners /\ t.epoch = epochs + 1 /\ t.started = now /\ t.accounted = now
      /\ t.active = 0 /\ t.occupied = 0 /\ t.busy = 0
  BY <1>1, <1>2 DEF Reports!Fresh, Runners
<1>5. runner' = [runner EXCEPT ![x] = t]
  BY <1>3
<1> HIDE DEF t
<1>6. Follows(r, t) /\ Lane(t, now, epochs')
  <2>1. {r.epoch, r.started, r.accounted} \subseteq Nat
    BY <1>2 DEF Runners
  <2> HIDE DEF r
  <2> QED BY <1>1, <1>2, <1>4, <2>1 DEF Follows, Lane
<1>7. /\ runner' \in [Reports!Workers -> Runners] /\ runner'[x] = t
      /\ \A y \in Reports!Workers : y # x => runner'[y] = runner[y]
      /\ \A y \in Reports!Workers : Follows(runner[y], runner'[y]) /\ Lane(runner'[y], now', epochs')
  <2>1. now' = now /\ epochs' \in Nat /\ epochs <= epochs'
    BY <1>1, <1>2
  <2>2. Follows(runner[x], t)
    BY <1>6 DEF r
  <2> HIDE DEF r
  <2> QED BY <1>4, <1>5, <1>6, <2>1, <2>2, OneRunner
<1>8. births' \in [Reports!Workers -> SUBSET Nat] /\ births'[x] = births[x] \cup {now}
      /\ \A y \in Reports!Workers : y # x => births'[y] = births[y]
  BY <1>1, <1>2 DEF ReportsInv, ReportsTyped
<1>9. ReportsTyped'
  BY <1>1, <1>2, <1>3, <1>7, <1>8 DEF ReportsInv, ReportsTyped
<1>10. Recent
  <2>1. ASSUME NEW y \in Reports!Workers, NEW b \in births'[y] PROVE (b \in births[y] \/ b = now) /\ b <= runner'[y].started
    <3>1. b \in births[y] \/ (y = x /\ b = now)
      BY <1>8
    <3>2. CASE b \in births[y]
      <4>1. runner[y] \in Runners /\ runner'[y] \in Runners /\ b \in Nat
        BY <1>7, <3>2 DEF ReportsInv, ReportsTyped
      <4>2. b <= runner[y].started /\ runner[y].started <= runner'[y].started
        BY <1>7, <3>2 DEF ReportsInv, LatestInv, Follows
      <4>3. runner[y].started \in Nat /\ runner'[y].started \in Nat
        BY <4>1 DEF Runners
      <4> QED BY <3>2, <4>1, <4>2, <4>3
    <3>3. CASE y = x /\ b = now
      BY <1>2, <1>4, <1>7, <3>3
    <3> QED BY <3>1, <3>2, <3>3
  <2> QED BY <2>1 DEF Recent
<1>11. now <= now' /\ latest' = latest /\ snaps' = snaps /\ history' = history
  BY <1>1, <1>2
<1> QED BY <1>7, <1>9, <1>10, <1>11, ReportsSteady

LEMMA SnapshotStep ==
  ASSUME ReportsInv, Reports!TakeSnapshot
  PROVE  ReportsInv'
<1>1. UNCHANGED <<now, runner, latest, history, task, epochs, stored, births>> /\ snaps' = Append(snaps, Reports!Snapshot)
  BY DEF Reports!TakeSnapshot
<1>2. Reports!Snapshot \in Shots /\ Reports!Snapshot.rows = latest /\ Reports!Snapshot.at = now
  BY DEF ReportsInv, ReportsTyped, Shots, Reports!Snapshot
<1>3. snaps \in Seq(Shots) /\ snaps' \in Seq(Shots) /\ Len(snaps') = Len(snaps) + 1
      /\ snaps'[Len(snaps')] = Reports!Snapshot /\ \A i \in DOMAIN snaps : snaps'[i] = snaps[i]
  BY <1>1, <1>2 DEF ReportsInv, ReportsTyped
<1>4. \A i \in DOMAIN snaps' : i \in DOMAIN snaps \/ i = Len(snaps')
  BY <1>3
<1>5. ReportsTyped' /\ HistoryInv' /\ LatestInv' /\ \A x \in Reports!Workers : Lane(runner'[x], now', epochs')
  <2>1. ReportsTyped'
    BY <1>1, <1>3 DEF ReportsInv, ReportsTyped
  <2>2. HistoryInv' /\ LatestInv'
    BY <1>1 DEF ReportsInv, HistoryInv, LatestInv
  <2>3. \A x \in Reports!Workers : Lane(runner'[x], now', epochs')
    BY <1>1 DEF ReportsInv
  <2> QED BY <2>1, <2>2, <2>3
<1>6. ASSUME NEW x \in Reports!Workers
      PROVE  /\ \A i \in DOMAIN snaps' : snaps'[i].rows[x] # None =>
                  /\ Behind(snaps'[i].rows[x], runner[x]) /\ Apart(snaps'[i].rows[x], births[x])
                  /\ snaps'[i].rows[x].at <= snaps'[i].at /\ snaps'[i].at <= now
                  /\ snaps'[i].rows[x].elapsed <= snaps'[i].rows[x].at
                  /\ latest[x] # None /\ Precedes(snaps'[i].rows[x], latest[x])
             /\ \A i, j \in DOMAIN snaps' : i < j /\ snaps'[i].rows[x] # None =>
                  snaps'[j].rows[x] # None /\ Precedes(snaps'[i].rows[x], snaps'[j].rows[x])
  <2>1. latest[x] # None => latest[x] \in Rows
    BY DEF ReportsInv, ReportsTyped, Seen
  <2>2. latest[x] # None => Precedes(latest[x], latest[x])
    <3>1. \A q \in Rows : q.at \in Nat /\ q.elapsed \in Nat /\ q.count \in Nat /\ q.busy \in Nat
      BY DEF Rows
    <3>2. \A q \in Rows : Precedes(q, q)
      BY <3>1 DEF Precedes
    <3> QED BY <2>1, <3>2
  <2>3. ASSUME NEW i \in DOMAIN snaps', snaps'[i].rows[x] # None
        PROVE  /\ Behind(snaps'[i].rows[x], runner[x]) /\ Apart(snaps'[i].rows[x], births[x])
               /\ snaps'[i].rows[x].at <= snaps'[i].at /\ snaps'[i].at <= now
               /\ snaps'[i].rows[x].elapsed <= snaps'[i].rows[x].at
               /\ latest[x] # None /\ Precedes(snaps'[i].rows[x], latest[x])
    <3>1. CASE i \in DOMAIN snaps
      BY <1>3, <2>3, <3>1 DEF ReportsInv, SnapsInv
    <3>2. CASE i = Len(snaps')
      <4>1. now <= now
        BY DEF ReportsInv, ReportsTyped
      <4> QED BY <1>2, <1>3, <2>2, <2>3, <3>2, <4>1 DEF ReportsInv, LatestInv
    <3> QED BY <1>4, <3>1, <3>2
  <2>4. ASSUME NEW i \in DOMAIN snaps', NEW j \in DOMAIN snaps', i < j, snaps'[i].rows[x] # None
        PROVE  snaps'[j].rows[x] # None /\ Precedes(snaps'[i].rows[x], snaps'[j].rows[x])
    <3>1. i \in DOMAIN snaps
      BY <1>3, <1>4, <2>4
    <3>2. CASE j \in DOMAIN snaps
      BY <1>3, <2>4, <3>1, <3>2 DEF ReportsInv, SnapsInv
    <3>3. CASE j = Len(snaps')
      BY <1>2, <1>3, <2>3, <2>4, <3>3
    <3> QED BY <1>4, <3>2, <3>3
  <2> QED BY <2>3, <2>4
<1>7. SnapsInv'
  BY <1>1, <1>6 DEF SnapsInv
<1> QED BY <1>5, <1>7 DEF ReportsInv

LEMMA ReportsStep ==
  ASSUME None \notin Rows, ReportsInv, [Reports!Next]_Reports!vars
  PROVE  ReportsInv'
<1>1. CASE Reports!NewTask \/ Reports!Persist \/ UNCHANGED Reports!vars
  <2>1. UNCHANGED <<now, runner, latest, history, epochs, snaps, births>> /\ task' \in Nat /\ stored' \in Nat
    <3>1. CASE Reports!Persist
      <4>1. runner[Sampler] \in Runners
        BY DEF ReportsInv, ReportsTyped, Reports!Workers
      <4> QED BY <3>1, <4>1 DEF Reports!Persist, ReportsInv, ReportsTyped, Runners
    <3>2. CASE Reports!NewTask \/ UNCHANGED Reports!vars
      BY <3>2 DEF Reports!NewTask, Reports!vars, ReportsInv, ReportsTyped
    <3> QED BY <1>1, <3>1, <3>2
  <2>2. ReportsTyped'
    BY <2>1 DEF ReportsInv, ReportsTyped
  <2>3. HistoryInv' /\ LatestInv' /\ SnapsInv'
    BY <2>1 DEF ReportsInv, HistoryInv, LatestInv, SnapsInv
  <2> QED BY <2>1, <2>2, <2>3 DEF ReportsInv
<1>2. ASSUME NEW x \in Reports!Workers, Reports!StartOp(x) \/ Reports!EndOp(x) PROVE ReportsInv'
  <2>1. runner[x] \in Runners /\ Reports!Account(runner[x]).active = runner[x].active
    BY AccountFacts
  <2>2. runner[x].active \in Nat
    BY <2>1 DEF Runners
  <2>3. CASE Reports!StartOp(x)
    <3>1. runner' = [runner EXCEPT ![x] = [Reports!Account(runner[x]) EXCEPT !.active = runner[x].active + 1]]
      BY <2>1, <2>3 DEF Reports!StartOp
    <3>2. UNCHANGED <<now, latest, history, task, epochs, snaps, stored, births>> /\ runner[x].active + 1 \in Nat
      BY <2>2, <2>3 DEF Reports!StartOp
    <3> QED BY <3>1, <3>2, OpStep
  <2>4. CASE Reports!EndOp(x)
    <3>1. runner' = [runner EXCEPT ![x] = [Reports!Account(runner[x]) EXCEPT !.active = runner[x].active - 1]]
      BY <2>1, <2>4 DEF Reports!EndOp
    <3>2. UNCHANGED <<now, latest, history, task, epochs, snaps, stored, births>> /\ runner[x].active - 1 \in Nat
      BY <2>2, <2>4 DEF Reports!EndOp
    <3> QED BY <3>1, <3>2, OpStep
  <2> QED BY <1>2, <2>3, <2>4
<1> QED BY <1>1, <1>2, AdvanceStep, SnapshotStep, CompleteStep, PublishStep, PublishFailsStep, RestartStep
     DEF Reports!Next

\* Performance reports (busy_time.rs, api/performance.rs): rows stay behind the runner that wrote them in
\* counters and time, and snapshots in order, through restarts, refused reports and new tasks.
THEOREM ReportsInvariance == ASSUME None \notin Rows PROVE Reports!Spec => []ReportsInv
<1>1. Reports!Init => ReportsInv
  BY ReportsInit
<1>2. ReportsInv /\ [Reports!Next]_Reports!vars => ReportsInv'
  BY ReportsStep
<1> QED BY <1>1, <1>2, PTL DEF Reports!Spec

\* The occupied time of a lane is the wall time during which something of it ran, however operations
\* overlap and whenever reports cut through them.
THEOREM BusyTime == ASSUME None \notin Rows PROVE Reports!Spec => []Reports!BusyExact
<1>1. ReportsInv => Reports!BusyExact
  BY AccountFacts DEF Reports!BusyExact
<1> QED BY <1>1, ReportsInvariance, PTL

LEMMA PartOfTime ==
  ASSUME NEW b \in Nat, NEW t \in Nat, t > 0
  PROVE  (100 * b) \div t \in Int
OBVIOUS

\* Two reports of one identity give a difference: no counter goes back and no more was busy than passed.
THEOREM DifferencesValid ==
  ASSUME None \notin Rows, None \notin Int PROVE Reports!Spec => []Reports!NeverInvalid
<1>1. ASSUME ReportsInv, NEW x \in Reports!Workers, NEW v \in Reports!Intervals(x)
      PROVE  Reports!Percent(v) # None
  <2>1. history[x] \in Seq(Rows)
    BY <1>1 DEF ReportsInv, ReportsTyped
  <2>2. PICK j \in 1 .. Len(history[x]) - 1 :
          /\ v = <<history[x][j], history[x][j + 1]>>
          /\ Reports!SameIdentity(history[x][j], history[x][j + 1]) /\ history[x][j].at < history[x][j + 1].at
    BY <1>1 DEF Reports!Intervals, Reports!IntervalsOf
  <2>3. j \in DOMAIN history[x] /\ j + 1 \in DOMAIN history[x] /\ j < j + 1
    BY <2>1, <2>2
  <2> DEFINE a == history[x][j]
             b == history[x][j + 1]
  <2>4. a \in Rows /\ b \in Rows /\ Precedes(a, b) /\ a.epoch = b.epoch /\ a.at < b.at /\ v[1] = a /\ v[2] = b
    BY <1>1, <2>1, <2>2, <2>3 DEF ReportsInv, HistoryInv, Reports!SameIdentity
  <2> HIDE DEF a, b
  <2>5. {a.at, a.elapsed, a.count, a.busy, b.at, b.elapsed, b.count, b.busy} \subseteq Nat
    BY <2>4 DEF Rows
  <2>6. /\ b.elapsed - a.elapsed = b.at - a.at /\ a.count <= b.count
        /\ a.busy <= b.busy /\ b.busy - a.busy <= b.at - a.at
    BY <2>4, <2>5 DEF Precedes
  <2> DEFINE seconds == b.elapsed - a.elapsed
             busy    == b.busy - a.busy
             count   == b.count - a.count
  <2>7. /\ Reports!Delta(v, "elapsed") = seconds /\ Reports!Delta(v, "busy") = busy
        /\ Reports!Delta(v, "count") = count
    <3>1. b.elapsed >= a.elapsed
      BY <2>4, <2>5, <2>6
    <3> QED BY <2>4, <2>6, <2>5, <3>1 DEF Reports!Delta
  <2>8. seconds \in Nat /\ seconds > 0 /\ busy \in Nat /\ busy <= seconds /\ count \in Nat
    <3>1. /\ a.at \in Nat /\ a.elapsed \in Nat /\ a.count \in Nat /\ a.busy \in Nat
          /\ b.at \in Nat /\ b.elapsed \in Nat /\ b.count \in Nat /\ b.busy \in Nat /\ a.at < b.at
      BY <2>4, <2>5
    <3>2. seconds = b.at - a.at /\ busy <= b.at - a.at
      BY <2>6
    <3>3. busy \in Nat /\ count \in Nat
      BY <2>6, <3>1
    <3> QED BY <3>1, <3>2, <3>3
  <2> HIDE DEF seconds, busy, count
  <2>9. seconds # None /\ busy # None /\ count # None
    BY <2>8, None \notin Int
  <2>10. Reports!Percent(v) = (100 * busy) \div seconds
    <3>1. ~(seconds = 0 \/ busy > seconds)
      BY <2>8
    <3> QED BY <2>7, <2>9, <3>1, Zenon DEF Reports!Percent
  <2> QED BY <2>8, <2>10, PartOfTime, None \notin Int
<1>2. ReportsInv => Reports!NeverInvalid
  BY <1>1 DEF Reports!NeverInvalid
<1> QED BY <1>2, ReportsInvariance, PTL

\* A nonempty set of naturals has a least element.
LEMMA Least == ASSUME NEW S, S \subseteq Nat, S # {} PROVE \E x \in S : \A y \in S : x <= y
<1> DEFINE R == {ss \in Nat \X Nat : ss[1] < ss[2]}
<1>1. IsWellFoundedOn(R, Nat)
  BY NatLessThanWellFounded DEF OpToRel
<1>2. \A x, y \in Nat : <<y, x>> \in R <=> y < x
  OBVIOUS
<1> HIDE DEF R
<1>3. PICK x \in S : \A y \in S : ~ (<<y, x>> \in R)
  BY <1>1, WFMin
<1>4. ASSUME NEW y \in S PROVE x <= y
  <2>1. x \in Nat /\ y \in Nat /\ ~ (y < x)
    BY <1>2, <1>3
  <2> QED BY <2>1
<1> QED BY <1>4

\* Where neighbours have the same epoch, the first and every later one have.
LEMMA SameAlong ==
  ASSUME NEW n \in Nat, NEW f, \A i \in 1 .. n - 1 : f[i] = f[i + 1], NEW k \in 1 .. n
  PROVE  f[k] = f[1]
<1> DEFINE Bad == {i \in Nat : i \in 1 .. n /\ f[i] # f[1]}
<1> SUFFICES ASSUME Bad # {} PROVE FALSE
  OBVIOUS
<1>1. PICK i \in Bad : \A j \in Bad : i <= j
  BY Least
<1>2. i \in Nat /\ i # 1 /\ i \in 1 .. n /\ f[i] # f[1]
  BY <1>1
<1>3. i - 1 \in 1 .. n - 1 /\ i - 1 \notin Bad
  BY <1>1, <1>2
<1>4. f[i - 1] = f[i]
  BY <1>2, <1>3
<1> QED BY <1>2, <1>3, <1>4

\* A measurement that calls itself valid spans one incarnation of each worker, and measures no less than
\* nothing.
THEOREM MeasurementSteady == ASSUME None \notin Rows PROVE Reports!Spec => []Reports!ValidMeansSteady
<1>1. ASSUME ReportsInv, Reports!Valid, NEW x \in Reports!Workers
      PROVE  /\ Reports!Measured(x) >= 0
             /\ ~\E b \in births[x] : Head(snaps).at < b /\ b < Reports!Last(snaps).rows[x].at
  <2> DEFINE n == Len(snaps)
             p == snaps[1].rows[x]
             q == snaps[n].rows[x]
  <2>1. snaps \in Seq(Shots) /\ n \in Nat /\ n >= 2 /\ births[x] \subseteq Nat
    BY <1>1 DEF ReportsInv, ReportsTyped, Reports!Valid
  <2>2. 1 \in DOMAIN snaps /\ n \in DOMAIN snaps /\ snaps[1] \in Shots /\ snaps[n] \in Shots
    BY <2>1
  <2>3. Head(snaps) = snaps[1] /\ Reports!Last(snaps) = snaps[n]
    BY <2>1 DEF Reports!Last
  <2>4. \A i \in DOMAIN snaps : snaps[i].rows[x] # None
    BY <1>1 DEF Reports!Valid, Reports!Covered
  <2>5. p \in Rows /\ q \in Rows
    BY <2>2, <2>4 DEF Shots, Seen
  <2>6. p.epoch = q.epoch
    <3> DEFINE f == [i \in 1 .. n |-> snaps[i].rows[x].epoch]
    <3>1. ASSUME NEW i \in 1 .. n - 1 PROVE f[i] = f[i + 1]
      <4>1. Reports!EpochOf(snaps[i], x) = Reports!EpochOf(snaps[i + 1], x)
        BY <1>1, <3>1 DEF Reports!Valid, Reports!SameEpochs
      <4>2. i \in DOMAIN snaps /\ i + 1 \in DOMAIN snaps
        BY <2>1, <3>1
      <4> QED BY <2>4, <4>1, <4>2 DEF Reports!EpochOf
    <3>2. f[n] = f[1]
      <4> HIDE DEF f, n
      <4>1. n \in Nat /\ n \in 1 .. n
        BY <2>1
      <4>2. \A i \in 1 .. n - 1 : f[i] = f[i + 1]
        BY <3>1
      <4> QED BY <4>1, <4>2, SameAlong
    <3> QED BY <2>1, <3>2 DEF f
  <2>7. Precedes(p, q)
    BY <1>1, <2>1, <2>2, <2>4 DEF ReportsInv, SnapsInv
  <2>8. /\ p.elapsed <= p.at /\ p.at <= snaps[1].at /\ Apart(q, births[x])
    BY <1>1, <2>2, <2>4 DEF ReportsInv, SnapsInv
  <2>9. {p.at, p.elapsed, p.count, q.at, q.elapsed, q.count, snaps[1].at} \subseteq Nat
    BY <2>2, <2>5 DEF Rows, Shots
  <2> HIDE DEF n, p, q
  <2>10. p.count <= q.count /\ q.at - q.elapsed = p.at - p.elapsed
    BY <2>6, <2>7 DEF Precedes
  <2>11. Reports!Measured(x) = q.count - p.count
    BY <2>3 DEF Reports!Measured, p, q
  <2>12. ASSUME NEW b \in births[x], snaps[1].at < b, b < q.at PROVE FALSE
    <3>1. b <= q.at - q.elapsed \/ q.at <= b
      BY <2>8, <2>12 DEF Apart
    <3>2. b \in Nat /\ snaps[1].at < b /\ b < q.at
      BY <2>1, <2>12
    <3>3. p.elapsed <= p.at /\ p.at <= snaps[1].at
      BY <2>8
    <3> QED BY <2>9, <2>10, <3>1, <3>2, <3>3
  <2>13. Reports!Measured(x) >= 0
    BY <2>9, <2>10, <2>11
  <2>14. Head(snaps).at = snaps[1].at /\ Reports!Last(snaps).rows[x].at = q.at
    BY <2>3 DEF q
  <2>15. ~\E b \in births[x] : snaps[1].at < b /\ b < q.at
    BY <2>12
  <2> QED BY <2>13, <2>14, <2>15
<1>2. ReportsInv => Reports!ValidMeansSteady
  BY <1>1 DEF Reports!ValidMeansSteady
<1> QED BY <1>2, ReportsInvariance, PTL
=============================================================================
