------------------------ MODULE SamplerRecoveryProofs ------------------------
(***************************************************************************)
(* What recovery guarantees, in three parts.                               *)
(*                                                                         *)
(* Types.  TypeOK bounds the buffer of a process by what it has produced,  *)
(* its inserts by MaxInserts and its write under way by what is not yet    *)
(* written.  TypeInv adds what an action needs to keep that: that ids and  *)
(* draws of inserts fit their ranges, that draws are not produced beyond   *)
(* the task, and where a start failure can still be counted.               *)
(*                                                                         *)
(* The invariant where activations do not overlap.  The heart of it is the *)
(* backlog: the ids between a completion cursor and a production cursor,   *)
(* in the table or in an insert that is not settled, carry exactly the     *)
(* draws that are produced and not merged, in the same order.  The process *)
(* that runs the sampler has such a backlog, and the saved checkpoint has  *)
(* one in the table alone, so that it can be recovered.                    *)
(*                                                                         *)
(* The theorems: every action keeps the invariant, then the properties of  *)
(* SamplerRecovery and the refinement of OrderedIngestion.                 *)
(***************************************************************************)
EXTENDS SamplerRecovery, FiniteSetTheorems, TLAPS

-----------------------------------------------------------------------------
(* Types.                                                                  *)

Phases   == {"off", "loading", "built", "running", "stopping", "publishing", "saving", "saved"}
Ckpt     == [core : Core, batches : Nat]
TickType == [batches : SUBSET Completed, open : Nat]
Cleanups == [upTo : Ids, state : Background]
Flushes  == [n : Nat, state : Background]

Memory ==
  [phase : Phases, loaded : Ckpt \cup {None}, core : Core, local : Nat, inserts : SUBSET Insert,
   fetch : Fetch \cup {None}, ready : SUBSET Completed, tick : TickType \cup {None},
   cleanup : Cleanups \cup {None}, flush : Flushes \cup {None}, unflushed : Nat,
   leaving : {"stop", "complete", "fail"}]

LateInsert  == [kind : {"insert"}, first : Ids, draw : Draws, n : 1 .. MaxBundle]
LateFlush   == [kind : {"flush"}, n : Nat]
LateCleanup == [kind : {"cleanup"}, upTo : Ids]

\* The ids and the draws of an insert are within the bounds.
Fits(b) == b.first + b.n - 1 <= MaxId /\ b.draw + b.n - 1 <= MaxDraws

\* What relates the fields of a process.
Counted(m) ==
  /\ m.local <= m.core.produced /\ m.core.produced + m.core.buffered <= MaxDraws
  /\ \A b \in m.inserts : Fits(b)
  /\ IsFiniteSet(m.inserts) /\ Cardinality(m.inserts) <= MaxInserts
  /\ m.flush # None => m.flush.n <= m.unflushed
  /\ m.phase \in {"off", "loading", "built"} => m.local = 0 /\ m.leaving = "stop"

RowsOK ==
  /\ rows \in [Ids -> [status : {"absent", "pending", "completed"}, draw : 0 .. MaxDraws]]
  /\ \A i \in Ids : rows[i].status # "absent" => rows[i].draw \in Draws

CkptTypeOK ==
  /\ ckpt \in Ckpt \cup {None}
  /\ ckpt # None => ckpt.core.produced + ckpt.core.buffered <= MaxDraws

MemOK ==
  /\ mem \in [Samplers -> Memory]
  /\ \A s \in Samplers : Counted(mem[s])

LateOK ==
  /\ late \subseteq LateInsert \cup LateFlush \cup LateCleanup
  /\ \A l \in late : l.kind = "insert" => Fits(l)

FailuresOK ==
  /\ failures \in [Samplers -> 0 .. MaxStarts]
  /\ \A s \in Samplers :
       /\ mem[s].phase = "loading" => failures[s] < MaxStarts
       /\ mem[s].phase \notin {"off", "loading", "built"} /\ mem[s].leaving # "fail" => failures[s] = 0
       /\ mem[s].phase = "running" => mem[s].leaving # "fail"

RestOK ==
  /\ batches \in Nat
  /\ task \in {"active", "completed", "failed"}
  /\ holder \in Samplers \cup {None} /\ desired \in Samplers \cup {None}
  /\ nextId \in 1 .. MaxId + 1
  /\ faults \in 0 .. MaxFaults

\* The inductive type invariant.
TypeInv == RowsOK /\ CkptTypeOK /\ MemOK /\ LateOK /\ FailuresOK /\ RestOK

\* One process changes to a typed memory.
LEMMA MemChanges ==
  ASSUME MemOK, NEW s \in Samplers, NEW m \in Memory, Counted(m), mem' = [mem EXCEPT ![s] = m]
  PROVE  MemOK'
<1>1. mem' \in [Samplers -> Memory]
  BY DEF MemOK
<1>2. \A o \in Samplers : mem'[o] = IF o = s THEN m ELSE mem[o]
  BY DEF MemOK
<1>3. \A o \in Samplers : Counted(mem'[o])
  BY <1>2 DEF MemOK
<1> QED BY <1>1, <1>3 DEF MemOK

\* A node process without a runner is typed.
LEMMA OffTyped == Off \in Memory /\ Counted(Off)
<1>1. Fresh \in Core
  BY SamplerAssumption DEF Fresh, Core
<1>2. Off \in Memory
  BY <1>1 DEF Off, Memory, Phases
<1>3. Counted(Off)
  BY FS_EmptySet, SamplerAssumption DEF Off, Fresh, Counted
<1> QED BY <1>2, <1>3

-----------------------------------------------------------------------------
(* The operators of SamplerRecovery.                                       *)

\* Min of two numbers is one of them and at most each.
LEMMA MinOfPair ==
  ASSUME NEW a \in Int, NEW b \in Int
  PROVE  Min({a, b}) \in {a, b} /\ Min({a, b}) <= a /\ Min({a, b}) <= b
<1>1. \E x \in {a, b} : \A y \in {a, b} : x =< y
  OBVIOUS
<1> QED BY <1>1 DEF Min

\* Every nonempty set of natural numbers has a least element, ...
LEMMA Least ==
  ASSUME NEW S, S \subseteq Nat, S # {}
  PROVE  \E x \in S : \A y \in S : x =< y
<1> DEFINE T == {0 .. x : x \in S}
<1>1. \A x \in S : 0 .. x \in FiniteSubsetsOf(Nat)
  BY FS_Interval DEF FiniteSubsetsOf
<1>2. T \subseteq FiniteSubsetsOf(Nat) /\ T # {}
  BY <1>1
<1>3. \E t \in T : \A u \in T : ~(<<u, t>> \in StrictSubsetOrdering(Nat))
  <2> HIDE DEF T
  <2> QED BY <1>2, FS_StrictSubsetOrderingWellFounded, WFMin
<1>4. PICK x \in S : \A y \in S : ~(<<0 .. y, 0 .. x>> \in StrictSubsetOrdering(Nat))
  BY <1>3
<1>5. ASSUME NEW y \in S, y < x PROVE FALSE
  <2>1. y \in Nat /\ x \in Nat /\ y < x
    BY <1>5
  <2>2. 0 .. y \subseteq 0 .. x
    BY <2>1
  <2>3. 0 .. y # 0 .. x
    <3>1. x \in 0 .. x /\ x \notin 0 .. y
      BY <2>1
    <3> QED BY <3>1
  <2>4. 0 .. y \in SUBSET Nat /\ 0 .. x \in SUBSET Nat
    OBVIOUS
  <2>5. <<0 .. y, 0 .. x>> \in StrictSubsetOrdering(Nat)
    <3> DEFINE a == 0 .. y   b == 0 .. x
    <3>1. a \in SUBSET Nat /\ b \in SUBSET Nat /\ a \subseteq b /\ a # b
      BY <2>2, <2>3, <2>4
    <3> HIDE DEF a, b
    <3>2. <<a, b>> \in StrictSubsetOrdering(Nat)
      BY <3>1 DEF StrictSubsetOrdering
    <3> QED BY <3>2 DEF a, b
  <2> QED BY <1>4, <2>5
<1>6. \A y \in S : y \in Nat /\ x \in Nat
  OBVIOUS
<1> QED BY <1>5, <1>6

\* ... and every nonempty bounded one a greatest.
LEMMA Greatest ==
  ASSUME NEW n \in Nat, NEW S, S \subseteq 0 .. n, S # {}
  PROVE  \E x \in S : \A y \in S : x >= y
<1> DEFINE R == {n - x : x \in S}
<1>1. R \subseteq Nat /\ R # {}
  <2>1. \A x \in S : x \in 0 .. n
    OBVIOUS
  <2>2. \A x \in S : n - x \in Nat
    BY <2>1
  <2> QED BY <2>2
<1>2. PICK r \in R : \A q \in R : r =< q
  <2> HIDE DEF R
  <2> QED BY <1>1, Least
<1>3. PICK x \in S : r = n - x
  OBVIOUS
<1>4. ASSUME NEW y \in S PROVE x >= y
  <2>1. n - y \in R /\ x \in 0 .. n /\ y \in 0 .. n
    OBVIOUS
  <2> QED BY <1>2, <1>3, <2>1
<1> QED BY <1>4

\* Min is the least element, ...
LEMMA MinIs ==
  ASSUME NEW S, S \subseteq Nat, S # {}
  PROVE  Min(S) \in S /\ \A y \in S : Min(S) <= y
<1>1. \E x \in S : \A y \in S : x =< y
  BY Least
<1> QED BY <1>1 DEF Min

\* ... and Max the greatest.
LEMMA MaxIs ==
  ASSUME NEW n \in Nat, NEW S, S \subseteq 0 .. n, S # {}
  PROVE  Max(S) \in S /\ \A y \in S : Max(S) >= y
<1>1. \E x \in S : \A y \in S : x >= y
  BY Greatest
<1> QED BY <1>1 DEF Max

\* A group of fetched batches is finite.
LEMMA CompletedFinite ==
  ASSUME NEW G, G \subseteq Completed
  PROVE  IsFiniteSet(G) /\ Cardinality(G) \in Nat
<1>1. IsFiniteSet(Ids) /\ IsFiniteSet(Draws)
  BY FS_Interval, SamplerAssumption DEF Ids, Draws
<1>2. IsFiniteSet(Ids \X Draws)
  BY <1>1, FS_Product
<1> DEFINE f == [g \in Completed |-> <<g.id, g.draw>>]
<1>3. f \in Injection(Completed, Ids \X Draws)
  BY DEF Injection, Completed, IsInjective
<1>4. IsFiniteSet(Completed)
  BY <1>2, <1>3, FS_Injection
<1> QED BY <1>4, FS_Subset, FS_CardinalityType

\* process_completed_batches counts the group and leaves the production side alone.
LEMMA MergedTyped ==
  ASSUME NEW core \in Core, NEW G, G \subseteq Completed
  PROVE  /\ Merged(core, G) \in Core
         /\ Merged(core, G).produced = core.produced
         /\ Merged(core, G).buffered = core.buffered
         /\ Merged(core, G).lastProduced = core.lastProduced
         /\ Merged(core, G).completed = core.completed + Cardinality(G)
<1>1. CASE G = {}
  BY <1>1, FS_EmptySet DEF Merged, Core
<1>2. CASE G # {}
  <2>1. Cardinality(G) \in Nat
    BY CompletedFinite
  <2>2. {b.draw : b \in G} \subseteq Draws
    BY DEF Completed
  <2>3. {b.id : b \in G} \subseteq 0 .. MaxId /\ {b.id : b \in G} # {}
    BY <1>2 DEF Completed, Ids
  <2>4. Max({b.id : b \in G}) \in 0 .. MaxId
    BY <2>3, MaxIs, SamplerAssumption
  <2> DEFINE d == {b.draw : b \in G}   top == Max({b.id : b \in G})   n == Cardinality(G)
  <2>5. Merged(core, G) = [core EXCEPT !.completed = @ + n, !.ingested = @ \cup d,
                                       !.lastCompleted = top, !.roundTrip = "ready"]
    BY <1>2 DEF Merged
  <2>6. d \subseteq Draws /\ top \in 0 .. MaxId /\ n \in Nat
    BY <2>1, <2>2, <2>4
  <2>a. core.completed + n \in Nat
    BY <2>6 DEF Core
  <2> HIDE DEF d, top, n
  <2>7. [core EXCEPT !.completed = @ + n, !.ingested = @ \cup d,
                     !.lastCompleted = top, !.roundTrip = "ready"] \in Core
    BY <2>6, <2>a DEF Core
  <2> QED BY <2>5, <2>6, <2>7 DEF Core, n
<1> QED BY <1>1, <1>2

\* produce and enqueue_generated only move draws from the sampler to the buffer.
LEMMA ProducedTyped ==
  ASSUME NEW core \in Core, core.produced + core.buffered <= MaxDraws, NEW next \in Produced(core)
  PROVE  /\ next \in Core /\ core.produced <= next.produced
         /\ next.produced + next.buffered <= MaxDraws
         /\ next.completed = core.completed /\ next.ingested = core.ingested
         /\ next.lastCompleted = core.lastCompleted /\ next.lastProduced = core.lastProduced
         /\ core.roundTrip = "waiting" => next = core
         /\ next.roundTrip = "waiting" /\ core.roundTrip # "waiting" => core.produced < next.produced
<1>1. PICK g \in Generated(core) : next \in Enqueued(g)
  BY DEF Produced
<1>2. /\ g \in Core /\ g.produced + g.buffered <= MaxDraws
      /\ g.completed = core.completed /\ g.ingested = core.ingested
      /\ g.lastCompleted = core.lastCompleted /\ g.lastProduced = core.lastProduced
      /\ g.produced = core.produced /\ g.roundTrip = core.roundTrip
      /\ core.roundTrip = "waiting" => g = core
  <2>1. core = [core EXCEPT !.buffered = core.buffered] /\ core.buffered \in Nat
    BY DEF Core
  <2>2. CASE g = core
    BY <2>1, <2>2
  <2>3. CASE /\ core.roundTrip # "waiting"
             /\ \E n \in 0 .. Min({MaxGeneration, MaxDraws - core.produced}) : g = [core EXCEPT !.buffered = n]
    <3>1. MaxGeneration \in Int /\ MaxDraws - core.produced \in Int /\ MaxDraws \in Nat
      BY SamplerAssumption DEF Core
    <3>2. Min({MaxGeneration, MaxDraws - core.produced}) <= MaxDraws - core.produced
          /\ Min({MaxGeneration, MaxDraws - core.produced}) \in Int
      BY <3>1, MinOfPair
    <3>3. PICK n \in 0 .. Min({MaxGeneration, MaxDraws - core.produced}) : g = [core EXCEPT !.buffered = n]
      BY <2>3
    <3>4. n \in Nat /\ n <= MaxDraws - core.produced
      BY <3>1, <3>2
    <3> QED BY <2>3, <3>1, <3>3, <3>4 DEF Core
  <2> QED BY <2>2, <2>3 DEF Generated
<1>3. CASE next = g
  BY <1>2, <1>3 DEF Core
<1>4. CASE /\ g.roundTrip # "waiting"
           /\ \E k \in 1 .. Min({g.buffered, IF g.roundTrip = "needs" THEN 1 ELSE MaxPerTick}) :
                next = [g EXCEPT !.produced = @ + k, !.buffered = @ - k,
                                 !.roundTrip = IF @ = "needs" THEN "waiting" ELSE @]
  <2> DEFINE top == Min({g.buffered, IF g.roundTrip = "needs" THEN 1 ELSE MaxPerTick})
  <2>1. PICK k \in 1 .. top :
                next = [g EXCEPT !.produced = @ + k, !.buffered = @ - k,
                                 !.roundTrip = IF @ = "needs" THEN "waiting" ELSE @]
    BY <1>4
  <2>2. g.buffered \in Int /\ (IF g.roundTrip = "needs" THEN 1 ELSE MaxPerTick) \in Int
    BY <1>2, SamplerAssumption DEF Core
  <2>3. top \in Int /\ top <= g.buffered
    BY <2>2, MinOfPair
  <2>4. k \in Nat /\ 1 <= k /\ k <= g.buffered
    BY <2>2, <2>3
  <2>5. /\ g.produced + k \in Nat /\ g.buffered - k \in Nat /\ g.produced < g.produced + k /\ g.produced <= g.produced + k
        /\ (g.produced + k) + (g.buffered - k) <= MaxDraws
    BY <1>2, <2>4, SamplerAssumption DEF Core
  <2> HIDE DEF top
  <2>6. next \in Core
    BY <1>2, <2>1, <2>5 DEF Core
  <2>7. /\ next.produced = g.produced + k /\ next.buffered = g.buffered - k
        /\ next.completed = g.completed /\ next.ingested = g.ingested
        /\ next.lastCompleted = g.lastCompleted /\ next.lastProduced = g.lastProduced
    BY <1>2, <2>1 DEF Core
  <2> QED BY <1>2, <1>4, <2>5, <2>6, <2>7
<1> QED BY <1>1, <1>3, <1>4 DEF Enqueued

\* The ids of an insert that fits are ids.
LEMMA IdsOfFits ==
  ASSUME NEW b, b.first \in Ids, b.n \in 1 .. MaxBundle, Fits(b)
  PROVE  IdsOf(b) \subseteq Ids
BY SamplerAssumption DEF IdsOf, Fits, Ids

\* The transaction of an insert keeps the table typed.
LEMMA InsertedTyped ==
  ASSUME RowsOK, NEW b, b.first \in Ids, b.draw \in Draws, b.n \in 1 .. MaxBundle, Fits(b)
  PROVE  /\ Inserted(b) \in [Ids -> [status : {"absent", "pending", "completed"}, draw : 0 .. MaxDraws]]
         /\ \A i \in Ids : Inserted(b)[i].status # "absent" => Inserted(b)[i].draw \in Draws
<1> DEFINE R == [status : {"absent", "pending", "completed"}, draw : 0 .. MaxDraws]
<1>1. ASSUME NEW i \in Ids, i \in IdsOf(b)
      PROVE  b.draw + (i - b.first) \in Draws
  BY <1>1, SamplerAssumption DEF IdsOf, Ids, Draws, Fits
<1>2. \A d \in Draws : [status |-> "pending", draw |-> d] \in R
  BY SamplerAssumption DEF Draws
<1>3. ASSUME NEW i \in Ids
      PROVE  Inserted(b)[i] \in R /\ (Inserted(b)[i].status # "absent" => Inserted(b)[i].draw \in Draws)
  <2>1. CASE i \in IdsOf(b)
    <3> DEFINE d == b.draw + (i - b.first)
    <3>1. Inserted(b)[i] = [status |-> "pending", draw |-> d]
      BY <2>1 DEF Inserted
    <3>2. d \in Draws
      BY <1>1, <2>1
    <3> HIDE DEF d
    <3> QED BY <1>2, <3>1, <3>2
  <2>2. CASE i \notin IdsOf(b)
    BY <2>2 DEF Inserted, RowsOK
  <2> QED BY <2>1, <2>2
<1>4. Inserted(b) \in [Ids -> R]
  BY <1>3 DEF Inserted
<1> QED BY <1>3, <1>4

\* Cleanup deletes rows and changes no other.
LEMMA CleanupTyped ==
  ASSUME RowsOK, NEW upTo, Cleanup(upTo)
  PROVE  RowsOK'
<1>1. PICK gone \in SUBSET Consumable(upTo) : rows' = [i \in Ids |-> IF i \in gone THEN Absent ELSE rows[i]]
  BY DEF Cleanup
<1>2. Absent \in [status : {"absent", "pending", "completed"}, draw : 0 .. MaxDraws]
  BY SamplerAssumption DEF Absent
<1> QED BY <1>1, <1>2 DEF RowsOK, Absent

\* What a dropped runner leaves under way are statements with their types.
LEMMA UnderWayTyped ==
  ASSUME NEW m \in Memory, Counted(m)
  PROVE  /\ UnderWay(m) \subseteq LateInsert \cup LateFlush \cup LateCleanup
         /\ \A l \in UnderWay(m) : l.kind = "insert" => Fits(l)
<1> DEFINE I == {[kind |-> "insert", first |-> b.first, draw |-> b.draw, n |-> b.n] :
                   b \in {c \in m.inserts : c.state = "sent"}}
           F == IF m.flush # None /\ m.flush.state = "sent" THEN {[kind |-> "flush", n |-> m.flush.n]} ELSE {}
           C == IF m.cleanup # None /\ m.cleanup.state = "sent"
                THEN {[kind |-> "cleanup", upTo |-> m.cleanup.upTo]} ELSE {}
<1>1. \A l \in I : l \in LateInsert /\ Fits(l)
  BY DEF Memory, Counted, Insert, LateInsert, Fits
<1>2. \A l \in F : l \in LateFlush /\ l.kind # "insert"
  BY DEF Memory, Flushes, LateFlush
<1>3. \A l \in C : l \in LateCleanup /\ l.kind # "insert"
  BY DEF Memory, Cleanups, LateCleanup
<1>4. UnderWay(m) = I \cup F \cup C
  BY DEF UnderWay
<1> HIDE DEF I, F, C
<1> QED BY <1>1, <1>2, <1>3, <1>4

\* An answered insert stays one of the inserts.
LEMMA AnswerTyped ==
  ASSUME NEW m \in Memory, Counted(m), NEW b \in m.inserts, b.state = "sent", NEW st \in {"ok", "error"}
  PROVE  LET inserts == (m.inserts \ {b}) \cup {[b EXCEPT !.state = st]}
         IN  [m EXCEPT !.inserts = inserts] \in Memory /\ Counted([m EXCEPT !.inserts = inserts])
<1> DEFINE c == [b EXCEPT !.state = st]
           J == (m.inserts \ {b}) \cup {c}
<1>1. b \in Insert /\ c \in Insert /\ Fits(c)
  BY DEF Memory, Insert, Counted, Fits
<1>2. J \subseteq Insert
  BY <1>1 DEF Memory
<1>3. IsFiniteSet(m.inserts) /\ Cardinality(m.inserts) <= MaxInserts /\ Cardinality(m.inserts) \in Nat
  BY FS_CardinalityType DEF Counted
<1>4. IsFiniteSet(m.inserts \ {b}) /\ Cardinality(m.inserts \ {b}) = Cardinality(m.inserts) - 1
  BY <1>3, FS_RemoveElement
<1>5. IsFiniteSet(J) /\ Cardinality(J) <= Cardinality(m.inserts)
  <2> DEFINE K == m.inserts \ {b}
  <2>1. IsFiniteSet(K) /\ Cardinality(K) \in Nat /\ Cardinality(K) = Cardinality(m.inserts) - 1
    BY <1>4, FS_CardinalityType
  <2>2. /\ IsFiniteSet(K \cup {c})
        /\ Cardinality(K \cup {c}) = IF c \in K THEN Cardinality(K) ELSE Cardinality(K) + 1
    <3> HIDE DEF K, c
    <3> QED BY <2>1, FS_AddElement
  <2> QED BY <1>3, <2>1, <2>2
<1>6. Cardinality(J) \in Nat /\ Cardinality(J) <= MaxInserts
  BY <1>3, <1>5, FS_CardinalityType, SamplerAssumption
<1>7. \A x \in J : Fits(x)
  BY <1>1 DEF Counted
<1> HIDE DEF J
<1>8. [m EXCEPT !.inserts = J] \in Memory
  BY <1>2 DEF Memory
<1>9. Counted([m EXCEPT !.inserts = J])
  BY <1>5, <1>6, <1>7 DEF Memory, Counted
<1> QED BY <1>8, <1>9 DEF J

\* drain_finished_insert only takes inserts away.
LEMMA UnansweredTyped ==
  ASSUME NEW m \in Memory, Counted(m)
  PROVE  /\ Unanswered(m) \subseteq m.inserts /\ IsFiniteSet(Unanswered(m))
         /\ Cardinality(Unanswered(m)) <= MaxInserts
<1>1. Unanswered(m) \subseteq m.inserts
  BY DEF Unanswered
<1>2. IsFiniteSet(m.inserts) /\ Cardinality(m.inserts) \in Nat /\ Cardinality(m.inserts) <= MaxInserts
  BY FS_CardinalityType DEF Counted
<1>3. IsFiniteSet(Unanswered(m)) /\ Cardinality(Unanswered(m)) <= Cardinality(m.inserts)
  BY <1>1, <1>2, FS_Subset
<1> QED BY <1>1, <1>2, <1>3, FS_CardinalityType, SamplerAssumption

\* Ready batches are completed ones.
LEMMA NowReadyTyped ==
  ASSUME NEW m \in Memory
  PROVE  NowReady(m) \subseteq Completed
BY DEF NowReady, Memory, Fetch

\* A new fetch has its type whatever inserts bound it.
LEMMA NewFetchTyped ==
  ASSUME nextId \in 1 .. MaxId + 1, NEW core \in Core, NEW inserts, inserts \subseteq Insert
  PROVE  /\ NewFetch(core, inserts) \in Fetch
         /\ NewFetch(core, inserts).before <= nextId
         /\ \A b \in inserts : NewFetch(core, inserts).before <= b.first
<1> DEFINE S == {nextId} \cup {b.first : b \in inserts}
<1>1. S \subseteq 1 .. MaxId + 1 /\ S \subseteq Nat /\ S # {} /\ nextId \in S
  BY SamplerAssumption DEF Insert, Ids
<1>2. Min(S) \in S /\ \A y \in S : Min(S) <= y
  <2> HIDE DEF S
  <2> QED BY <1>1, MinIs
<1>3. \A b \in inserts : b.first \in S
  OBVIOUS
<1>4. NewFetch(core, inserts) = [after |-> core.lastCompleted, before |-> Min(S), state |-> "sent", got |-> {}]
  BY DEF NewFetch
<1> HIDE DEF S
<1>5. Min(S) \in 1 .. MaxId + 1 /\ core.lastCompleted \in 0 .. MaxId
  BY <1>1, <1>2 DEF Core
<1>6. NewFetch(core, inserts) \in Fetch
  BY <1>4, <1>5 DEF Fetch
<1>7. NewFetch(core, inserts).before = Min(S)
  BY <1>4
<1> QED BY <1>1, <1>2, <1>3, <1>6, <1>7

\* The fetch under way at the end of the drain has its type.
LEMMA RefetchedTyped ==
  ASSUME nextId \in 1 .. MaxId + 1, NEW m \in Memory, Counted(m)
  PROVE  Refetched(m) \in Fetch \cup {None}
<1>1. Unanswered(m) \subseteq Insert /\ m.core \in Core
  BY UnansweredTyped DEF Memory
<1>2. NewFetch(m.core, Unanswered(m)) \in Fetch
  BY <1>1, NewFetchTyped
<1> QED BY <1>2 DEF Refetched, Memory

\* A cleanup that is started deletes up to the completion cursor.
LEMMA CleanupChoicesTyped ==
  ASSUME NEW cleanup \in Cleanups \cup {None}, NEW core \in Core, NEW c \in CleanupChoices(cleanup, core)
  PROVE  /\ c \in Cleanups \cup {None}
         /\ c = cleanup \/ (c.upTo = core.lastCompleted /\ c # None)
BY DEF CleanupChoices, Core, Cleanups, Background, Ids

\* queue_counts().open() is a number.
LEMMA OpenBatchesTyped ==
  ASSUME NEW m \in Memory, Counted(m)
  PROVE  OpenBatches(m) \in Nat
<1> DEFINE P == {i \in Ids : rows[i].status = "pending"
                            \/ (rows[i].status = "completed" /\ i > m.core.lastCompleted)}
           U == UNION {IdsOf(b) : b \in Unanswered(m)}
<1>1. IsFiniteSet(Ids)
  BY FS_Interval, SamplerAssumption DEF Ids
<1>2. U \subseteq Ids
  <2>1. \A b \in Unanswered(m) : b.first \in Ids /\ b.n \in 1 .. MaxBundle /\ Fits(b)
    BY DEF Unanswered, Memory, Insert, Counted
  <2>2. \A b \in Unanswered(m) : IdsOf(b) \subseteq Ids
    BY <2>1, IdsOfFits
  <2> QED BY <2>2
<1>3. P \subseteq Ids
  OBVIOUS
<1> HIDE DEF P, U
<1>4. Cardinality(P) \in Nat /\ Cardinality(U) \in Nat
  BY <1>1, <1>2, <1>3, FS_Subset, FS_CardinalityType
<1>5. OpenBatches(m) = Cardinality(P) + m.local + Cardinality(U)
  BY DEF OpenBatches, P, U
<1>6. m.local \in Nat
  BY DEF Memory
<1> QED BY <1>4, <1>5, <1>6

-----------------------------------------------------------------------------
(* Every action keeps the types.                                           *)

\* The assignments and leases of a node keep the types.
LEMMA ControlPlaneTyped ==
  ASSUME TypeInv, NEW s \in Samplers, ControlPlane(s)
  PROVE  TypeInv'
<1> USE SamplerAssumption DEF TypeInv, MemOK, RowsOK, CkptTypeOK, LateOK, FailuresOK, RestOK, Counted, Fault
<1>1. CASE Assign(s)
  BY <1>1 DEF Assign
<1>2. CASE Unassign(s)
  BY <1>2 DEF Unassign
<1>3. CASE LeaseLapses(s)
  BY <1>3 DEF LeaseLapses
<1>4. CASE ForgetFailures(s)
  BY <1>4 DEF ForgetFailures
<1> QED BY <1>1, <1>2, <1>3, <1>4 DEF ControlPlane

\* build_sampler_runner and start keep the types.
LEMMA ActivationTyped ==
  ASSUME TypeInv, NEW s \in Samplers, Activation(s)
  PROVE  TypeInv'
<1> DEFINE m == mem[s]
<1>0. /\ m \in Memory /\ Counted(m) /\ MemOK /\ mem \in [Samplers -> Memory]
      /\ RowsOK /\ CkptTypeOK /\ LateOK /\ FailuresOK /\ RestOK
  BY DEF TypeInv, MemOK
<1>a. Fresh \in Core /\ Fresh.produced + Fresh.buffered <= MaxDraws
  BY SamplerAssumption DEF Fresh, Core
<1>b. ASSUME mem' = [mem EXCEPT ![s] = Off]
      PROVE  MemOK' /\ mem'[s].phase = "off" /\ \A o \in Samplers : o # s => mem'[o] = mem[o]
  BY <1>0, <1>b, OffTyped, MemChanges DEF Off
<1>c. ASSUME CountStartFailure(s), m.phase = "loading", UNCHANGED <<batches, holder, nextId>>, faults' \in 0 .. MaxFaults
      PROVE  MemOK' /\ FailuresOK' /\ RestOK'
  BY <1>0, <1>b, <1>c, SamplerAssumption DEF CountStartFailure, FailuresOK, RestOK
<1>1. CASE LoadCheckpoint(s)
  <2>1. mem' = [mem EXCEPT ![s] = [m EXCEPT !.phase = "loading", !.loaded = ckpt]]
    BY <1>1 DEF LoadCheckpoint
  <2>2. [m EXCEPT !.phase = "loading", !.loaded = ckpt] \in Memory
    BY <1>0 DEF Memory, Phases, CkptTypeOK
  <2>3. Counted([m EXCEPT !.phase = "loading", !.loaded = ckpt])
    BY <1>0, <1>1 DEF LoadCheckpoint, Memory, Counted
  <2>4. MemOK'
    BY <1>0, <2>1, <2>2, <2>3, MemChanges
  <2>5. RowsOK' /\ CkptTypeOK' /\ LateOK' /\ RestOK' /\ FailuresOK'
    BY <1>0, <1>1 DEF LoadCheckpoint, RowsOK, CkptTypeOK, LateOK, RestOK, FailuresOK
  <2> QED BY <2>4, <2>5 DEF TypeInv
<1>2. CASE SaveInitial(s)
  <2>1. mem' = [mem EXCEPT ![s] = [m EXCEPT !.phase = "built"]]
    BY <1>2 DEF SaveInitial
  <2>2. [m EXCEPT !.phase = "built"] \in Memory /\ Counted([m EXCEPT !.phase = "built"])
    BY <1>0, <1>2 DEF SaveInitial, Memory, Phases, Counted
  <2>3. MemOK'
    BY <1>0, <2>1, <2>2, MemChanges
  <2>4. CkptTypeOK'
    BY <1>0, <1>2, <1>a DEF SaveInitial, CkptTypeOK, Ckpt, RestOK
  <2>5. RowsOK' /\ LateOK' /\ RestOK' /\ FailuresOK'
    BY <1>0, <1>2 DEF SaveInitial, RowsOK, LateOK, RestOK, FailuresOK
  <2> QED BY <2>3, <2>4, <2>5 DEF TypeInv
<1>3. CASE SaveInitialError(s)
  <2>1. CkptTypeOK'
    BY <1>0, <1>3, <1>a DEF SaveInitialError, CkptTypeOK, Ckpt, RestOK
  <2>2. RowsOK' /\ LateOK'
    BY <1>0, <1>3 DEF SaveInitialError, RowsOK, LateOK
  <2>3. faults' \in 0 .. MaxFaults
    BY <1>0, <1>3, SamplerAssumption DEF SaveInitialError, Fault, RestOK
  <2>4. MemOK' /\ FailuresOK' /\ RestOK'
    BY <1>3, <1>c, <2>3 DEF SaveInitialError
  <2> QED BY <2>1, <2>2, <2>4 DEF TypeInv
<1>4. CASE RestoreCheckpoint(s)
  <2>1. ckpt \in Ckpt /\ ckpt.core \in Core /\ ckpt.batches \in Nat /\ ckpt.core.produced + ckpt.core.buffered <= MaxDraws
    BY <1>0, <1>4 DEF RestoreCheckpoint, CkptTypeOK, Ckpt
  <2>2. mem' = [mem EXCEPT ![s] = [m EXCEPT !.phase = "built", !.core = ckpt.core]]
    BY <1>4 DEF RestoreCheckpoint, Restore
  <2>3. [m EXCEPT !.phase = "built", !.core = ckpt.core] \in Memory
    BY <1>0, <2>1 DEF Memory, Phases
  <2>4. Counted([m EXCEPT !.phase = "built", !.core = ckpt.core])
    <3>1. m.local = 0 /\ m.leaving = "stop"
      BY <1>0, <1>4 DEF RestoreCheckpoint, Counted
    <3>2. 0 <= ckpt.core.produced
      BY <2>1 DEF Core
    <3> QED BY <1>0, <2>1, <3>1, <3>2 DEF Memory, Counted
  <2>5. MemOK'
    BY <1>0, <2>2, <2>3, <2>4, MemChanges
  <2>6. RowsOK'
    BY <1>0, <1>4, SamplerAssumption DEF RestoreCheckpoint, Restore, RowsOK, Absent
  <2>7. CkptTypeOK' /\ LateOK' /\ RestOK' /\ FailuresOK'
    BY <1>0, <1>4, <2>1 DEF RestoreCheckpoint, Restore, CkptTypeOK, LateOK, RestOK, FailuresOK
  <2> QED BY <2>5, <2>6, <2>7 DEF TypeInv
<1>5. CASE RestoreConflict(s)
  BY <1>0, <1>5, <1>b DEF RestoreConflict, TypeInv, RowsOK, CkptTypeOK, LateOK, RestOK, FailuresOK
<1>6. CASE RestoreRefused(s)
  <2>1. MemOK' /\ FailuresOK' /\ RestOK'
    BY <1>0, <1>6, <1>c DEF RestoreRefused, RestOK
  <2> QED BY <1>0, <1>6, <2>1 DEF RestoreRefused, TypeInv, RowsOK, CkptTypeOK, LateOK
<1>7. CASE BuildError(s)
  BY <1>0, <1>7, <1>b, SamplerAssumption DEF BuildError, Fault, TypeInv, RowsOK, CkptTypeOK, LateOK, RestOK, FailuresOK
<1>8. CASE Start(s)
  <2>1. CASE mem' = [mem EXCEPT ![s] = Off] /\ holder' = holder
    <3>1. MemOK' /\ FailuresOK'
      BY <1>0, <1>8, <1>b, <2>1, SamplerAssumption DEF Start, FailuresOK
    <3> QED BY <1>0, <1>8, <2>1, <3>1 DEF Start, TypeInv, RowsOK, CkptTypeOK, LateOK, RestOK
  <2>2. CASE mem' = [mem EXCEPT ![s].phase = "running"] /\ holder' = s
    <3>1. mem' = [mem EXCEPT ![s] = [m EXCEPT !.phase = "running"]]
      BY <2>2
    <3>2. [m EXCEPT !.phase = "running"] \in Memory /\ Counted([m EXCEPT !.phase = "running"])
      BY <1>0 DEF Memory, Phases, Counted
    <3>3. MemOK'
      BY <1>0, <3>1, <3>2, MemChanges
    <3>4. FailuresOK'
      BY <1>0, <1>8, <3>1, SamplerAssumption DEF Start, Counted, FailuresOK
    <3>5. RowsOK' /\ CkptTypeOK' /\ LateOK' /\ RestOK'
      BY <1>0, <1>8, <2>2 DEF Start, RowsOK, CkptTypeOK, LateOK, RestOK
    <3> QED BY <3>3, <3>4, <3>5 DEF TypeInv
  <2> QED BY <1>8, <2>1, <2>2 DEF Start
<1> QED BY <1>1, <1>2, <1>3, <1>4, <1>5, <1>6, <1>7, <1>8 DEF Activation

\* The counts of a process after it merged G and produced.
LEMMA TickTyped ==
  ASSUME NEW m \in Memory, Counted(m), NEW G, G \subseteq Completed,
         NEW next \in Produced(Merged(m.core, G)), NEW c \in CleanupChoices(m.cleanup, Merged(m.core, G)),
         NEW local, local = m.local + (next.produced - Merged(m.core, G).produced)
  PROVE  /\ next \in Core /\ next.produced + next.buffered <= MaxDraws
         /\ local \in Nat /\ local <= next.produced
         /\ c \in Cleanups \cup {None}
<1> DEFINE core == Merged(m.core, G)
<1>1. m.core \in Core /\ m.local \in Nat /\ m.cleanup \in Cleanups \cup {None}
  BY DEF Memory
<1>2. core \in Core /\ core.produced = m.core.produced /\ core.buffered = m.core.buffered
  BY <1>1, MergedTyped
<1>3. core.produced + core.buffered <= MaxDraws /\ m.local <= core.produced /\ core.produced \in Nat
  BY <1>2 DEF Counted, Core
<1>4. c \in Cleanups \cup {None}
  BY <1>1, <1>2, CleanupChoicesTyped
<1> HIDE DEF core
<1>5. next \in Core /\ core.produced <= next.produced /\ next.produced + next.buffered <= MaxDraws
  BY <1>2, <1>3, ProducedTyped DEF core
<1>6. next.produced \in Nat
  BY <1>5 DEF Core
<1> QED BY <1>1, <1>3, <1>4, <1>5, <1>6 DEF core

\* Every outcome of the tick keeps the types.
LEMMA TickKeepsTypes ==
  ASSUME TypeInv, NEW s \in Samplers, Tick(s)
  PROVE  TypeInv'
<1> DEFINE m == mem[s]
<1>0. /\ m \in Memory /\ Counted(m) /\ MemOK /\ mem \in [Samplers -> Memory]
      /\ RowsOK /\ CkptTypeOK /\ LateOK /\ FailuresOK /\ RestOK
  BY DEF TypeInv, MemOK
<1>1. CASE SpawnInsert(s)
  <2>1. PICK n \in 1 .. Min({m.local, MaxBundle}) :
          /\ nextId + n <= MaxId + 1
          /\ mem' = [mem EXCEPT ![s] =
               [m EXCEPT !.local = @ - n,
                         !.core.lastProduced = nextId + n - 1,
                         !.inserts = @ \cup {[first |-> nextId, draw |-> m.core.produced - m.local + 1,
                                              n |-> n, state |-> "sent"]}]]
          /\ nextId' = nextId + n
    BY <1>1 DEF SpawnInsert
  <2> DEFINE b == [first |-> nextId, draw |-> m.core.produced - m.local + 1, n |-> n, state |-> "sent"]
             left == m.local - n   last == nextId + n - 1   J == m.inserts \cup {b}
             core == [m.core EXCEPT !.lastProduced = last]
             w == [m EXCEPT !.local = left, !.core = core, !.inserts = J]
  <2>2. /\ m.local \in Nat /\ m.core \in Core /\ m.core.produced \in Nat /\ m.core.buffered \in Nat
        /\ m.local <= m.core.produced /\ m.core.produced + m.core.buffered <= MaxDraws
        /\ nextId \in 1 .. MaxId + 1 /\ MaxDraws \in Nat /\ MaxId \in Nat /\ MaxBundle \in Nat
    BY <1>0, SamplerAssumption DEF Memory, Core, Counted, RestOK
  <2>3. n \in Nat /\ 1 <= n /\ n <= m.local /\ n <= MaxBundle
    <3>1. /\ Min({m.local, MaxBundle}) <= m.local /\ Min({m.local, MaxBundle}) <= MaxBundle
          /\ Min({m.local, MaxBundle}) \in Int
      <4>1. m.local \in Int /\ MaxBundle \in Int
        BY <2>2
      <4> HIDE DEF m
      <4> QED BY <4>1, MinOfPair
    <3> QED BY <2>2, <3>1
  <2>4. b \in Insert /\ Fits(b)
    BY <2>1, <2>2, <2>3 DEF Insert, Ids, Draws, Fits
  <2>5. left \in Nat /\ left <= m.core.produced /\ last \in 0 .. MaxId /\ nextId' \in 1 .. MaxId + 1
    BY <2>1, <2>2, <2>3
  <2>6. IsFiniteSet(J) /\ Cardinality(J) <= MaxInserts
    <3>1. IsFiniteSet(m.inserts) /\ Cardinality(m.inserts) \in Nat /\ Cardinality(m.inserts) < MaxInserts
      BY <1>0, <1>1, FS_CardinalityType, SamplerAssumption DEF SpawnInsert, Pumped, Counted
    <3> HIDE DEF b
    <3>2. IsFiniteSet(J) /\ (Cardinality(J) = Cardinality(m.inserts) \/ Cardinality(J) = Cardinality(m.inserts) + 1)
      BY <3>1, FS_AddElement
    <3> QED BY <3>1, <3>2, SamplerAssumption
  <2>7. mem' = [mem EXCEPT ![s] = w]
    BY <2>1, <2>2 DEF Core
  <2>8. J \subseteq Insert /\ \A x \in J : Fits(x)
    BY <1>0, <2>4 DEF Memory, Counted
  <2> HIDE DEF b, J, left, last
  <2>9. core \in Core /\ core.produced = m.core.produced /\ core.buffered = m.core.buffered
    BY <2>2, <2>5 DEF Core
  <2> HIDE DEF core
  <2>10. w \in Memory
    BY <1>0, <2>5, <2>8, <2>9 DEF Memory
  <2>11. Counted(w)
    BY <1>0, <1>1, <2>2, <2>5, <2>6, <2>8, <2>9 DEF SpawnInsert, Memory, Counted
  <2>12. w.phase = m.phase /\ w.leaving = m.leaving
    BY <1>0 DEF Memory
  <2>13. MemOK'
    BY <1>0, <2>7, <2>10, <2>11, MemChanges
  <2> HIDE DEF w
  <2>14. RowsOK' /\ CkptTypeOK' /\ LateOK' /\ RestOK' /\ FailuresOK'
    BY <1>0, <1>1, <2>5, <2>7, <2>12 DEF SpawnInsert, RowsOK, CkptTypeOK, LateOK, RestOK, FailuresOK
  <2> QED BY <2>13, <2>14 DEF TypeInv
<1>a. /\ Unanswered(m) \subseteq Insert /\ \A b \in Unanswered(m) : Fits(b)
      /\ IsFiniteSet(Unanswered(m)) /\ Cardinality(Unanswered(m)) <= MaxInserts
  BY <1>0, UnansweredTyped DEF Memory, Counted
<1>b. Refetched(m) \in Fetch \cup {None}
  BY <1>0, RefetchedTyped DEF RestOK
<1>c. Fault => faults' \in 0 .. MaxFaults
  BY <1>0, SamplerAssumption DEF Fault, RestOK
<1>2. CASE QueueTick(s)
  <2>1. PICK c \in CleanupChoices(IF m.cleanup # None /\ m.cleanup.state = "ok" THEN None ELSE m.cleanup, m.core) :
          mem' = [mem EXCEPT ![s] =
            [m EXCEPT !.inserts = Unanswered(m), !.fetch = Refetched(m), !.ready = {}, !.cleanup = c,
                      !.tick = [batches |-> NowReady(m), open |-> OpenBatches(m)]]]
    BY <1>2 DEF QueueTick
  <2> DEFINE t == [batches |-> NowReady(m), open |-> OpenBatches(m)]
             w == [m EXCEPT !.inserts = Unanswered(m), !.fetch = Refetched(m), !.ready = {}, !.cleanup = c, !.tick = t]
  <2>2. c \in Cleanups \cup {None}
    BY <1>0, CleanupChoicesTyped DEF Memory
  <2>3. t \in TickType
    BY <1>0, NowReadyTyped, OpenBatchesTyped DEF TickType
  <2> HIDE DEF t
  <2>4. w \in Memory
    BY <1>0, <1>a, <1>b, <2>2, <2>3 DEF Memory
  <2>5. Counted(w)
    BY <1>0, <1>2, <1>a DEF QueueTick, Ticking, Memory, Counted
  <2>6. w.phase = m.phase /\ w.leaving = m.leaving /\ mem' = [mem EXCEPT ![s] = w]
    BY <1>0, <2>1 DEF Memory, t
  <2>7. MemOK'
    BY <1>0, <2>4, <2>5, <2>6, MemChanges
  <2> HIDE DEF w
  <2>8. RowsOK' /\ CkptTypeOK' /\ LateOK' /\ RestOK' /\ FailuresOK'
    BY <1>0, <1>2, <2>6 DEF QueueTick, RowsOK, CkptTypeOK, LateOK, RestOK, FailuresOK
  <2> QED BY <2>7, <2>8 DEF TypeInv
<1>3. CASE NotifyError(s)
  <2> DEFINE w == [m EXCEPT !.inserts = {}]
  <2>1. w \in Memory /\ w.phase = m.phase /\ w.leaving = m.leaving /\ mem' = [mem EXCEPT ![s] = w]
    BY <1>0, <1>3 DEF NotifyError, Memory
  <2>2. Counted(w)
    BY <1>0, <1>3, FS_EmptySet, SamplerAssumption DEF NotifyError, Ticking, Memory, Counted
  <2>3. MemOK'
    BY <1>0, <2>1, <2>2, MemChanges
  <2> HIDE DEF w
  <2>4. RowsOK' /\ CkptTypeOK' /\ LateOK' /\ RestOK' /\ FailuresOK'
    BY <1>0, <1>3, <1>c, <2>1 DEF NotifyError, RowsOK, CkptTypeOK, LateOK, RestOK, FailuresOK
  <2> QED BY <2>3, <2>4 DEF TypeInv
<1>4. CASE FetchErrorTick(s)
  <2> DEFINE w == [m EXCEPT !.inserts = Unanswered(m), !.fetch = None]
  <2>1. w \in Memory /\ w.phase = m.phase /\ w.leaving = m.leaving /\ mem' = [mem EXCEPT ![s] = w]
    BY <1>0, <1>4, <1>a DEF FetchErrorTick, Memory
  <2>2. Counted(w)
    BY <1>0, <1>4, <1>a DEF FetchErrorTick, Ticking, Memory, Counted
  <2>3. MemOK'
    BY <1>0, <2>1, <2>2, MemChanges
  <2> HIDE DEF w
  <2>4. RowsOK' /\ CkptTypeOK' /\ LateOK' /\ RestOK' /\ FailuresOK'
    BY <1>0, <1>4, <2>1 DEF FetchErrorTick, RowsOK, CkptTypeOK, LateOK, RestOK, FailuresOK
  <2> QED BY <2>3, <2>4 DEF TypeInv
<1>5. CASE QueueTickError(s)
  <2> DEFINE c == IF m.cleanup # None /\ m.cleanup.state = "sent" THEN m.cleanup ELSE None
             w == [m EXCEPT !.inserts = Unanswered(m), !.fetch = Refetched(m), !.ready = {}, !.cleanup = c]
  <2>1. c \in Cleanups \cup {None}
    BY <1>0 DEF Memory
  <2>2. mem' = [mem EXCEPT ![s] = w]
    BY <1>5 DEF QueueTickError
  <2> HIDE DEF c
  <2>3. w \in Memory /\ w.phase = m.phase /\ w.leaving = m.leaving
    BY <1>0, <1>a, <1>b, <2>1 DEF Memory
  <2>4. Counted(w)
    BY <1>0, <1>5, <1>a DEF QueueTickError, Ticking, Memory, Counted
  <2>5. MemOK'
    BY <1>0, <2>2, <2>3, <2>4, MemChanges
  <2> HIDE DEF w
  <2>6. RowsOK' /\ CkptTypeOK' /\ LateOK' /\ RestOK' /\ FailuresOK'
    BY <1>0, <1>5, <1>c, <2>2, <2>3 DEF QueueTickError, RowsOK, CkptTypeOK, LateOK, RestOK, FailuresOK
  <2> QED BY <2>5, <2>6 DEF TypeInv
<1>6. CASE FinishTick(s)
  <2> DEFINE group == m.tick.batches
             core == Merged(m.core, group)
             answered == m.flush # None /\ m.flush.state = "ok"
             unflushed == m.unflushed + Cardinality(group) - (IF answered THEN m.flush.n ELSE 0)
  <2>1. PICK next \in Produced(core), c \in CleanupChoices(m.cleanup, core),
             f \in FlushChoices(m.flush, unflushed), done \in BOOLEAN :
          LET k == next.produced - core.produced
              ended == StopReached(core) /\ m.tick.open - Cardinality(group) + k <= 0 /\ next.buffered = 0
          IN
          /\ nextId + m.local + k <= MaxId + 1
          /\ \/ done = ended /\ UNCHANGED faults
             \/ ended /\ ~done /\ Fault
          /\ mem' = [mem EXCEPT ![s] =
               [m EXCEPT !.tick = None, !.core = next, !.local = @ + k, !.cleanup = c,
                         !.flush = f, !.unflushed = unflushed,
                         !.phase = IF done THEN "stopping" ELSE "running",
                         !.leaving = IF done THEN "complete" ELSE "stop"]]
    BY <1>6 DEF FinishTick
  <2> DEFINE local == m.local + (next.produced - core.produced)
             phase == IF done THEN "stopping" ELSE "running"
             leaving == IF done THEN "complete" ELSE "stop"
             w == [m EXCEPT !.tick = None, !.core = next, !.local = local, !.cleanup = c, !.flush = f,
                            !.unflushed = unflushed, !.phase = phase, !.leaving = leaving]
  <2>2. mem' = [mem EXCEPT ![s] = w]
    BY <2>1
  <2>3. m.phase = "running" /\ m.tick \in TickType /\ group \subseteq Completed
    BY <1>0, <1>6 DEF FinishTick, Memory, TickType
  <2>4. /\ next \in Core /\ next.produced + next.buffered <= MaxDraws
        /\ local \in Nat /\ local <= next.produced /\ c \in Cleanups \cup {None}
    BY <1>0, <2>3, TickTyped
  <2>5. unflushed \in Nat /\ f \in Flushes \cup {None} /\ (f # None => f.n <= unflushed)
    <3> DEFINE k == Cardinality(group)
    <3>1. k \in Nat /\ m.unflushed \in Nat /\ m.flush \in Flushes \cup {None}
          /\ (m.flush # None => m.flush.n \in Nat /\ m.flush.n <= m.unflushed)
      BY <1>0, <2>3, CompletedFinite DEF Memory, Counted, Flushes
    <3> HIDE DEF k
    <3>2. unflushed \in Nat
      BY <3>1 DEF k
    <3>3. CASE f = m.flush /\ ~answered
      <4>1. m.flush # None => m.flush.n <= unflushed
        BY <3>1, <3>3 DEF k
      <4> QED BY <3>1, <3>2, <3>3, <4>1
    <3> DEFINE u == unflushed
    <3> HIDE DEF u
    <3>4. CASE f = None \/ f = [n |-> u, state |-> "sent"]
      BY <3>2, <3>4 DEF u, Flushes, Background
    <3> QED BY <3>1, <3>2, <3>3, <3>4 DEF FlushChoices, u
  <2>6. phase \in Phases /\ phase \in {"stopping", "running"} /\ leaving \in {"stop", "complete"}
    BY DEF Phases
  <2> HIDE DEF core, local, unflushed, phase, leaving
  <2>7. w \in Memory /\ w.phase = phase /\ w.leaving = leaving
    BY <1>0, <2>4, <2>5, <2>6 DEF Memory
  <2>8. Counted(w)
    BY <1>0, <2>4, <2>5, <2>6 DEF Memory, Counted
  <2>9. MemOK'
    BY <1>0, <2>2, <2>7, <2>8, MemChanges
  <2> HIDE DEF w
  <2>10. FailuresOK'
    BY <1>0, <1>6, <2>2, <2>3, <2>6, <2>7 DEF FinishTick, FailuresOK
  <2>11. RowsOK' /\ CkptTypeOK' /\ LateOK' /\ RestOK'
    BY <1>0, <1>6, <1>c, <2>1 DEF FinishTick, RowsOK, CkptTypeOK, LateOK, RestOK
  <2> QED BY <2>9, <2>10, <2>11 DEF TypeInv
<1>7. CASE ProduceError(s)
  <2> DEFINE group == m.tick.batches
             core == Merged(m.core, group)
  <2>1. PICK c \in CleanupChoices(m.cleanup, core) :
          mem' = [mem EXCEPT ![s] = [m EXCEPT !.tick = None, !.core = core, !.cleanup = c,
                                              !.unflushed = @ + Cardinality(group)]]
    BY <1>7 DEF ProduceError
  <2> DEFINE unflushed == m.unflushed + Cardinality(group)
             w == [m EXCEPT !.tick = None, !.core = core, !.cleanup = c, !.unflushed = unflushed]
  <2>2. mem' = [mem EXCEPT ![s] = w]
    BY <2>1
  <2>3. m.phase = "running" /\ m.tick \in TickType /\ group \subseteq Completed /\ m.core \in Core
    BY <1>0, <1>7 DEF ProduceError, Memory, TickType
  <2>4. core \in Core /\ core.produced = m.core.produced /\ core.buffered = m.core.buffered
    BY <2>3, MergedTyped
  <2>5. c \in Cleanups \cup {None}
    BY <1>0, <2>4, CleanupChoicesTyped DEF Memory
  <2>6. unflushed \in Nat /\ m.unflushed \in Nat /\ m.unflushed <= unflushed
    BY <1>0, <2>3, CompletedFinite DEF Memory
  <2> HIDE DEF core, unflushed
  <2>7. w \in Memory /\ w.phase = m.phase /\ w.leaving = m.leaving
    BY <1>0, <2>4, <2>5, <2>6 DEF Memory
  <2>8. Counted(w)
    <3>1. m.flush # None => m.flush.n \in Nat /\ m.flush.n <= unflushed
      BY <1>0, <2>6 DEF Memory, Counted, Flushes
    <3> QED BY <1>0, <2>3, <2>4, <3>1 DEF Memory, Counted
  <2>9. MemOK'
    BY <1>0, <2>2, <2>7, <2>8, MemChanges
  <2> HIDE DEF w
  <2>10. RowsOK' /\ CkptTypeOK' /\ LateOK' /\ RestOK' /\ FailuresOK'
    BY <1>0, <1>7, <1>c, <2>2, <2>7 DEF ProduceError, RowsOK, CkptTypeOK, LateOK, RestOK, FailuresOK
  <2> QED BY <2>9, <2>10 DEF TypeInv
<1>8. CASE FlushErrorTick(s)
  <2> DEFINE group == m.tick.batches
             core == Merged(m.core, group)
  <2>1. PICK next \in Produced(core), c \in CleanupChoices(m.cleanup, core) :
          mem' = [mem EXCEPT ![s] =
            [m EXCEPT !.tick = None, !.core = next, !.local = @ + (next.produced - core.produced),
                      !.cleanup = c, !.flush = None, !.unflushed = @ + Cardinality(group)]]
    BY <1>8 DEF FlushErrorTick
  <2> DEFINE local == m.local + (next.produced - core.produced)
             unflushed == m.unflushed + Cardinality(group)
             w == [m EXCEPT !.tick = None, !.core = next, !.local = local, !.cleanup = c, !.flush = None,
                            !.unflushed = unflushed]
  <2>2. mem' = [mem EXCEPT ![s] = w]
    BY <2>1
  <2>3. m.phase = "running" /\ m.tick \in TickType /\ group \subseteq Completed
    BY <1>0, <1>8 DEF FlushErrorTick, Memory, TickType
  <2>4. /\ next \in Core /\ next.produced + next.buffered <= MaxDraws
        /\ local \in Nat /\ local <= next.produced /\ c \in Cleanups \cup {None}
    BY <1>0, <2>3, TickTyped
  <2>5. unflushed \in Nat
    BY <1>0, <2>3, CompletedFinite DEF Memory
  <2> HIDE DEF core, local, unflushed
  <2>6. w \in Memory /\ w.phase = m.phase /\ w.leaving = m.leaving
    BY <1>0, <2>4, <2>5 DEF Memory
  <2>7. Counted(w)
    BY <1>0, <2>3, <2>4, <2>5 DEF Memory, Counted
  <2>8. MemOK'
    BY <1>0, <2>2, <2>6, <2>7, MemChanges
  <2> HIDE DEF w
  <2>9. RowsOK' /\ CkptTypeOK' /\ LateOK' /\ RestOK' /\ FailuresOK'
    BY <1>0, <1>8, <2>2, <2>6 DEF FlushErrorTick, RowsOK, CkptTypeOK, LateOK, RestOK, FailuresOK
  <2> QED BY <2>8, <2>9 DEF TypeInv
<1>9. CASE FailNoProgress(s)
  <2> DEFINE w == [m EXCEPT !.tick = None, !.phase = "stopping", !.leaving = "fail"]
  <2>1. w \in Memory /\ w.phase = "stopping" /\ w.leaving = "fail" /\ mem' = [mem EXCEPT ![s] = w]
    BY <1>0, <1>9 DEF FailNoProgress, Memory, Phases
  <2>2. Counted(w)
    BY <1>0 DEF Memory, Counted
  <2>3. MemOK'
    BY <1>0, <2>1, <2>2, MemChanges
  <2> HIDE DEF w
  <2>4. FailuresOK'
    BY <1>0, <1>9, <2>1, SamplerAssumption DEF FailNoProgress, FailuresOK
  <2>5. RowsOK' /\ CkptTypeOK' /\ LateOK' /\ RestOK'
    BY <1>0, <1>9 DEF FailNoProgress, RowsOK, CkptTypeOK, LateOK, RestOK
  <2> QED BY <2>3, <2>4, <2>5 DEF TypeInv
<1> QED BY <1>1, <1>2, <1>3, <1>4, <1>5, <1>6, <1>7, <1>8, <1>9 DEF Tick

\* A runner is dropped: its process is off, its statements are late.
LEMMA DropTyped ==
  ASSUME TypeInv, NEW s \in Samplers, NEW w \in Memory, Counted(w),
         mem' = [mem EXCEPT ![s] = Off], late' = late \cup UnderWay(w),
         failures' \in [Samplers -> 0 .. MaxStarts], \A o \in Samplers : o # s => failures'[o] = failures[o]
  PROVE  MemOK' /\ LateOK' /\ FailuresOK'
<1>1. MemOK'
  BY OffTyped, MemChanges DEF TypeInv
<1>2. LateOK'
  BY UnderWayTyped DEF TypeInv, LateOK
<1>3. mem'[s].phase = "off" /\ \A o \in Samplers : o # s => mem'[o] = mem[o]
  BY DEF TypeInv, MemOK, Off
<1>4. FailuresOK'
  BY <1>3 DEF TypeInv, FailuresOK
<1> QED BY <1>1, <1>2, <1>4

\* An error of the stop keeps the types, whichever way the runner goes on.
LEMMA GiveUpTyped ==
  ASSUME TypeInv, NEW s \in Samplers, NEW w \in Memory, Counted(w),
         w.phase \notin {"off", "loading", "built"}, w.phase = mem[s].phase, w.leaving = mem[s].leaving,
         GiveUp(s, w), UNCHANGED failures
  PROVE  /\ MemOK' /\ LateOK' /\ FailuresOK'
         /\ holder' \in Samplers \cup {None} /\ desired' \in Samplers \cup {None}
<1>1. CASE w.leaving = "complete"
  <2> DEFINE v == [w EXCEPT !.phase = "running", !.leaving = "stop"]
  <2>1. mem' = [mem EXCEPT ![s] = v] /\ UNCHANGED <<holder, desired, late>>
    BY <1>1 DEF GiveUp
  <2>2. v \in Memory /\ Counted(v) /\ v.phase = "running" /\ v.leaving = "stop"
    BY DEF Memory, Counted, Phases
  <2>3. MemOK'
    BY <2>1, <2>2, MemChanges DEF TypeInv
  <2> HIDE DEF v
  <2>4. \A o \in Samplers : mem'[o] = IF o = s THEN v ELSE mem[o]
    BY <2>1 DEF TypeInv, MemOK
  <2>5. FailuresOK'
    BY <1>1, <2>2, <2>4 DEF TypeInv, FailuresOK
  <2> QED BY <2>1, <2>3, <2>5 DEF TypeInv, LateOK, RestOK
<1>2. CASE w.leaving # "complete"
  <2>1. mem' = [mem EXCEPT ![s] = Off] /\ late' = late \cup UnderWay(w) /\ Release(s)
    BY <1>2 DEF GiveUp
  <2>2. MemOK' /\ LateOK' /\ FailuresOK'
    BY <2>1, DropTyped DEF TypeInv, FailuresOK
  <2> QED BY <2>1, <2>2 DEF Release, TypeInv, RestOK
<1> QED BY <1>1, <1>2

\* Leaving the role keeps the types.
LEMMA StopTyped ==
  ASSUME TypeInv, NEW s \in Samplers, Stop(s)
  PROVE  TypeInv'
<1> DEFINE m == mem[s]
<1>0. /\ m \in Memory /\ Counted(m) /\ MemOK /\ mem \in [Samplers -> Memory]
      /\ RowsOK /\ CkptTypeOK /\ LateOK /\ FailuresOK /\ RestOK
  BY DEF TypeInv, MemOK
<1>a. /\ Unanswered(m) \subseteq Insert /\ \A b \in Unanswered(m) : Fits(b)
      /\ IsFiniteSet(Unanswered(m)) /\ Cardinality(Unanswered(m)) <= MaxInserts
  BY <1>0, UnansweredTyped DEF Memory, Counted
<1>b. Fault => faults' \in 0 .. MaxFaults
  BY <1>0, SamplerAssumption DEF Fault, RestOK
<1>c. /\ m.unflushed \in Nat /\ (m.flush # None => m.flush.n \in Nat /\ m.flush.n <= m.unflushed)
      /\ batches \in Nat
      /\ m.core \in Core /\ m.core.produced + m.core.buffered <= MaxDraws
  BY <1>0 DEF Memory, Counted, Flushes, RestOK
<1>d. m.unflushed - (IF m.flush = None THEN 0 ELSE m.flush.n) \in Nat
  BY <1>c
<1>e. ASSUME NEW w, w \in Memory, Counted(w), w.phase = m.phase \/ m.phase \notin {"off", "loading", "built"},
             w.phase \notin {"off", "loading", "built", "running"}, w.leaving = m.leaving,
             mem' = [mem EXCEPT ![s] = w], UNCHANGED failures
      PROVE  MemOK' /\ FailuresOK'
  <2>1. MemOK'
    BY <1>0, <1>e, MemChanges
  <2>2. \A o \in Samplers : mem'[o] = IF o = s THEN w ELSE mem[o]
    BY <1>0, <1>e
  <2>3. FailuresOK'
    BY <1>0, <1>e, <2>2 DEF FailuresOK
  <2> QED BY <2>1, <2>3
<1>1. CASE BeginStop(s)
  <2> DEFINE w == [m EXCEPT !.phase = "stopping"]
  <2>1. mem' = [mem EXCEPT ![s] = w]
    BY <1>1 DEF BeginStop
  <2>2. w \in Memory /\ Counted(w) /\ w.phase = "stopping" /\ w.leaving = m.leaving
    BY <1>0 DEF Memory, Phases, Counted
  <2> HIDE DEF w
  <2>3. MemOK' /\ FailuresOK'
    BY <1>1, <1>e, <2>1, <2>2 DEF BeginStop
  <2> QED BY <1>0, <1>1, <1>b, <2>3 DEF BeginStop, TypeInv, RowsOK, CkptTypeOK, LateOK, RestOK
<1>2. CASE StopFlush(s)
  <2> DEFINE w == [m EXCEPT !.inserts = Unanswered(m)]
  <2>1. mem' = [mem EXCEPT ![s] = w]
    BY <1>2 DEF StopFlush
  <2>2. w \in Memory /\ w.phase = m.phase /\ w.leaving = m.leaving
    BY <1>0, <1>a DEF Memory
  <2>3. Counted(w)
    BY <1>0, <1>2, <1>a DEF StopFlush, Memory, Counted
  <2> HIDE DEF w
  <2>4. MemOK' /\ FailuresOK'
    BY <1>2, <1>e, <2>1, <2>2, <2>3 DEF StopFlush
  <2> QED BY <1>0, <1>2, <2>4 DEF StopFlush, TypeInv, RowsOK, CkptTypeOK, LateOK, RestOK
<1>3. CASE DrainLocal(s)
  <2> DEFINE G == NowReady(m)
             core == Merged(m.core, G)
             unflushed == m.unflushed + Cardinality(G)
  <2>1. PICK c \in CleanupChoices(m.cleanup, core) :
          mem' = [mem EXCEPT ![s] = [m EXCEPT !.core = core, !.ready = {}, !.fetch = None, !.cleanup = c,
                                              !.unflushed = @ + Cardinality(G)]]
    BY <1>3 DEF DrainLocal
  <2> DEFINE w == [m EXCEPT !.core = core, !.ready = {}, !.fetch = None, !.cleanup = c, !.unflushed = unflushed]
  <2>2. mem' = [mem EXCEPT ![s] = w]
    BY <2>1
  <2>3. G \subseteq Completed /\ Cardinality(G) \in Nat
    BY <1>0, NowReadyTyped, CompletedFinite
  <2>4. core \in Core /\ core.produced = m.core.produced /\ core.buffered = m.core.buffered
    BY <1>c, <2>3, MergedTyped
  <2>5. c \in Cleanups \cup {None}
    BY <1>0, <2>4, CleanupChoicesTyped DEF Memory
  <2>6. unflushed \in Nat /\ m.unflushed <= unflushed
    BY <1>c, <2>3
  <2> HIDE DEF G, core, unflushed
  <2>7. w \in Memory /\ w.phase = m.phase /\ w.leaving = m.leaving
    BY <1>0, <2>4, <2>5, <2>6 DEF Memory
  <2>8. Counted(w)
    <3>1. m.flush # None => m.flush.n <= unflushed
      BY <1>c, <2>6
    <3> QED BY <1>0, <1>3, <2>4, <3>1 DEF DrainLocal, Flushed, Memory, Counted
  <2> HIDE DEF w
  <2>9. MemOK' /\ FailuresOK'
    BY <1>3, <1>e, <2>2, <2>7, <2>8 DEF DrainLocal, Flushed
  <2> QED BY <1>0, <1>3, <2>9 DEF DrainLocal, TypeInv, RowsOK, CkptTypeOK, LateOK, RestOK
<1>4. CASE FinishMaintenance(s)
  <2> DEFINE w == [m EXCEPT !.phase = "publishing", !.fetch = None, !.cleanup = None]
  <2>1. mem' = [mem EXCEPT ![s] = w]
    BY <1>4 DEF FinishMaintenance
  <2>2. w \in Memory /\ Counted(w) /\ w.phase = "publishing" /\ w.leaving = m.leaving
    BY <1>0 DEF Memory, Phases, Counted
  <2> HIDE DEF w
  <2>3. MemOK' /\ FailuresOK'
    BY <1>4, <1>e, <2>1, <2>2 DEF FinishMaintenance, Flushed
  <2> QED BY <1>0, <1>4, <2>3 DEF FinishMaintenance, TypeInv, RowsOK, CkptTypeOK, LateOK, RestOK
<1>5. CASE ForceFlush(s)
  <2> DEFINE w == [m EXCEPT !.phase = "saving", !.flush = None, !.unflushed = 0]
  <2>1. mem' = [mem EXCEPT ![s] = w]
    BY <1>5 DEF ForceFlush
  <2>2. w \in Memory /\ Counted(w) /\ w.phase = "saving" /\ w.leaving = m.leaving
    BY <1>0 DEF Memory, Phases, Counted
  <2> HIDE DEF w
  <2>3. MemOK' /\ FailuresOK'
    BY <1>5, <1>e, <2>1, <2>2 DEF ForceFlush
  <2>4. batches' \in Nat
    BY <1>5, <1>c, <1>d DEF ForceFlush
  <2> QED BY <1>0, <1>5, <2>3, <2>4 DEF ForceFlush, TypeInv, RowsOK, CkptTypeOK, LateOK, RestOK
<1>6. CASE SaveCheckpoint(s)
  <2> DEFINE w == [m EXCEPT !.phase = "saved"]
  <2>1. mem' = [mem EXCEPT ![s] = w]
    BY <1>6 DEF SaveCheckpoint
  <2>2. w \in Memory /\ Counted(w) /\ w.phase = "saved" /\ w.leaving = m.leaving
    BY <1>0 DEF Memory, Phases, Counted
  <2> HIDE DEF w
  <2>3. MemOK' /\ FailuresOK'
    BY <1>6, <1>e, <2>1, <2>2 DEF SaveCheckpoint
  <2>4. CkptTypeOK'
    BY <1>6, <1>c DEF SaveCheckpoint, CkptTypeOK, Ckpt
  <2> QED BY <1>0, <1>6, <2>3, <2>4 DEF SaveCheckpoint, TypeInv, RowsOK, LateOK, RestOK
<1>f. ASSUME Drop(s), failures' \in [Samplers -> 0 .. MaxStarts], \A o \in Samplers : o # s => failures'[o] = failures[o]
      PROVE  MemOK' /\ LateOK' /\ FailuresOK'
  BY <1>0, <1>f, DropTyped DEF Drop
<1>7. CASE Retire(s)
  <2>1. MemOK' /\ LateOK' /\ FailuresOK'
    BY <1>0, <1>7, <1>f DEF Retire, FailuresOK
  <2>2. RowsOK'
    BY <1>0, <1>7, CleanupTyped DEF Retire
  <2>3. RestOK'
    BY <1>0, <1>7 DEF Retire, Release, RestOK
  <2> QED BY <1>0, <1>7, <2>1, <2>2, <2>3 DEF Retire, TypeInv, CkptTypeOK
<1>g. ASSUME NEW w, w \in Memory, Counted(w), w.phase \notin {"off", "loading", "built"},
             w.phase = m.phase, w.leaving = m.leaving, GiveUp(s, w), UNCHANGED <<failures, nextId>>,
             batches' \in Nat, task' \in {"active", "completed", "failed"}, faults' = faults \/ Fault
      PROVE  MemOK' /\ LateOK' /\ FailuresOK' /\ RestOK'
  <2>1. /\ MemOK' /\ LateOK' /\ FailuresOK'
        /\ holder' \in Samplers \cup {None} /\ desired' \in Samplers \cup {None}
    BY <1>g, GiveUpTyped
  <2> QED BY <1>0, <1>b, <1>g, <2>1 DEF RestOK
<1>8. CASE StopError(s)
  <2>1. m.phase = "stopping" /\ UNCHANGED <<rows, ckpt, batches, task, nextId, failures>>
    BY <1>8 DEF StopError
  <2>2. PICK w \in {m, [m EXCEPT !.fetch = None], [m EXCEPT !.fetch = None, !.cleanup = None]} :
          GiveUp(s, w) /\ (faults' = faults \/ Fault)
    BY <1>8 DEF StopError
  <2>3. w \in Memory /\ w.phase = m.phase /\ w.leaving = m.leaving
    BY <1>0 DEF Memory
  <2>4. Counted(w)
    BY <1>0, <2>1 DEF Memory, Counted
  <2>5. batches' \in Nat /\ task' \in {"active", "completed", "failed"}
    BY <1>0, <2>1 DEF RestOK
  <2>6. MemOK' /\ LateOK' /\ FailuresOK' /\ RestOK'
    BY <1>g, <2>1, <2>2, <2>3, <2>4, <2>5
  <2> QED BY <1>0, <2>1, <2>6 DEF TypeInv, RowsOK, CkptTypeOK
<1>9. CASE PublishError(s)
  <2> DEFINE rest == m.unflushed - (IF m.flush = None THEN 0 ELSE m.flush.n)
  <2>1. m.phase = "publishing" /\ UNCHANGED <<rows, ckpt, task, nextId, failures>>
    BY <1>9 DEF PublishError
  <2>2. PICK w \in {[m EXCEPT !.flush = None], [m EXCEPT !.flush = None, !.unflushed = rest]} :
          GiveUp(s, w) /\ (faults' = faults \/ Fault)
    BY <1>9 DEF PublishError
  <2>3. batches' \in Nat /\ task' \in {"active", "completed", "failed"}
    <3>1. batches' \in {batches, batches + rest}
      BY <1>9 DEF PublishError
    <3> QED BY <1>0, <1>c, <1>d, <2>1, <3>1 DEF RestOK
  <2>4. rest \in Nat
    BY <1>d
  <2> HIDE DEF rest
  <2>5. w \in Memory /\ w.phase = m.phase /\ w.leaving = m.leaving
    BY <1>0, <2>2, <2>4 DEF Memory
  <2>6. Counted(w)
    BY <1>0, <2>1, <2>2 DEF Memory, Counted
  <2>7. MemOK' /\ LateOK' /\ FailuresOK' /\ RestOK'
    BY <1>g, <2>1, <2>2, <2>3, <2>5, <2>6
  <2> QED BY <1>0, <2>1, <2>7 DEF TypeInv, RowsOK, CkptTypeOK
<1>10. CASE SaveError(s)
  <2>1. CkptTypeOK'
    BY <1>0, <1>10, <1>c DEF SaveError, CkptTypeOK, Ckpt
  <2>2. MemOK' /\ LateOK' /\ FailuresOK' /\ RestOK'
    BY <1>0, <1>10, <1>g DEF SaveError, RestOK
  <2> QED BY <1>0, <1>10, <2>1, <2>2 DEF SaveError, TypeInv, RowsOK
<1>11. CASE RetireError(s)
  <2>1. RowsOK'
    BY <1>0, <1>11, CleanupTyped DEF RetireError
  <2>2. MemOK' /\ LateOK' /\ FailuresOK' /\ RestOK'
    BY <1>0, <1>11, <1>g DEF RetireError, RestOK
  <2> QED BY <1>0, <1>11, <2>1, <2>2 DEF RetireError, TypeInv, CkptTypeOK
<1>12. CASE InsertFailed(s)
  <2>1. MemOK' /\ LateOK' /\ FailuresOK'
    BY <1>0, <1>12, <1>f DEF InsertFailed, FailuresOK
  <2> QED BY <1>0, <1>12, <2>1 DEF InsertFailed, Release, TypeInv, RowsOK, CkptTypeOK, RestOK
<1>13. CASE Crash(s)
  <2>1. /\ failures' \in [Samplers -> 0 .. MaxStarts]
        /\ \A o \in Samplers : o # s => failures'[o] = failures[o]
    BY <1>0, <1>13, SamplerAssumption DEF Crash, FailuresOK
  <2>2. MemOK' /\ LateOK' /\ FailuresOK'
    BY <1>13, <1>f, <2>1 DEF Crash
  <2> QED BY <1>0, <1>13, <1>b, <2>2 DEF Crash, TypeInv, RowsOK, CkptTypeOK, RestOK
<1> QED BY <1>1, <1>2, <1>3, <1>4, <1>5, <1>6, <1>7, <1>8, <1>9, <1>10, <1>11, <1>12, <1>13 DEF Stop

\* The answers of the background tasks keep the types.
LEMMA DatabaseTyped ==
  ASSUME TypeInv, NEW s \in Samplers, Database(s)
  PROVE  TypeInv'
<1> DEFINE m == mem[s]
<1>0. /\ m \in Memory /\ Counted(m) /\ MemOK /\ mem \in [Samplers -> Memory]
      /\ RowsOK /\ CkptTypeOK /\ LateOK /\ FailuresOK /\ RestOK
  BY DEF TypeInv, MemOK
<1>b. Fault => faults' \in 0 .. MaxFaults
  BY <1>0, SamplerAssumption DEF Fault, RestOK
<1>c. ASSUME NEW w \in Memory, Counted(w), w.phase = m.phase, w.leaving = m.leaving,
             mem' = [mem EXCEPT ![s] = w], UNCHANGED failures
      PROVE  MemOK' /\ FailuresOK'
  <2>1. MemOK'
    BY <1>0, <1>c, MemChanges
  <2>2. \A o \in Samplers : mem'[o] = IF o = s THEN w ELSE mem[o]
    BY <1>0, <1>c
  <2>3. FailuresOK'
    BY <1>0, <1>c, <2>2 DEF FailuresOK
  <2> QED BY <2>1, <2>3
<1>1. ASSUME NEW b \in m.inserts, CommitInsert(s, b) \/ FailInsert(s, b)
      PROVE  TypeInv'
  <2>1. /\ b.state = "sent" /\ rows' \in {rows, Inserted(b)} /\ (faults' = faults \/ Fault)
        /\ UNCHANGED <<ckpt, batches, task, holder, desired, nextId, failures, late>>
    BY <1>1 DEF CommitInsert, FailInsert
  <2>2. PICK st \in {"ok", "error"} :
          mem' = [mem EXCEPT ![s] = [m EXCEPT !.inserts = (m.inserts \ {b}) \cup {[b EXCEPT !.state = st]}]]
    BY <1>1 DEF CommitInsert, FailInsert
  <2> DEFINE w == [m EXCEPT !.inserts = (m.inserts \ {b}) \cup {[b EXCEPT !.state = st]}]
  <2>3. w \in Memory /\ Counted(w)
    BY <1>0, <2>1, AnswerTyped
  <2>4. w.phase = m.phase /\ w.leaving = m.leaving
    BY <1>0 DEF Memory
  <2> HIDE DEF w
  <2>5. MemOK' /\ FailuresOK'
    BY <1>c, <2>1, <2>2, <2>3, <2>4 DEF w
  <2>6. RowsOK'
    <3>1. b.first \in Ids /\ b.draw \in Draws /\ b.n \in 1 .. MaxBundle /\ Fits(b)
      BY <1>0, <1>1 DEF Memory, Insert, Counted
    <3> QED BY <1>0, <2>1, <3>1, InsertedTyped DEF RowsOK
  <2> QED BY <1>0, <1>b, <2>1, <2>5, <2>6 DEF TypeInv, CkptTypeOK, LateOK, RestOK
<1>2. CASE RunFetch(s)
  <2> DEFINE got == {[id |-> i, draw |-> rows[i].draw] : i \in CompletedPrefix(m.fetch)}
  <2>1. /\ m.fetch # None /\ (faults' = faults \/ Fault)
        /\ UNCHANGED <<rows, ckpt, batches, task, holder, desired, nextId, failures, late>>
    BY <1>2 DEF RunFetch
  <2>2. m.fetch \in Fetch
    BY <1>0, <2>1 DEF Memory
  <2>3. got \subseteq Completed
    <3>1. \A i \in CompletedPrefix(m.fetch) : i \in Ids /\ Present(i)
      BY DEF CompletedPrefix
    <3>2. \A i \in CompletedPrefix(m.fetch) : i \in Ids /\ rows[i].draw \in Draws
      BY <1>0, <3>1 DEF RowsOK, Present
    <3> QED BY <3>2 DEF Completed
  <2>4. PICK f \in {[m.fetch EXCEPT !.state = "done", !.got = got], [m.fetch EXCEPT !.state = "error"]} :
          mem' = [mem EXCEPT ![s] = [m EXCEPT !.fetch = f]]
    BY <1>2 DEF RunFetch
  <2> HIDE DEF got
  <2>5. f \in Fetch
    BY <2>2, <2>3, <2>4 DEF Fetch
  <2> DEFINE w == [m EXCEPT !.fetch = f]
  <2>6. w \in Memory /\ Counted(w) /\ w.phase = m.phase /\ w.leaving = m.leaving
    BY <1>0, <2>5 DEF Memory, Counted
  <2> HIDE DEF w
  <2>7. MemOK' /\ FailuresOK'
    BY <1>c, <2>1, <2>4, <2>6 DEF w
  <2> QED BY <1>0, <1>b, <2>1, <2>7 DEF TypeInv, RowsOK, CkptTypeOK, LateOK, RestOK
<1>3. CASE RunCleanup(s)
  <2>1. /\ m.cleanup # None /\ (faults' = faults \/ Fault)
        /\ UNCHANGED <<ckpt, batches, task, holder, desired, nextId, failures, late>>
    BY <1>3 DEF RunCleanup
  <2>2. PICK st \in {"ok", "error"} :
          mem' = [mem EXCEPT ![s] = [m EXCEPT !.cleanup = [m.cleanup EXCEPT !.state = st]]]
    BY <1>3 DEF RunCleanup
  <2> DEFINE w == [m EXCEPT !.cleanup = [m.cleanup EXCEPT !.state = st]]
  <2>3. m.cleanup \in Cleanups /\ [m.cleanup EXCEPT !.state = st] \in Cleanups
    BY <1>0, <2>1 DEF Memory, Cleanups, Background
  <2>4. w \in Memory /\ Counted(w) /\ w.phase = m.phase /\ w.leaving = m.leaving
    BY <1>0, <2>3 DEF Memory, Counted
  <2> HIDE DEF w
  <2>5. MemOK' /\ FailuresOK'
    BY <1>c, <2>1, <2>2, <2>4 DEF w
  <2>6. RowsOK'
    BY <1>0, <1>3, CleanupTyped DEF RunCleanup, RowsOK
  <2> QED BY <1>0, <1>b, <2>1, <2>5, <2>6 DEF TypeInv, CkptTypeOK, LateOK, RestOK
<1>4. CASE RunFlush(s)
  <2>1. /\ m.flush # None /\ (faults' = faults \/ Fault) /\ batches' \in {batches, batches + m.flush.n}
        /\ UNCHANGED <<rows, ckpt, task, holder, desired, nextId, failures, late>>
    BY <1>4 DEF RunFlush
  <2>2. PICK st \in {"ok", "error"} :
          mem' = [mem EXCEPT ![s] = [m EXCEPT !.flush = [m.flush EXCEPT !.state = st]]]
    BY <1>4 DEF RunFlush
  <2> DEFINE w == [m EXCEPT !.flush = [m.flush EXCEPT !.state = st]]
  <2>3. /\ m.flush \in Flushes /\ [m.flush EXCEPT !.state = st] \in Flushes
        /\ [m.flush EXCEPT !.state = st].n = m.flush.n /\ m.flush.n \in Nat
    BY <1>0, <2>1 DEF Memory, Flushes, Background
  <2>4. w \in Memory /\ Counted(w) /\ w.phase = m.phase /\ w.leaving = m.leaving
    BY <1>0, <2>1, <2>3 DEF Memory, Counted
  <2> HIDE DEF w
  <2>5. MemOK' /\ FailuresOK'
    BY <1>c, <2>1, <2>2, <2>4 DEF w
  <2>6. batches' \in Nat
    BY <1>0, <2>1, <2>3 DEF RestOK
  <2> QED BY <1>0, <1>b, <2>1, <2>5, <2>6 DEF TypeInv, RowsOK, CkptTypeOK, LateOK, RestOK
<1> QED BY <1>1, <1>2, <1>3, <1>4 DEF Database

\* A statement executed after its runner was dropped keeps the types.
LEMMA LateStatementTyped ==
  ASSUME TypeInv, NEW l \in late, LateStatement(l)
  PROVE  TypeInv'
<1>0. RowsOK /\ LateOK /\ RestOK
  BY DEF TypeInv
<1>1. RowsOK'
  <2>1. CASE rows' = rows
    BY <1>0, <2>1 DEF RowsOK
  <2>2. CASE l.kind = "insert" /\ rows' = Inserted(l)
    <3>1. l \in LateInsert /\ Fits(l)
      BY <1>0, <2>2 DEF LateOK, LateFlush, LateCleanup
    <3> QED BY <1>0, <2>2, <3>1, InsertedTyped DEF RowsOK, LateInsert
  <2>3. CASE Cleanup(l.upTo)
    BY <1>0, <2>3, CleanupTyped
  <2> QED BY <2>1, <2>2, <2>3 DEF LateStatement
<1>2. batches' \in Nat
  <2>1. CASE batches' = batches
    BY <1>0, <2>1 DEF RestOK
  <2>2. CASE l.kind = "flush" /\ batches' = batches + l.n
    <3>1. l \in LateFlush
      BY <1>0, <2>2 DEF LateOK, LateInsert, LateCleanup
    <3> QED BY <1>0, <2>2, <3>1 DEF LateFlush, RestOK
  <2> QED BY <2>1, <2>2 DEF LateStatement
<1> QED BY <1>1, <1>2 DEF LateStatement, TypeInv, CkptTypeOK, MemOK, LateOK, FailuresOK, RestOK

\* An evaluated batch keeps the types.
LEMMA EvaluateBatchTyped ==
  ASSUME TypeInv, NEW i \in Ids, EvaluateBatch(i)
  PROVE  TypeInv'
<1>1. RowsOK'
  <2>1. rows' = [rows EXCEPT ![i] = [rows[i] EXCEPT !.status = "completed"]] /\ rows[i].status = "pending"
    BY DEF EvaluateBatch
  <2> QED BY <2>1 DEF TypeInv, RowsOK
<1> QED BY <1>1 DEF EvaluateBatch, TypeInv, CkptTypeOK, MemOK, LateOK, FailuresOK, RestOK

\* The initial state is typed.
LEMMA InitTyped == Init => TypeInv
<1> SUFFICES ASSUME Init PROVE TypeInv
  OBVIOUS
<1>1. MemOK
  BY OffTyped DEF Init, MemOK
<1>2. RowsOK
  BY SamplerAssumption DEF Init, RowsOK, Absent
<1>3. FailuresOK
  BY SamplerAssumption DEF Init, FailuresOK, Off
<1> QED BY <1>1, <1>2, <1>3, SamplerAssumption DEF Init, TypeInv, CkptTypeOK, LateOK, RestOK

\* Every step keeps the types.
LEMMA NextTyped == TypeInv /\ [Next]_vars => TypeInv'
<1> SUFFICES ASSUME TypeInv, [Next]_vars PROVE TypeInv'
  OBVIOUS
<1>1. ASSUME NEW s \in Samplers, ControlPlane(s) PROVE TypeInv'
  BY <1>1, ControlPlaneTyped
<1>2. ASSUME NEW s \in Samplers, Activation(s) PROVE TypeInv'
  BY <1>2, ActivationTyped
<1>3. ASSUME NEW s \in Samplers, Tick(s) PROVE TypeInv'
  BY <1>3, TickKeepsTypes
<1>4. ASSUME NEW s \in Samplers, Stop(s) PROVE TypeInv'
  BY <1>4, StopTyped
<1>5. ASSUME NEW s \in Samplers, Database(s) PROVE TypeInv'
  BY <1>5, DatabaseTyped
<1>6. ASSUME NEW l \in late, LateStatement(l) PROVE TypeInv'
  BY <1>6, LateStatementTyped
<1>7. ASSUME NEW i \in Ids, EvaluateBatch(i) PROVE TypeInv'
  BY <1>7, EvaluateBatchTyped
<1>8. CASE UNCHANGED vars
  BY <1>8 DEF vars, TypeInv, RowsOK, CkptTypeOK, MemOK, LateOK, FailuresOK, RestOK
<1> QED BY <1>1, <1>2, <1>3, <1>4, <1>5, <1>6, <1>7, <1>8 DEF Next

\* TypeInv is at least as strong as the type invariant of the model.
LEMMA TypeInvImplies == TypeInv => TypeOK
<1> SUFFICES ASSUME TypeInv PROVE TypeOK
  OBVIOUS
<1>1. ASSUME NEW s \in Samplers
      PROVE  MemTypeOK(mem[s]) /\ Cardinality(mem[s].inserts) <= MaxInserts
  <2>1. mem[s] \in Memory /\ Counted(mem[s])
    BY DEF TypeInv, MemOK
  <2>2. mem[s].local \in 0 .. mem[s].core.produced
    BY <2>1 DEF Memory, Core, Counted
  <2>3. mem[s].flush = None \/ (mem[s].flush.n \in 0 .. mem[s].unflushed /\ mem[s].flush.state \in Background)
    BY <2>1 DEF Memory, Flushes, Counted
  <2>4. mem[s].tick = None \/ (mem[s].tick.batches \subseteq Completed /\ mem[s].tick.open \in Nat)
    BY <2>1 DEF Memory, TickType
  <2> QED BY <2>1, <2>2, <2>3, <2>4 DEF MemTypeOK, Memory, Phases, Ckpt, Cleanups, Counted
<1> QED BY <1>1 DEF TypeInv, TypeOK, RowsOK, CkptTypeOK, FailuresOK, RestOK, Ckpt

\* Every variable keeps its type, for any number of processes, draws, ids and
\* faults, and also where activations overlap.
THEOREM TypeCorrect == Spec => []TypeOK
<1>1. Init => TypeInv
  BY InitTyped
<1>2. TypeInv /\ [Next]_vars => TypeInv'
  BY NextTyped
<1> QED BY <1>1, <1>2, TypeInvImplies, PTL DEF Spec

-----------------------------------------------------------------------------
(* The invariant.                                                          *)

\* The batches table, the checkpoint and the id counter are parameters, so that
\* what follows is about constants.
Has(R, i)  == R[i].status # "absent"
Built(m)   == m.phase \notin {"off", "loading"}
Loading(ck) == [Off EXCEPT !.phase = "loading", !.loaded = ck]

\* Everything produced is merged and the task may end.
Whole(core) == core.completed = core.produced /\ core.buffered = 0 /\ StopReached(core)

\* Batch i of the work a core has not merged carries draw d: in the table R, or in
\* one of the inserts J, which are not settled.
Carries(R, core, J, i, d) ==
  /\ core.lastCompleted < i /\ i <= core.lastProduced
  /\ \/ Has(R, i) /\ R[i].draw = d
     \/ \E b \in J : i \in IdsOf(b) /\ d = b.draw + (i - b.first)

\* The ids beyond the completion cursor carry the draws completed + 1 .. top, in order.
Ordered(R, core, J) ==
  \A i, j \in Ids, d, e \in Draws :
    Carries(R, core, J, i, d) /\ Carries(R, core, J, j, e) => (i < j <=> d < e)
Within(R, core, J, top) ==
  \A i \in Ids, d \in Draws : Carries(R, core, J, i, d) => core.completed < d /\ d <= top
NoneMissing(R, core, J, top) ==
  \A d \in core.completed + 1 .. top : \E i \in Ids : Carries(R, core, J, i, d)

\* The three together.
Backlog(R, core, J, top) ==
  Ordered(R, core, J) /\ Within(R, core, J, top) /\ NoneMissing(R, core, J, top)

\* The cursors and counts of a core whose ids are below next.
CoreOK(core, next) ==
  /\ core.ingested = 1 .. core.completed
  /\ core.completed <= core.produced /\ core.produced + core.buffered <= MaxDraws
  /\ core.lastCompleted <= core.lastProduced /\ core.lastProduced < next
  /\ core.roundTrip = "waiting" => core.completed < core.produced

\* An insert lies between the cursors, beyond the checkpoint; "ok" means committed.
InsertOK(R, ck, core, b) ==
  /\ core.lastCompleted < b.first /\ b.first + b.n - 1 <= core.lastProduced
  /\ ck.core.lastProduced < b.first
  /\ b.state = "ok" => \A i \in IdsOf(b) : Has(R, i) /\ R[i].draw = b.draw + (i - b.first)

\* The queue of a built process.
Queue(R, ck, next, core, local, J) ==
  /\ CoreOK(core, next)
  /\ core.completed + local <= core.produced
  /\ Backlog(R, core, J, core.produced - local)
  /\ \A i \in Ids : Has(R, i) => i <= core.lastProduced
  /\ ck # None /\ ck.core.lastProduced <= core.lastProduced
  /\ \A b \in J : InsertOK(R, ck, core, b)

\* The batches G are the first ones beyond the completion cursor.
Segment(R, core, J, G) ==
  \A g \in G :
    /\ Has(R, g.id) /\ R[g.id].draw = g.draw /\ core.lastCompleted < g.id
    /\ \A b \in J : g.id < b.first
    /\ \A i \in Ids : Has(R, i) /\ core.lastCompleted < i /\ i < g.id => \E h \in G : h.id = i

\* A fetch starts at the cursor, stays below the inserts and brings the first batches.
FetchOK(R, next, core, J, fetch) ==
  fetch # None =>
    /\ fetch.after = core.lastCompleted /\ fetch.before <= next
    /\ \A b \in J : fetch.before <= b.first
    /\ Segment(R, core, J, fetch.got)
    /\ fetch.state # "done" => fetch.got = {}

\* Within a tick: the batches taken, and the open ones counted, are not too few.
TickOK(R, m) ==
  m.tick # None =>
    /\ m.phase = "running" /\ Segment(R, m.core, m.inserts, m.tick.batches)
    /\ m.tick.batches # {} => m.fetch = None
    /\ m.core.produced - m.core.completed <= m.tick.open

\* What each phase of leaving the role has already settled.
StopOK(ck, m) ==
  /\ m.phase \in {"publishing", "saving", "saved"} => m.local = 0 /\ m.inserts = {}
  /\ m.phase = "saved" => ck.core = m.core
  /\ m.leaving = "complete" => Whole(m.core)

\* A cleanup deletes merged batches only.
CleanupOK(m) == m.cleanup # None => m.cleanup.upTo <= m.core.lastCompleted

\* A built process.
Sound(R, ck, next, m) ==
  /\ Queue(R, ck, next, m.core, m.local, m.inserts)
  /\ m.ready = {}
  /\ FetchOK(R, next, m.core, m.inserts, m.fetch)
  /\ TickOK(R, m) /\ StopOK(ck, m) /\ CleanupOK(m)

\* A process that is not built has nothing but the checkpoint it loaded.
ProcOK(R, ck, next, m) ==
  /\ m.phase = "off" => m = Off
  /\ m.phase = "loading" => m = Loading(ck)
  /\ Built(m) => Sound(R, ck, next, m)

\* The checkpoint's work is in the table; without a checkpoint nothing is.
CkptOK ==
  /\ ckpt # None => CoreOK(ckpt.core, nextId) /\ Backlog(rows, ckpt.core, {}, ckpt.core.produced)
  /\ ckpt = None => late = {} /\ \A i \in Ids : ~Has(rows, i)

\* Late inserts lie beyond the checkpoint.
LateAfter == \A l \in late : l.kind = "insert" => ckpt # None /\ ckpt.core.lastProduced < l.first

\* One runner at a time, and none while a statement of another is late.
Alone ==
  /\ \A s, o \in Samplers : mem[s].phase # "off" /\ mem[o].phase # "off" => s = o
  /\ late # {} => \A s \in Samplers : mem[s].phase = "off"

\* Every process is sound.
ProcsOK == \A s \in Samplers : ProcOK(rows, ckpt, nextId, mem[s])

\* A completed task is whole, and nothing is loaded for one that is not active.
EndOK ==
  /\ task = "completed" => /\ ckpt # None /\ Whole(ckpt.core)
                           /\ \A s \in Samplers : Built(mem[s]) => Whole(mem[s].core)
  /\ \A s \in Samplers : mem[s].phase = "loading" => task = "active"

\* The inductive invariant.
RecoveryInv == TypeInv /\ Alone /\ ProcsOK /\ CkptOK /\ LateAfter /\ EndOK

-----------------------------------------------------------------------------
(* The backlog.                                                            *)

\* An id carries one draw, and a draw is carried by one id.
LEMMA CarriesUnique ==
  ASSUME NEW R, NEW core, NEW J, Ordered(R, core, J),
         NEW i \in Ids, NEW j \in Ids, NEW d \in Draws, NEW e \in Draws,
         Carries(R, core, J, i, d), Carries(R, core, J, j, e)
  PROVE  i = j <=> d = e
<1>1. (i < j <=> d < e) /\ (j < i <=> e < d)
  BY DEF Ordered
<1> QED BY <1>1 DEF Ids, Draws

\* What carries the same draws is the same backlog.
LEMMA BacklogSame ==
  ASSUME NEW R, NEW core, NEW J, NEW R2, NEW core2, NEW J2, NEW top,
         \A i \in Ids, d \in Draws : Carries(R2, core2, J2, i, d) <=> Carries(R, core, J, i, d),
         core2.completed = core.completed, core.completed \in Nat, top <= MaxDraws, top \in Int,
         Backlog(R, core, J, top)
  PROVE  Backlog(R2, core2, J2, top)
<1>1. Ordered(R2, core2, J2)
  BY DEF Backlog, Ordered
<1>2. Within(R2, core2, J2, top)
  BY DEF Backlog, Within
<1>3. \A d \in core.completed + 1 .. top : d \in Draws
  BY SamplerAssumption DEF Draws
<1>4. NoneMissing(R2, core2, J2, top)
  BY <1>3 DEF Backlog, NoneMissing
<1> QED BY <1>1, <1>2, <1>4 DEF Backlog

\* A bundle is sent: the ids above all others carry the draws after all others.
LEMMA BacklogSpawn ==
  ASSUME NEW R, NEW core \in Core, NEW J, NEW top \in Nat, NEW b, NEW core2 \in Core,
         b.first \in Nat, b.n \in Nat \ {0}, b.draw = top + 1, top + b.n <= MaxDraws,
         b.first + b.n - 1 <= MaxId, core.lastProduced < b.first,
         core2.completed = core.completed, core2.lastCompleted = core.lastCompleted,
         core.lastCompleted <= core.lastProduced, core.completed <= top,
         core2.lastProduced = b.first + b.n - 1,
         \A i \in Ids : Has(R, i) => i <= core.lastProduced,
         \A c \in J : \A i \in IdsOf(c) : i <= core.lastProduced,
         Backlog(R, core, J, top)
  PROVE  Backlog(R, core2, J \cup {b}, top + b.n)
<1>0. /\ core.lastProduced \in Nat /\ core.lastCompleted \in Nat /\ core.completed \in Nat
      /\ MaxDraws \in Nat /\ MaxId \in Nat
  BY SamplerAssumption DEF Core
<1>1. ASSUME NEW i \in Ids, NEW d \in Draws
      PROVE  Carries(R, core2, J \cup {b}, i, d)
               <=> Carries(R, core, J, i, d) \/ (i \in IdsOf(b) /\ d = b.draw + (i - b.first))
  <2>0. i \in Nat
    BY DEF Ids
  <2>1. CASE i <= core.lastProduced
    BY <1>0, <2>0, <2>1 DEF Carries, IdsOf
  <2>2. CASE i > core.lastProduced
    BY <1>0, <2>0, <2>2 DEF Carries, IdsOf
  <2> QED BY <1>0, <2>0, <2>1, <2>2
<1>2. ASSUME NEW i \in Ids, NEW d \in Draws, Carries(R, core, J, i, d)
      PROVE  i < b.first /\ d < b.draw /\ core.completed < d
  BY <1>0, <1>2 DEF Backlog, Within, Carries, Ids, Draws
<1>3. ASSUME NEW i \in Ids, NEW d \in Draws, i \in IdsOf(b), d = b.draw + (i - b.first)
      PROVE  b.first <= i /\ b.draw <= d /\ d <= top + b.n
  BY <1>0, <1>3 DEF IdsOf, Ids, Draws
<1>4. Ordered(R, core2, J \cup {b})
  <2> SUFFICES ASSUME NEW i \in Ids, NEW j \in Ids, NEW d \in Draws, NEW e \in Draws,
                      Carries(R, core2, J \cup {b}, i, d), Carries(R, core2, J \cup {b}, j, e)
               PROVE  i < j <=> d < e
    BY DEF Ordered
  <2>0. i \in Nat /\ j \in Nat /\ d \in Nat /\ e \in Nat
    BY DEF Ids, Draws
  <2>1. CASE Carries(R, core, J, i, d) /\ Carries(R, core, J, j, e)
    BY <2>1 DEF Backlog, Ordered
  <2>2. CASE Carries(R, core, J, i, d) /\ (j \in IdsOf(b) /\ e = b.draw + (j - b.first))
    BY <1>2, <1>3, <2>0, <2>2
  <2>3. CASE (i \in IdsOf(b) /\ d = b.draw + (i - b.first)) /\ Carries(R, core, J, j, e)
    BY <1>2, <1>3, <2>0, <2>3
  <2>4. CASE (i \in IdsOf(b) /\ d = b.draw + (i - b.first)) /\ (j \in IdsOf(b) /\ e = b.draw + (j - b.first))
    BY <2>0, <2>4
  <2> QED BY <1>1, <2>1, <2>2, <2>3, <2>4
<1>5. Within(R, core2, J \cup {b}, top + b.n)
  <2> SUFFICES ASSUME NEW i \in Ids, NEW d \in Draws, Carries(R, core2, J \cup {b}, i, d)
               PROVE  core.completed < d /\ d <= top + b.n
    BY DEF Within
  <2>0. d \in Nat
    BY DEF Draws
  <2>1. CASE Carries(R, core, J, i, d)
    BY <1>2, <2>0, <2>1
  <2>2. CASE i \in IdsOf(b) /\ d = b.draw + (i - b.first)
    BY <1>0, <1>3, <2>0, <2>2
  <2> QED BY <1>1, <2>1, <2>2
<1>6. NoneMissing(R, core2, J \cup {b}, top + b.n)
  <2> SUFFICES ASSUME NEW d \in core.completed + 1 .. top + b.n
               PROVE  \E i \in Ids : Carries(R, core2, J \cup {b}, i, d)
    BY DEF NoneMissing
  <2>1. d \in Draws /\ d \in Nat /\ core.completed < d /\ d <= top + b.n
    BY <1>0 DEF Draws
  <2>2. CASE d <= top
    <3>1. PICK i \in Ids : Carries(R, core, J, i, d)
      BY <1>0, <2>1, <2>2 DEF Backlog, NoneMissing, Draws
    <3> QED BY <1>1, <2>1, <3>1
  <2>3. CASE d > top
    <3> DEFINE i == b.first + (d - b.draw)
    <3>1. i \in Ids /\ i \in IdsOf(b) /\ d = b.draw + (i - b.first)
      <4>1. b.first <= i /\ i <= b.first + b.n - 1 /\ i \in Int /\ d = b.draw + (i - b.first)
        BY <1>0, <2>1, <2>3
      <4>2. 1 <= b.first
        BY <1>0
      <4> HIDE DEF i
      <4> QED BY <1>0, <4>1, <4>2 DEF Ids, IdsOf
    <3> HIDE DEF i
    <3> QED BY <1>1, <2>1, <3>1
  <2> QED BY <2>1, <2>2, <2>3
<1> QED BY <1>4, <1>5, <1>6 DEF Backlog

\* Merging the batches G, the first ones beyond the cursor: their draws are the next
\* ones, and what is left is the backlog of the merged core.
LEMMA SegmentMerged ==
  ASSUME NEW R, NEW core \in Core, NEW J, J \subseteq Insert, NEW top \in Nat, top <= MaxDraws,
         \A i \in Ids : Has(R, i) => i <= core.lastProduced,
         core.ingested = 1 .. core.completed,
         Backlog(R, core, J, top),
         NEW G, G \subseteq Completed, G # {}, Segment(R, core, J, G)
  PROVE  LET core2 == Merged(core, G) IN
         /\ core.completed < core2.completed /\ core2.completed <= top
         /\ core2.ingested = 1 .. core2.completed
         /\ core.lastCompleted <= core2.lastCompleted /\ core2.lastCompleted <= core.lastProduced
         /\ \A b \in J : core2.lastCompleted < b.first
         /\ Backlog(R, core2, J, top)
<1> DEFINE core2 == Merged(core, G)
<1>0. /\ core.completed \in Nat /\ core.lastCompleted \in Nat /\ core.lastProduced \in Nat
      /\ MaxDraws \in Nat /\ MaxId \in Nat
  BY SamplerAssumption DEF Core
<1>1. \A g \in G : g.id \in Ids /\ g.draw \in Draws /\ Carries(R, core, J, g.id, g.draw)
  BY DEF Completed, Segment, Carries
<1>2. PICK g \in G : (\A h \in G : h.id <= g.id) /\ g.id = Max({b.id : b \in G})
  <2> DEFINE S == {b.id : b \in G}
  <2>1. S \subseteq 0 .. MaxId /\ S # {}
    BY DEF Completed, Ids
  <2>2. Max(S) \in S /\ \A y \in S : Max(S) >= y
    <3> HIDE DEF S
    <3> QED BY <1>0, <2>1, MaxIs
  <2>3. PICK g \in G : g.id = Max(S)
    BY <2>2
  <2>4. \A h \in G : h.id \in S /\ h.id \in Int /\ g.id \in Int
    BY <1>1 DEF Ids
  <2> QED BY <2>2, <2>3, <2>4
<1>g. g.id \in Ids /\ g.draw \in Draws /\ g.id \in Nat /\ g.draw \in Nat /\ Carries(R, core, J, g.id, g.draw)
  BY <1>1 DEF Ids, Draws
<1>3. ASSUME NEW i \in Ids, NEW d \in Draws, Carries(R, core, J, i, d), i <= g.id
      PROVE  \E h \in G : h.draw = d
  <2>1. CASE i = g.id
    <3>1. d = g.draw
      BY <1>3, <1>g, <2>1, CarriesUnique DEF Backlog
    <3> QED BY <3>1
  <2>2. CASE i # g.id
    <3>0. i < g.id /\ i \in Int
      BY <1>3, <1>g, <2>2 DEF Ids
    <3>1. \A b \in J : i \notin IdsOf(b)
      <4> SUFFICES ASSUME NEW b \in J, i \in IdsOf(b) PROVE FALSE
        OBVIOUS
      <4>1. g.id < b.first
        BY DEF Segment
      <4>2. b.first <= i
        BY DEF IdsOf
      <4>3. b.first \in Int
        BY DEF Insert, Ids
      <4> QED BY <1>g, <3>0, <4>1, <4>2, <4>3
    <3>2. Has(R, i) /\ R[i].draw = d /\ core.lastCompleted < i
      BY <1>3, <3>1 DEF Carries
    <3>3. PICK h \in G : h.id = i
      BY <3>0, <3>2 DEF Segment
    <3> QED BY <3>2, <3>3 DEF Segment
  <2> QED BY <2>1, <2>2
<1>4. ASSUME NEW i \in Ids, NEW d \in Draws, Carries(R, core, J, i, d)
      PROVE  /\ core.completed < d /\ d <= top
             /\ g.id < i <=> g.draw < d
             /\ i < g.id <=> d < g.draw
  BY <1>4, <1>g DEF Backlog, Within, Ordered
<1>5. ASSUME NEW h \in G
      PROVE  h.draw \in core.completed + 1 .. g.draw
  <2>1. h.id \in Ids /\ h.draw \in Draws /\ Carries(R, core, J, h.id, h.draw) /\ h.id <= g.id
    BY <1>1, <1>2
  <2>2. core.completed < h.draw /\ ~(g.draw < h.draw)
    BY <1>4, <1>g, <2>1 DEF Ids
  <2> QED BY <1>0, <1>g, <2>1, <2>2 DEF Draws
<1>6. ASSUME NEW d \in core.completed + 1 .. g.draw
      PROVE  \E h \in G : h.draw = d
  <2>1. d \in Draws /\ d \in core.completed + 1 .. top
    BY <1>0, <1>4, <1>g DEF Draws
  <2>2. PICK i \in Ids : Carries(R, core, J, i, d)
    BY <2>1 DEF Backlog, NoneMissing
  <2>3. i <= g.id
    <3>1. i \in Int /\ d \in Int /\ d <= g.draw
      BY <1>0, <1>g, <2>1 DEF Ids, Draws
    <3>2. ~(g.draw < d)
      BY <1>g, <3>1
    <3>3. ~(g.id < i)
      BY <1>4, <2>1, <2>2, <3>2
    <3> QED BY <1>g, <3>1, <3>3
  <2> QED BY <1>3, <2>1, <2>2, <2>3
<1>7. {b.draw : b \in G} = core.completed + 1 .. g.draw
  BY <1>5, <1>6
<1>8. Cardinality(G) = g.draw - core.completed
  <2> DEFINE D == core.completed + 1 .. g.draw
             f == [h \in G |-> h.draw]
  <2>1. f \in Injection(G, D)
    <3>1. \A h, k \in G : h.draw = k.draw => h = k
      <4> SUFFICES ASSUME NEW h \in G, NEW k \in G, h.draw = k.draw PROVE h = k
        OBVIOUS
      <4>1. h.id = k.id
        BY <1>1, CarriesUnique DEF Backlog
      <4> QED BY <4>1 DEF Completed
    <3> QED BY <1>5, <3>1 DEF Injection, IsInjective
  <2>2. f \in Surjection(G, D)
    BY <1>5, <1>6 DEF Surjection
  <2>3. f \in Bijection(G, D)
    BY <2>1, <2>2 DEF Bijection
  <2>4. IsFiniteSet(D) /\ Cardinality(D) = g.draw - core.completed
    <3>1. core.completed < g.draw
      BY <1>4, <1>g
    <3> DEFINE a == core.completed + 1
    <3>2. a \in Int /\ g.draw \in Int /\ ~(a > g.draw) /\ g.draw - a + 1 = g.draw - core.completed
      BY <1>0, <1>g, <3>1
    <3> HIDE DEF a
    <3>3. IsFiniteSet(a .. g.draw) /\ Cardinality(a .. g.draw) = g.draw - a + 1
      BY <3>2, FS_Interval
    <3> QED BY <3>2, <3>3 DEF a
  <2>5. IsFiniteSet(G)
    BY CompletedFinite
  <2> HIDE DEF f, D
  <2>6. Cardinality(G) = Cardinality(D)
    BY <2>3, <2>5, FS_Bijection DEF ExistsBijection
  <2> QED BY <2>4, <2>6
<1>9. /\ core2.completed = g.draw /\ core2.lastCompleted = g.id /\ core2.lastProduced = core.lastProduced
      /\ core2.ingested = core.ingested \cup (core.completed + 1 .. g.draw)
  BY <1>0, <1>2, <1>7, <1>8, <1>g DEF Merged, Core
<1>10. core2.ingested = 1 .. core2.completed
  <2>1. core.completed < g.draw
    BY <1>4, <1>g
  <2> QED BY <1>0, <1>9, <1>g, <2>1
<1>11. core.lastCompleted < g.id /\ g.id <= core.lastProduced /\ core.completed < g.draw /\ g.draw <= top
  BY <1>4, <1>g DEF Carries
<1>12. ASSUME NEW i \in Ids, NEW d \in Draws
       PROVE  Carries(R, core2, J, i, d) <=> Carries(R, core, J, i, d) /\ g.id < i
  <2>1. i \in Nat
    BY DEF Ids
  <2> QED BY <1>0, <1>9, <1>11, <1>g, <2>1 DEF Carries
<1> HIDE DEF core2
<1>13. Ordered(R, core2, J)
  BY <1>12 DEF Backlog, Ordered
<1>14. Within(R, core2, J, top)
  BY <1>4, <1>9, <1>12 DEF Within
<1>15. NoneMissing(R, core2, J, top)
  <2> SUFFICES ASSUME NEW d \in g.draw + 1 .. top PROVE \E i \in Ids : Carries(R, core2, J, i, d)
    BY <1>9 DEF NoneMissing
  <2>1. d \in Draws /\ d \in core.completed + 1 .. top /\ g.draw < d
    BY <1>0, <1>11, <1>g DEF Draws
  <2>2. PICK i \in Ids : Carries(R, core, J, i, d)
    BY <2>1 DEF Backlog, NoneMissing
  <2> QED BY <1>4, <1>12, <2>1, <2>2
<1>16. \A b \in J : core2.lastCompleted < b.first
  BY <1>9 DEF Segment
<1>17. core.completed < core2.completed /\ core2.completed <= top
       /\ core.lastCompleted <= core2.lastCompleted /\ core2.lastCompleted <= core.lastProduced
  BY <1>0, <1>9, <1>11, <1>g
<1> QED BY <1>10, <1>13, <1>14, <1>15, <1>16, <1>17 DEF Backlog, core2

-----------------------------------------------------------------------------
(* The queue of a process.                                                 *)

\* Two tables agree on the work that a core has produced and not merged.
AgreeOn(R, R2, core) ==
  \A i \in Ids : core.lastCompleted < i /\ i <= core.lastProduced =>
    /\ Has(R2, i) <=> Has(R, i)
    /\ Has(R, i) => R2[i].draw = R[i].draw

\* Such tables have the same backlog.
LEMMA BacklogAgree ==
  ASSUME NEW R, NEW R2, NEW core \in Core, NEW J, NEW top \in Int, top <= MaxDraws,
         AgreeOn(R, R2, core), Backlog(R, core, J, top)
  PROVE  Backlog(R2, core, J, top)
<1>1. \A i \in Ids, d \in Draws : Carries(R2, core, J, i, d) <=> Carries(R, core, J, i, d)
  BY DEF AgreeOn, Carries
<1>2. core.completed \in Nat
  BY DEF Core
<1> QED BY <1>1, <1>2, BacklogSame

\* The numbers and sets of a process's queue.
LEMMA QueueNumbers ==
  ASSUME NEW R, NEW ck, NEW next, NEW core \in Core, NEW local \in Nat, NEW J,
         Queue(R, ck, next, core, local, J)
  PROVE  /\ core.completed \in Nat /\ core.produced \in Nat /\ core.buffered \in Nat
         /\ core.lastCompleted \in Nat /\ core.lastProduced \in Nat
         /\ core.produced - local \in Nat /\ core.produced - local <= MaxDraws /\ core.produced <= MaxDraws
         /\ core.completed <= core.produced - local
         /\ MaxDraws \in Nat /\ MaxId \in Nat
<1>1. /\ core.completed \in Nat /\ core.produced \in Nat /\ core.buffered \in Nat
      /\ core.lastCompleted \in Nat /\ core.lastProduced \in Nat
      /\ MaxDraws \in Nat /\ MaxId \in Nat
  BY SamplerAssumption DEF Core
<1>2. core.completed + local <= core.produced /\ core.produced + core.buffered <= MaxDraws
  BY DEF Queue, CoreOK
<1> QED BY <1>1, <1>2

\* Rows are evaluated, or merged ones deleted.
LEMMA QueueKept ==
  ASSUME NEW R, NEW R2, NEW ck, NEW next, NEW core \in Core, NEW local \in Nat, NEW J, J \subseteq Insert,
         \A b \in J : Fits(b),
         AgreeOn(R, R2, core), \A i \in Ids : Has(R2, i) => Has(R, i),
         Queue(R, ck, next, core, local, J)
  PROVE  Queue(R2, ck, next, core, local, J)
<1> DEFINE top == core.produced - local
<1>a. top \in Int /\ top <= MaxDraws
  BY QueueNumbers
<1>b. Backlog(R, core, J, top)
  BY DEF Queue
<1>1. Backlog(R2, core, J, top)
  <2> HIDE DEF top
  <2> QED BY <1>a, <1>b, BacklogAgree
<1>2. ASSUME NEW b \in J PROVE InsertOK(R2, ck, core, b)
  <2>1. InsertOK(R, ck, core, b) /\ b \in Insert /\ Fits(b)
    BY DEF Queue
  <2>2. \A i \in IdsOf(b) : i \in Ids /\ core.lastCompleted < i /\ i <= core.lastProduced
    <3>1. IdsOf(b) \subseteq Ids
      BY <2>1, IdsOfFits DEF Insert
    <3>2. core.lastCompleted \in Nat /\ core.lastProduced \in Nat /\ b.first \in Nat /\ b.n \in Nat
      BY <2>1, QueueNumbers, SamplerAssumption DEF Insert, Ids
    <3> QED BY <2>1, <3>1, <3>2 DEF InsertOK, IdsOf
  <2> QED BY <2>1, <2>2 DEF InsertOK, AgreeOn
<1> QED BY <1>1, <1>2 DEF Queue

\* Answered inserts are taken off.
LEMMA QueueAnswered ==
  ASSUME NEW R, NEW ck, NEW next, NEW core \in Core, NEW local \in Nat, NEW J, J \subseteq Insert,
         NEW J2, J2 = {b \in J : b.state = "sent"}, \A b \in J : b.state # "error",
         Queue(R, ck, next, core, local, J)
  PROVE  Queue(R, ck, next, core, local, J2)
<1>1. \A i \in Ids, d \in Draws : Carries(R, core, J2, i, d) <=> Carries(R, core, J, i, d)
  <2> SUFFICES ASSUME NEW i \in Ids, NEW d \in Draws, NEW b \in J, b \notin J2,
                      i \in IdsOf(b), d = b.draw + (i - b.first)
               PROVE  Has(R, i) /\ R[i].draw = d
    BY DEF Carries
  <2>1. b.state = "ok" /\ InsertOK(R, ck, core, b)
    BY DEF Insert, Queue
  <2> QED BY <2>1 DEF InsertOK
<1>2. Backlog(R, core, J2, core.produced - local)
  <2> DEFINE top == core.produced - local
  <2>1. top \in Int /\ top <= MaxDraws /\ core.completed \in Nat
    BY QueueNumbers
  <2>a. Backlog(R, core, J, top)
    BY DEF Queue
  <2> HIDE DEF top
  <2>2. Backlog(R, core, J2, top)
    BY <1>1, <2>1, <2>a, BacklogSame
  <2> QED BY <2>2 DEF top
<1> QED BY <1>2 DEF Queue

\* An insert is answered: committed or not, with or without an error.
LEMMA QueueCommit ==
  ASSUME NEW R, NEW R2, NEW ck, NEW next, NEW core \in Core, NEW local \in Nat, NEW J, J \subseteq Insert,
         \A c \in J : Fits(c), NEW b \in J, NEW st \in {"ok", "error"},
         NEW J2, J2 = (J \ {b}) \cup {[b EXCEPT !.state = st]},
         \/ R2 = R /\ st = "error"
         \/ \A i \in Ids : IF i \in IdsOf(b) THEN Has(R2, i) /\ R2[i].draw = b.draw + (i - b.first)
                                             ELSE R2[i] = R[i],
         \A i \in Ids : Has(R, i) => R[i].draw \in Draws,
         Queue(R, ck, next, core, local, J)
  PROVE  Queue(R2, ck, next, core, local, J2)
<1> DEFINE b2 == [b EXCEPT !.state = st]
<1>0. /\ b2.first = b.first /\ b2.n = b.n /\ b2.draw = b.draw /\ b2.state = st /\ IdsOf(b2) = IdsOf(b)
      /\ b.first \in Ids /\ b.draw \in Draws /\ b.n \in 1 .. MaxBundle
  BY DEF Insert, IdsOf
<1>a. J2 = (J \ {b}) \cup {b2}
  OBVIOUS
<1> HIDE DEF b2
<1>1. /\ IdsOf(b) \subseteq Ids
      /\ \A i \in IdsOf(b) : /\ core.lastCompleted < i /\ i <= core.lastProduced
                             /\ b.draw + (i - b.first) \in Draws
  <2>1. IdsOf(b) \subseteq Ids
    BY <1>0, IdsOfFits
  <2>2. InsertOK(R, ck, core, b)
    BY DEF Queue
  <2>3. core.lastCompleted \in Nat /\ core.lastProduced \in Nat /\ MaxDraws \in Nat /\ MaxId \in Nat
    BY QueueNumbers
  <2> QED BY <1>0, <2>1, <2>2, <2>3 DEF InsertOK, IdsOf, Ids, Draws, Fits
<1>2. ASSUME NEW i \in IdsOf(b), Has(R, i) PROVE R[i].draw = b.draw + (i - b.first)
  <2>1. i \in Ids /\ R[i].draw \in Draws /\ b.draw + (i - b.first) \in Draws
    BY <1>1, <1>2
  <2>2. Carries(R, core, J, i, R[i].draw) /\ Carries(R, core, J, i, b.draw + (i - b.first))
    BY <1>1, <1>2 DEF Carries
  <2> QED BY <2>1, <2>2, CarriesUnique DEF Queue, Backlog
<1>3. ASSUME NEW i \in Ids, NEW d \in Draws
      PROVE  Carries(R2, core, J2, i, d) <=> Carries(R, core, J, i, d)
  <2>1. CASE i \in IdsOf(b)
    <3>1. Carries(R2, core, J2, i, d) <=> d = b.draw + (i - b.first)
      <4>1. Carries(R2, core, J2, i, b.draw + (i - b.first))
        BY <1>0, <1>1, <1>a, <2>1 DEF Carries
      <4>2. ASSUME Carries(R2, core, J2, i, d) PROVE d = b.draw + (i - b.first)
        <5>1. CASE Has(R2, i) /\ R2[i].draw = d
          BY <1>2, <2>1, <5>1
        <5>2. CASE \E c \in J2 : i \in IdsOf(c) /\ d = c.draw + (i - c.first)
          <6>1. CASE i \in IdsOf(b2) /\ d = b2.draw + (i - b2.first)
            BY <1>0, <6>1
          <6>2. CASE \E c \in J : i \in IdsOf(c) /\ d = c.draw + (i - c.first)
            <7>1. Carries(R, core, J, i, d) /\ Carries(R, core, J, i, b.draw + (i - b.first))
              BY <1>1, <2>1, <6>2 DEF Carries
            <7> QED BY <1>1, <2>1, <7>1, CarriesUnique DEF Queue, Backlog
          <6> QED BY <1>a, <5>2, <6>1, <6>2
        <5> QED BY <4>2, <5>1, <5>2 DEF Carries
      <4> QED BY <4>1, <4>2
    <3>2. Carries(R, core, J, i, d) <=> d = b.draw + (i - b.first)
      <4>1. Carries(R, core, J, i, b.draw + (i - b.first))
        BY <1>1, <2>1 DEF Carries
      <4> QED BY <1>1, <2>1, <4>1, CarriesUnique DEF Queue, Backlog
    <3> QED BY <3>1, <3>2
  <2>2. CASE i \notin IdsOf(b)
    <3>1. R2[i] = R[i]
      BY <2>2
    <3>2. (\E c \in J2 : i \in IdsOf(c) /\ d = c.draw + (i - c.first))
            <=> (\E c \in J : i \in IdsOf(c) /\ d = c.draw + (i - c.first))
      BY <1>0, <1>a, <2>2
    <3> QED BY <3>1, <3>2 DEF Carries, Has
  <2> QED BY <2>1, <2>2
<1>4. Backlog(R2, core, J2, core.produced - local)
  <2> DEFINE top == core.produced - local
  <2>1. top \in Int /\ top <= MaxDraws /\ core.completed \in Nat
    BY QueueNumbers
  <2>a. Backlog(R, core, J, top)
    BY DEF Queue
  <2> HIDE DEF top
  <2>2. Backlog(R2, core, J2, top)
    BY <1>3, <2>1, <2>a, BacklogSame
  <2> QED BY <2>2 DEF top
<1>5. ASSUME NEW i \in Ids, Has(R2, i) PROVE i <= core.lastProduced
  BY <1>1, <1>5 DEF Queue, Has
<1>6. ASSUME NEW c \in J2 PROVE InsertOK(R2, ck, core, c)
  <2>1. CASE c = b2
    BY <1>0, <1>1, <2>1 DEF Queue, InsertOK
  <2>2. CASE c \in J
    <3>1. InsertOK(R, ck, core, c)
      BY <2>2 DEF Queue
    <3>2. ASSUME c.state = "ok", NEW i \in IdsOf(c) PROVE Has(R2, i) /\ R2[i].draw = c.draw + (i - c.first)
      <4>1. Has(R, i) /\ R[i].draw = c.draw + (i - c.first)
        BY <3>1, <3>2 DEF InsertOK
      <4>2. i \in Ids
        BY <2>2, IdsOfFits DEF Insert
      <4> QED BY <1>2, <4>1, <4>2 DEF Has
    <3> QED BY <3>1, <3>2 DEF InsertOK
  <2> QED BY <1>a, <2>1, <2>2
<1> QED BY <1>4, <1>5, <1>6 DEF Queue

\* A bundle is sent, under ids that were never used.
LEMMA QueueSpawn ==
  ASSUME NEW R, NEW ck, NEW next \in 1 .. MaxId + 1, NEW core \in Core, NEW local \in Nat, NEW J, J \subseteq Insert,
         \A c \in J : Fits(c), NEW b \in Insert, NEW n \in Nat \ {0}, n <= local, next + n <= MaxId + 1,
         b.first = next, b.draw = core.produced - local + 1, b.n = n, b.state = "sent",
         NEW core2 \in Core, core2 = [core EXCEPT !.lastProduced = next + n - 1],
         ck # None => ck.core.lastProduced \in Nat,
         Queue(R, ck, next, core, local, J)
  PROVE  Queue(R, ck, next + n, core2, local - n, J \cup {b})
<1> DEFINE top == core.produced - local
<1>1. /\ core.completed \in Nat /\ core.produced \in Nat /\ core.buffered \in Nat
      /\ core.lastCompleted \in Nat /\ core.lastProduced \in Nat /\ next \in Nat /\ next + n <= MaxId + 1
      /\ top \in Nat /\ top <= MaxDraws /\ core.produced <= MaxDraws /\ core.completed <= top
      /\ MaxDraws \in Nat /\ MaxId \in Nat
  BY QueueNumbers
<1>2. /\ core2.completed = core.completed /\ core2.ingested = core.ingested
      /\ core2.produced = core.produced /\ core2.buffered = core.buffered
      /\ core2.lastCompleted = core.lastCompleted /\ core2.lastProduced = next + n - 1
      /\ core2.roundTrip = core.roundTrip
  BY DEF Core
<1>3. CoreOK(core, next) /\ core.lastCompleted <= core.lastProduced /\ core.lastProduced < next
  BY DEF Queue, CoreOK
<1>4. CoreOK(core2, next + n)
  <2>1. core.lastCompleted <= next + n - 1 /\ next + n - 1 < next + n
    BY <1>1, <1>3
  <2> QED BY <1>2, <1>3, <2>1 DEF CoreOK
<1>5. \A c \in J : /\ InsertOK(R, ck, core, c) /\ c.first + c.n - 1 <= core.lastProduced
                   /\ c.first \in Nat /\ c.n \in Nat
  BY SamplerAssumption DEF Queue, InsertOK, Insert, Ids
<1>6. \A c \in J : \A i \in IdsOf(c) : i <= core.lastProduced
  BY <1>1, <1>5 DEF IdsOf
<1>7. \A i \in Ids : Has(R, i) => i <= core.lastProduced
  BY DEF Queue
<1>8. Backlog(R, core2, J \cup {b}, top + n)
  <2>1. Backlog(R, core, J, top)
    BY DEF Queue
  <2>2. b.draw = top + 1 /\ top + b.n <= MaxDraws /\ b.first + b.n - 1 <= MaxId /\ b.first \in Nat
        /\ b.n \in Nat \ {0} /\ core.lastProduced < b.first /\ core2.lastProduced = b.first + b.n - 1
    BY <1>1, <1>2, <1>3
  <2> HIDE DEF top
  <2> QED BY <1>1, <1>2, <1>3, <1>6, <1>7, <2>1, <2>2, BacklogSpawn
<1>9. core2.completed + (local - n) <= core2.produced /\ core2.produced - (local - n) = top + n
  BY <1>1, <1>2
<1>10. \A i \in Ids : Has(R, i) => i <= core2.lastProduced
  BY <1>1, <1>2, <1>3, <1>7 DEF Ids
<1>11. ck # None /\ ck.core.lastProduced \in Nat /\ ck.core.lastProduced <= core.lastProduced
  BY DEF Queue
<1>12. ck.core.lastProduced <= core2.lastProduced
  BY <1>1, <1>2, <1>3, <1>11
<1>13. ASSUME NEW c \in J \cup {b} PROVE InsertOK(R, ck, core2, c)
  <2>1. CASE c \in J
    BY <1>1, <1>2, <1>3, <1>5, <2>1 DEF InsertOK
  <2>2. CASE c = b
    BY <1>1, <1>2, <1>3, <1>11, <2>2 DEF InsertOK
  <2> QED BY <2>1, <2>2
<1> QED BY <1>4, <1>8, <1>9, <1>10, <1>11, <1>12, <1>13 DEF Queue

\* A group of ready batches is merged.
LEMMA QueueMerged ==
  ASSUME NEW R, NEW ck, NEW next, NEW core \in Core, NEW local \in Nat, NEW J, J \subseteq Insert,
         NEW G, G \subseteq Completed, Segment(R, core, J, G),
         Queue(R, ck, next, core, local, J)
  PROVE  /\ Queue(R, ck, next, Merged(core, G), local, J)
         /\ G # {} => Merged(core, G).completed > core.completed
         /\ core.lastCompleted <= Merged(core, G).lastCompleted
<1>0. core.lastCompleted \in Nat
  BY QueueNumbers
<1>1. CASE G = {}
  BY <1>0, <1>1 DEF Merged
<1>2. CASE G # {}
  <2> DEFINE core2 == Merged(core, G)
             top == core.produced - local
  <2>1. /\ core.completed \in Nat /\ core.produced \in Nat /\ core.lastProduced \in Nat
        /\ top \in Nat /\ top <= MaxDraws /\ core.completed <= top
    BY QueueNumbers
  <2>2. CoreOK(core, next) /\ Backlog(R, core, J, top) /\ \A i \in Ids : Has(R, i) => i <= core.lastProduced
    BY DEF Queue
  <2>3. core2 \in Core /\ core2.produced = core.produced /\ core2.buffered = core.buffered
        /\ core2.lastProduced = core.lastProduced
    BY MergedTyped
  <2>4. core2.roundTrip = "ready"
    BY <1>2 DEF Merged, Core
  <2>5. /\ core.completed < core2.completed /\ core2.completed <= top
        /\ core2.ingested = 1 .. core2.completed
        /\ core.lastCompleted <= core2.lastCompleted /\ core2.lastCompleted <= core.lastProduced
        /\ \A b \in J : core2.lastCompleted < b.first
        /\ Backlog(R, core2, J, top)
    <3>1. core.ingested = 1 .. core.completed
      BY <2>2 DEF CoreOK
    <3> HIDE DEF top
    <3> QED BY <1>2, <2>1, <2>2, <3>1, SegmentMerged
  <2> HIDE DEF core2
  <2>6. CoreOK(core2, next)
    <3>1. core2.completed \in Nat
      BY <2>3 DEF Core
    <3> QED BY <2>1, <2>2, <2>3, <2>4, <2>5, <3>1 DEF CoreOK
  <2>7. core2.completed + local <= core2.produced
    <3>1. core2.completed \in Nat
      BY <2>3 DEF Core
    <3> QED BY <2>1, <2>3, <2>5, <3>1
  <2>8. \A b \in J : InsertOK(R, ck, core2, b)
    BY <2>3, <2>5 DEF Queue, InsertOK
  <2>9. Queue(R, ck, next, core2, local, J)
    BY <2>2, <2>3, <2>5, <2>6, <2>7, <2>8 DEF Queue
  <2>10. core2.completed > core.completed
    <3>1. core2.completed \in Nat
      BY <2>3 DEF Core
    <3> QED BY <2>1, <2>5, <3>1
  <2> QED BY <2>5, <2>9, <2>10 DEF core2
<1> QED BY <1>1, <1>2

\* Draws are produced into the local buffer.
LEMMA QueueProduced ==
  ASSUME NEW R, NEW ck, NEW next, NEW core \in Core, NEW local \in Nat, NEW J,
         NEW core2 \in Produced(core), Queue(R, ck, next, core, local, J)
  PROVE  /\ Queue(R, ck, next, core2, local + (core2.produced - core.produced), J)
         /\ core2 \in Core
<1>1. /\ core.completed \in Nat /\ core.produced \in Nat /\ core.buffered \in Nat /\ core.lastProduced \in Nat
      /\ core.produced - local \in Nat
  BY QueueNumbers
<1>2. CoreOK(core, next) /\ core.completed + local <= core.produced /\ core.completed <= core.produced
      /\ core.produced + core.buffered <= MaxDraws
  BY DEF Queue, CoreOK
<1>3. /\ core2 \in Core /\ core.produced <= core2.produced
      /\ core2.produced + core2.buffered <= MaxDraws
      /\ core2.completed = core.completed /\ core2.ingested = core.ingested
      /\ core2.lastCompleted = core.lastCompleted /\ core2.lastProduced = core.lastProduced
      /\ core.roundTrip = "waiting" => core2 = core
      /\ core2.roundTrip = "waiting" /\ core.roundTrip # "waiting" => core.produced < core2.produced
  BY <1>2, ProducedTyped
<1>4. core2.produced \in Nat /\ core2.buffered \in Nat
  BY <1>3 DEF Core
<1>5. CoreOK(core2, next)
  BY <1>1, <1>2, <1>3, <1>4 DEF CoreOK
<1> DEFINE local2 == local + (core2.produced - core.produced)
<1>6. core2.produced - local2 = core.produced - local /\ core2.completed + local2 <= core2.produced
  BY <1>1, <1>2, <1>3, <1>4
<1>7. Backlog(R, core2, J, core.produced - local)
  BY <1>3 DEF Queue, Backlog, Ordered, Within, NoneMissing, Carries
<1>8. \A b \in J : InsertOK(R, ck, core2, b)
  BY <1>3 DEF Queue, InsertOK
<1> HIDE DEF local2
<1>9. Queue(R, ck, next, core2, local2, J)
  BY <1>3, <1>5, <1>6, <1>7, <1>8 DEF Queue
<1> QED BY <1>3, <1>9 DEF local2

-----------------------------------------------------------------------------
(* Fetched batches.                                                        *)

\* An equal stretch of the table holds the same first batches.
LEMMA SegmentSame ==
  ASSUME NEW R, NEW core, NEW J, NEW G, G \subseteq Completed, Segment(R, core, J, G),
         NEW R2, NEW core2, NEW J2, core2.lastCompleted = core.lastCompleted,
         \A g \in G, i \in Ids : core.lastCompleted < i /\ i <= g.id =>
           /\ Has(R2, i) <=> Has(R, i)
           /\ Has(R, i) => R2[i].draw = R[i].draw,
         \A g \in G, b \in J2 : g.id < b.first
  PROVE  Segment(R2, core2, J2, G)
<1> SUFFICES ASSUME NEW g \in G
             PROVE  /\ Has(R2, g.id) /\ R2[g.id].draw = g.draw /\ core2.lastCompleted < g.id
                    /\ \A b \in J2 : g.id < b.first
                    /\ \A i \in Ids : Has(R2, i) /\ core2.lastCompleted < i /\ i < g.id => \E h \in G : h.id = i
  BY DEF Segment
<1>1. g.id \in Ids /\ g.id <= g.id /\ core.lastCompleted < g.id /\ Has(R, g.id) /\ R[g.id].draw = g.draw
  BY DEF Completed, Ids, Segment
<1>2. Has(R2, g.id) /\ R2[g.id].draw = g.draw
  BY <1>1
<1>3. ASSUME NEW i \in Ids, Has(R2, i), core2.lastCompleted < i, i < g.id
      PROVE  \E h \in G : h.id = i
  <2>1. i <= g.id
    BY <1>1, <1>3 DEF Ids
  <2>2. Has(R, i) /\ core.lastCompleted < i
    BY <1>3, <2>1
  <2> QED BY <1>3, <2>2 DEF Segment
<1> QED BY <1>1, <1>2, <1>3

\* Rows beyond the cursor are kept.
LEMMA SegmentKept ==
  ASSUME NEW R, NEW R2, NEW core \in Core, NEW J, NEW G, G \subseteq Completed, Segment(R, core, J, G),
         AgreeOn(R, R2, core), \A i \in Ids : Has(R, i) => i <= core.lastProduced
  PROVE  Segment(R2, core, J, G)
<1>1. ASSUME NEW g \in G, NEW i \in Ids, core.lastCompleted < i, i <= g.id
      PROVE  /\ Has(R2, i) <=> Has(R, i)
             /\ Has(R, i) => R2[i].draw = R[i].draw
  <2>1. g.id \in Ids /\ g.id <= core.lastProduced
    BY DEF Completed, Segment
  <2>2. i <= core.lastProduced
    BY <1>1, <2>1 DEF Ids, Core
  <2> QED BY <1>1, <2>2 DEF AgreeOn
<1>2. \A g \in G, b \in J : g.id < b.first
  BY DEF Segment
<1> QED BY <1>1, <1>2, SegmentSame

\* Inserts are answered.
LEMMA SegmentAnswered ==
  ASSUME NEW R, NEW core, NEW J, NEW J2, J2 \subseteq J, NEW G, Segment(R, core, J, G)
  PROVE  Segment(R, core, J2, G)
BY DEF Segment

\* The batches that an insert commits come after those that were fetched.
LEMMA SegmentCommit ==
  ASSUME NEW R, NEW R2, NEW core \in Core, NEW J, J \subseteq Insert, NEW b \in J,
         NEW J2, \A c \in J2 : \E a \in J : c.first = a.first,
         \A i \in Ids : i \notin IdsOf(b) => R2[i] = R[i],
         NEW G, G \subseteq Completed, Segment(R, core, J, G)
  PROVE  Segment(R2, core, J2, G)
<1>1. ASSUME NEW g \in G, NEW i \in Ids, core.lastCompleted < i, i <= g.id
      PROVE  /\ Has(R2, i) <=> Has(R, i)
             /\ Has(R, i) => R2[i].draw = R[i].draw
  <2>1. g.id \in Ids /\ g.id < b.first /\ b.first \in Ids
    BY DEF Completed, Segment, Insert
  <2>2. i \notin IdsOf(b)
    BY <1>1, <2>1 DEF Ids, IdsOf
  <2> QED BY <2>2 DEF Has
<1>2. ASSUME NEW g \in G, NEW c \in J2 PROVE g.id < c.first
  BY DEF Segment
<1> QED BY <1>1, <1>2, SegmentSame

\* A bundle is sent under ids above all others.
LEMMA SegmentSpawn ==
  ASSUME NEW R, NEW core \in Core, NEW core2, core2.lastCompleted = core.lastCompleted, NEW J, NEW b,
         NEW next \in Nat, b.first = next, core.lastProduced < next,
         \A i \in Ids : Has(R, i) => i <= core.lastProduced,
         NEW G, G \subseteq Completed, Segment(R, core, J, G)
  PROVE  Segment(R, core2, J \cup {b}, G)
<1>1. ASSUME NEW g \in G PROVE g.id < b.first
  <2>1. g.id \in Ids /\ g.id <= core.lastProduced
    BY DEF Completed, Segment
  <2> QED BY <2>1 DEF Ids, Core
<1>2. \A g \in G, c \in J \cup {b} : g.id < c.first
  BY <1>1 DEF Segment
<1> QED BY <1>2, SegmentSame

\* fetch_completed_batches returns the first batches beyond the cursor.
LEMMA SegmentFetched ==
  ASSUME NEW core \in Core, NEW J, J \subseteq Insert, NEW fetch \in Fetch,
         fetch.after = core.lastCompleted, \A b \in J : fetch.before <= b.first,
         NEW G, G = {[id |-> i, draw |-> rows[i].draw] : i \in CompletedPrefix(fetch)}
  PROVE  Segment(rows, core, J, G)
<1> DEFINE candidates == {i \in Ids : Present(i) /\ i > fetch.after}
<1>0. fetch.after \in Nat /\ fetch.before \in Nat /\ FetchLimit \in Nat /\ \A b \in J : b.first \in Nat
  BY SamplerAssumption DEF Fetch, Insert, Ids
<1>1. CompletedPrefix(fetch) =
        {i \in candidates : /\ i < fetch.before
                            /\ Cardinality({j \in candidates : j <= i}) <= FetchLimit
                            /\ \A j \in candidates : j <= i => rows[j].status = "completed"}
  BY DEF CompletedPrefix
<1>2. IsFiniteSet(candidates) /\ candidates \subseteq Ids
  <2>1. IsFiniteSet(Ids) /\ candidates \subseteq Ids
    BY FS_Interval, SamplerAssumption DEF Ids
  <2> QED BY <2>1, FS_Subset
<1>3. \A i \in candidates : i \in Nat /\ i \in Ids /\ Has(rows, i) /\ core.lastCompleted < i
  BY <1>0 DEF Ids, Present, Has
<1>4. \A i \in Ids : Has(rows, i) /\ core.lastCompleted < i => i \in candidates
  BY <1>0 DEF Ids, Present, Has
<1> HIDE DEF candidates
<1>5. ASSUME NEW k \in CompletedPrefix(fetch), NEW i \in candidates, i < k
      PROVE  i \in CompletedPrefix(fetch)
  <2>1. k \in candidates /\ k \in Nat /\ i \in Nat /\ k < fetch.before /\ Cardinality({j \in candidates : j <= k}) <= FetchLimit
        /\ \A j \in candidates : j <= k => rows[j].status = "completed"
    BY <1>1, <1>3
  <2>a. \A j \in candidates : j <= i => j <= k
    BY <1>3, <1>5, <2>1
  <2>2. {j \in candidates : j <= i} \subseteq {j \in candidates : j <= k}
    BY <2>a
  <2>3. IsFiniteSet({j \in candidates : j <= k})
    <3>1. {j \in candidates : j <= k} \subseteq candidates
      OBVIOUS
    <3> QED BY <1>2, <3>1, FS_Subset
  <2>4. /\ Cardinality({j \in candidates : j <= i}) <= Cardinality({j \in candidates : j <= k})
        /\ Cardinality({j \in candidates : j <= i}) \in Nat /\ Cardinality({j \in candidates : j <= k}) \in Nat
    BY <2>2, <2>3, FS_Subset, FS_CardinalityType
  <2>5. Cardinality({j \in candidates : j <= i}) <= FetchLimit
    BY <1>0, <2>1, <2>4
  <2>6. \A j \in candidates : j <= i => rows[j].status = "completed"
    BY <2>1, <2>a
  <2>7. i < fetch.before
    BY <1>0, <1>5, <2>1
  <2> QED BY <1>1, <2>5, <2>6, <2>7
<1>6. ASSUME NEW g \in G
      PROVE  /\ Has(rows, g.id) /\ rows[g.id].draw = g.draw /\ core.lastCompleted < g.id
             /\ \A b \in J : g.id < b.first
             /\ \A i \in Ids : Has(rows, i) /\ core.lastCompleted < i /\ i < g.id => \E h \in G : h.id = i
  <2>1. PICK k \in CompletedPrefix(fetch) : g = [id |-> k, draw |-> rows[k].draw]
    OBVIOUS
  <2>2. k \in candidates /\ k \in Nat /\ k < fetch.before /\ g.id = k /\ g.draw = rows[k].draw
    BY <1>1, <1>3, <2>1
  <2>3. \A b \in J : k < b.first
    BY <1>0, <2>2
  <2>4. ASSUME NEW i \in Ids, Has(rows, i), core.lastCompleted < i, i < k PROVE \E h \in G : h.id = i
    <3>1. i \in CompletedPrefix(fetch)
      BY <1>4, <1>5, <2>4
    <3>2. [id |-> i, draw |-> rows[i].draw] \in G /\ [id |-> i, draw |-> rows[i].draw].id = i
      BY <3>1
    <3> QED BY <3>2
  <2> QED BY <1>3, <2>2, <2>3, <2>4
<1> QED BY <1>6 DEF Segment

\* After the answered inserts are taken off, the batches that are ready are the
\* first ones, and the fetch that follows starts behind them or not at all.
LEMMA RefetchedOK ==
  ASSUME NEW m \in Memory, Counted(m), nextId \in 1 .. MaxId + 1, m.ready = {},
         FetchOK(rows, nextId, m.core, m.inserts, m.fetch)
  PROVE  /\ FetchOK(rows, nextId, m.core, Unanswered(m), Refetched(m))
         /\ Segment(rows, m.core, Unanswered(m), NowReady(m))
         /\ NowReady(m) # {} => Refetched(m) = None
<1> DEFINE J2 == Unanswered(m)
<1>0. J2 \subseteq m.inserts /\ J2 \subseteq Insert /\ m.core \in Core
  BY DEF Unanswered, Memory
<1>1. NowReady(m) = IF m.fetch = None THEN {} ELSE m.fetch.got
  BY DEF NowReady
<1>2. m.fetch # None => FetchOK(rows, nextId, m.core, J2, m.fetch)
  BY <1>0 DEF FetchOK, Segment
<1>3. Segment(rows, m.core, J2, NowReady(m))
  BY <1>1, <1>2 DEF FetchOK, Segment
<1>4. FetchOK(rows, nextId, m.core, J2, NewFetch(m.core, J2))
  <2>1. /\ NewFetch(m.core, J2).before <= nextId
        /\ \A b \in J2 : NewFetch(m.core, J2).before <= b.first
    BY <1>0, NewFetchTyped
  <2>2. NewFetch(m.core, J2).after = m.core.lastCompleted /\ NewFetch(m.core, J2).got = {}
    BY DEF NewFetch
  <2> QED BY <2>1, <2>2 DEF FetchOK, Segment
<1>5. CASE m.fetch # None /\ m.fetch.state = "sent"
  BY <1>1, <1>2, <1>3, <1>5 DEF Refetched, FetchOK
<1>6. CASE ~(m.fetch # None /\ m.fetch.state = "sent") /\ NowReady(m) = {}
  BY <1>3, <1>4, <1>6 DEF Refetched
<1>7. CASE ~(m.fetch # None /\ m.fetch.state = "sent") /\ NowReady(m) # {}
  BY <1>3, <1>7 DEF Refetched, FetchOK
<1> QED BY <1>5, <1>6, <1>7

-----------------------------------------------------------------------------
(* Counts.                                                                 *)

\* Every produced draw that is not merged is open: a row, in the local buffer, or in
\* an insert that was not answered.
LEMMA OpenCounts ==
  ASSUME NEW m \in Memory, Counted(m), RowsOK, ~InsertError(m),
         Queue(rows, ckpt, nextId, m.core, m.local, m.inserts)
  PROVE  m.core.produced - m.core.completed <= OpenBatches(m)
<1> DEFINE core == m.core
           J2 == Unanswered(m)
           top == core.produced - m.local
           P == {i \in Ids : rows[i].status = "pending"
                              \/ (rows[i].status = "completed" /\ i > core.lastCompleted)}
           U == UNION {IdsOf(b) : b \in J2}
           D == core.completed + 1 .. top
           C(i, d) == Carries(rows, core, J2, i, d)
           f == [d \in D |-> CHOOSE i \in Ids : C(i, d)]
<1>0. core \in Core /\ m.local \in Nat /\ m.inserts \subseteq Insert
  BY DEF Memory
<1>1. Queue(rows, ckpt, nextId, core, m.local, J2)
  BY <1>0, QueueAnswered DEF Unanswered, InsertError
<1>2. /\ core.completed \in Nat /\ core.produced \in Nat /\ top \in Nat /\ top <= MaxDraws /\ core.completed <= top
      /\ MaxDraws \in Nat /\ core.lastCompleted \in Nat
  BY <1>0, <1>1, QueueNumbers
<1>3. Ordered(rows, core, J2) /\ NoneMissing(rows, core, J2, top)
  BY <1>1 DEF Queue, Backlog
<1>4. ASSUME NEW d \in D PROVE d \in Draws /\ f[d] \in Ids /\ C(f[d], d)
  <2>1. d \in Draws
    BY <1>2 DEF Draws
  <2>2. \E i \in Ids : C(i, d)
    BY <1>3 DEF NoneMissing
  <2> QED BY <2>1, <2>2
<1>5. \A i \in Ids, d \in Draws : C(i, d) => i \in P \cup U
  <2> SUFFICES ASSUME NEW i \in Ids, NEW d \in Draws, C(i, d) PROVE i \in P \cup U
    OBVIOUS
  <2>1. CASE Has(rows, i)
    <3>1. rows[i].status \in {"pending", "completed"}
      BY <2>1 DEF Has, RowsOK
    <3>2. i > core.lastCompleted
      BY <1>2 DEF Carries, Ids
    <3> QED BY <3>1, <3>2
  <2>2. CASE \E b \in J2 : i \in IdsOf(b)
    BY <2>2
  <2> QED BY <2>1, <2>2 DEF Carries
<1>6. IsFiniteSet(P) /\ IsFiniteSet(U)
  <2>1. IsFiniteSet(Ids)
    BY FS_Interval, SamplerAssumption DEF Ids
  <2>2. \A b \in J2 : IdsOf(b) \subseteq Ids
    <3>1. \A b \in J2 : b.first \in Ids /\ b.n \in 1 .. MaxBundle /\ Fits(b)
      BY DEF Unanswered, Memory, Insert, Counted
    <3> QED BY <3>1, IdsOfFits
  <2>3. P \subseteq Ids /\ U \subseteq Ids
    BY <2>2
  <2> HIDE DEF P, U
  <2> QED BY <2>1, <2>3, FS_Subset
<1>7. f \in Injection(D, P \cup U)
  <2> HIDE DEF P, U, C, D
  <2>1. \A d \in D : f[d] \in P \cup U
    BY <1>4, <1>5
  <2>2. ASSUME NEW d \in D, NEW e \in D, f[d] = f[e] PROVE d = e
    <3>1. C(f[d], d) /\ C(f[d], e) /\ f[d] \in Ids /\ d \in Draws /\ e \in Draws
      BY <1>4, <2>2
    <3> QED BY <1>3, <3>1, CarriesUnique DEF C
  <2> QED BY <2>1, <2>2 DEF Injection, IsInjective
<1>8. Cardinality(D) = top - core.completed
  <2> DEFINE a == core.completed + 1
  <2>1. a \in Int /\ top \in Int /\ (IF a > top THEN 0 ELSE top - a + 1) = top - core.completed
    BY <1>2
  <2> HIDE DEF a, top
  <2>2. Cardinality(a .. top) = IF a > top THEN 0 ELSE top - a + 1
    BY <2>1, FS_Interval
  <2> QED BY <2>1, <2>2 DEF a
<1> HIDE DEF f, P, U, D
<1>9. /\ IsFiniteSet(P \cup U) /\ Cardinality(P \cup U) = Cardinality(P) + Cardinality(U) - Cardinality(P \cap U)
      /\ Cardinality(P) \in Nat /\ Cardinality(U) \in Nat /\ Cardinality(P \cap U) \in Nat
  <2>1. IsFiniteSet(P \cap U)
    <3>1. P \cap U \subseteq P
      OBVIOUS
    <3> QED BY <1>6, <3>1, FS_Subset
  <2> QED BY <1>6, <2>1, FS_Union, FS_CardinalityType
<1>10. Cardinality(D) <= Cardinality(P \cup U)
  BY <1>7, <1>9, FS_Injection
<1>11. OpenBatches(m) = Cardinality(P) + m.local + Cardinality(U)
  BY DEF OpenBatches, P, U
<1>12. top = core.produced - m.local
  OBVIOUS
<1> HIDE DEF top
<1> QED BY <1>0, <1>2, <1>8, <1>9, <1>10, <1>11, <1>12

\* The work a checkpoint retains is what it produced and has not merged.
LEMMA RetainedExact ==
  ASSUME NEW core \in Core, CoreOK(core, nextId), RowsOK, Backlog(rows, core, {}, core.produced)
  PROVE  /\ Cardinality(Retained(core)) = core.produced - core.completed
         /\ {rows[i].draw : i \in Retained(core)} = core.completed + 1 .. core.produced
<1> DEFINE D == core.completed + 1 .. core.produced
           f == [i \in Retained(core) |-> rows[i].draw]
<1>0. /\ core.completed \in Nat /\ core.produced \in Nat /\ core.buffered \in Nat /\ MaxDraws \in Nat
      /\ core.completed <= core.produced /\ core.produced <= MaxDraws
  <2>1. /\ core.completed \in Nat /\ core.produced \in Nat /\ core.buffered \in Nat /\ MaxDraws \in Nat
    BY SamplerAssumption DEF Core
  <2>2. core.completed <= core.produced /\ core.produced + core.buffered <= MaxDraws
    BY DEF CoreOK
  <2> QED BY <2>1, <2>2
<1>1. \A i \in Ids, d \in Draws : Carries(rows, core, {}, i, d) <=> i \in Retained(core) /\ rows[i].draw = d
  BY DEF Carries, Retained, Present, Has
<1>2. \A i \in Retained(core) : i \in Ids /\ rows[i].draw \in Draws
  BY DEF Retained, Present, RowsOK
<1>3. ASSUME NEW i \in Retained(core) PROVE rows[i].draw \in D
  <2>1. Carries(rows, core, {}, i, rows[i].draw)
    BY <1>1, <1>2
  <2>2. core.completed < rows[i].draw /\ rows[i].draw <= core.produced
    BY <1>2, <2>1 DEF Backlog, Within
  <2> QED BY <1>0, <1>2, <2>2 DEF Draws
<1>4. ASSUME NEW d \in D PROVE \E i \in Retained(core) : rows[i].draw = d
  <2>1. d \in Draws
    BY <1>0 DEF Draws
  <2>2. PICK i \in Ids : Carries(rows, core, {}, i, d)
    BY DEF Backlog, NoneMissing
  <2> QED BY <1>1, <2>1, <2>2
<1>5. {rows[i].draw : i \in Retained(core)} = D
  BY <1>3, <1>4
<1>6. f \in Bijection(Retained(core), D)
  <2>1. ASSUME NEW i \in Retained(core), NEW j \in Retained(core), rows[i].draw = rows[j].draw PROVE i = j
    <3>1. Carries(rows, core, {}, i, rows[i].draw) /\ Carries(rows, core, {}, j, rows[j].draw)
      BY <1>1, <1>2
    <3> QED BY <1>2, <2>1, <3>1, CarriesUnique DEF Backlog
  <2>2. f \in Injection(Retained(core), D)
    BY <1>3, <2>1 DEF Injection, IsInjective
  <2>3. f \in Surjection(Retained(core), D)
    BY <1>3, <1>4 DEF Surjection
  <2> QED BY <2>2, <2>3 DEF Bijection
<1>7. IsFiniteSet(Retained(core))
  <2>1. Retained(core) \subseteq Ids /\ IsFiniteSet(Ids)
    BY FS_Interval, SamplerAssumption DEF Ids, Retained
  <2> QED BY <2>1, FS_Subset
<1>8. Cardinality(D) = core.produced - core.completed
  <2> DEFINE a == core.completed + 1   top == core.produced
  <2>1. a \in Int /\ top \in Int /\ (IF a > top THEN 0 ELSE top - a + 1) = top - core.completed
    BY <1>0
  <2> HIDE DEF a, top
  <2>2. Cardinality(a .. top) = IF a > top THEN 0 ELSE top - a + 1
    BY <2>1, FS_Interval
  <2> QED BY <2>1, <2>2 DEF a, top
<1> HIDE DEF f, D
<1>9. Cardinality(D) = Cardinality(Retained(core))
  BY <1>6, <1>7, FS_Bijection DEF ExistsBijection
<1> QED BY <1>5, <1>8, <1>9 DEF D

-----------------------------------------------------------------------------
(* Steps and the parts of the invariant they can disturb.                  *)

\* A process that is sound, whose rows beyond the cursor are kept, stays sound.
LEMMA SoundKept ==
  ASSUME NEW R, NEW R2, NEW ck, NEW next, NEW m \in Memory, Counted(m),
         AgreeOn(R, R2, m.core), \A i \in Ids : Has(R2, i) => Has(R, i),
         Sound(R, ck, next, m)
  PROVE  Sound(R2, ck, next, m)
<1>0. m.core \in Core /\ m.local \in Nat /\ m.inserts \subseteq Insert /\ \A b \in m.inserts : Fits(b)
  BY DEF Memory, Counted
<1>1. Queue(R, ck, next, m.core, m.local, m.inserts)
  BY DEF Sound
<1>2. Queue(R2, ck, next, m.core, m.local, m.inserts)
  BY <1>0, <1>1, QueueKept
<1>3. \A i \in Ids : Has(R, i) => i <= m.core.lastProduced
  BY <1>1 DEF Queue
<1>4. ASSUME NEW G, G \subseteq Completed, Segment(R, m.core, m.inserts, G)
      PROVE  Segment(R2, m.core, m.inserts, G)
  BY <1>0, <1>3, <1>4, SegmentKept
<1>5. FetchOK(R2, next, m.core, m.inserts, m.fetch)
  <2>1. m.fetch # None => m.fetch.got \subseteq Completed
    BY DEF Memory, Fetch
  <2> QED BY <1>4, <2>1 DEF Sound, FetchOK
<1>6. TickOK(R2, m)
  <2>1. m.tick # None => m.tick.batches \subseteq Completed
    BY DEF Memory, TickType
  <2> QED BY <1>4, <2>1 DEF Sound, TickOK
<1> QED BY <1>2, <1>5, <1>6 DEF Sound

\* What the checkpoint retains is kept.
LEMMA CkptKept ==
  ASSUME TypeInv, CkptOK, ckpt # None, NEW R2, AgreeOn(rows, R2, ckpt.core)
  PROVE  Backlog(R2, ckpt.core, {}, ckpt.core.produced)
<1>1. ckpt.core \in Core /\ ckpt.core.produced \in Int /\ ckpt.core.produced <= MaxDraws
  <2>1. ckpt.core \in Core /\ ckpt.core.produced + ckpt.core.buffered <= MaxDraws
    BY DEF TypeInv, CkptTypeOK, Ckpt
  <2> QED BY <2>1, SamplerAssumption DEF Core
<1>2. Backlog(rows, ckpt.core, {}, ckpt.core.produced)
  BY DEF CkptOK
<1> QED BY <1>1, <1>2, BacklogAgree

\* A process with a runner is the only one, and no statement is late.
LEMMA ActorAlone ==
  ASSUME RecoveryInv, NEW s \in Samplers, mem[s].phase # "off"
  PROVE  late = {} /\ \A o \in Samplers : o # s => mem[o] = Off
BY DEF RecoveryInv, Alone, ProcsOK, ProcOK

\* A node process without a runner has nothing to be wrong about.
LEMMA OffOK ==
  ASSUME NEW R, NEW ck, NEW next
  PROVE  ProcOK(R, ck, next, Off)
BY DEF ProcOK, Off, Built

\* One process acts while the others are off.
LEMMA StepProcs ==
  ASSUME TypeInv, NEW s \in Samplers, NEW w, mem' = [mem EXCEPT ![s] = w],
         \A o \in Samplers : o # s => mem[o] = Off,
         ProcOK(rows', ckpt', nextId', w), late' = {} \/ w.phase = "off"
  PROVE  /\ Alone' /\ ProcsOK'
         /\ \A o \in Samplers : mem'[o] = IF o = s THEN w ELSE Off
<1>1. \A o \in Samplers : mem'[o] = IF o = s THEN w ELSE Off
  BY DEF TypeInv, MemOK
<1>2. Alone'
  BY <1>1 DEF Alone, Off
<1>3. ProcsOK'
  BY <1>1, OffOK DEF ProcsOK
<1> QED BY <1>1, <1>2, <1>3

\* A built process acts, and nothing else changes.
LEMMA StepQuiet ==
  ASSUME RecoveryInv, TypeInv', NEW s \in Samplers, mem[s].phase # "off",
         NEW w, mem' = [mem EXCEPT ![s] = w], Built(w), Sound(rows, ckpt, nextId, w),
         task' = "completed" => task = "completed" /\ Whole(w.core),
         UNCHANGED <<rows, ckpt, nextId, late>>
  PROVE  RecoveryInv'
<1>1. late = {} /\ \A o \in Samplers : o # s => mem[o] = Off
  BY ActorAlone
<1>2. ProcOK(rows', ckpt', nextId', w)
  BY DEF ProcOK, Built
<1>3. Alone' /\ ProcsOK' /\ \A o \in Samplers : mem'[o] = IF o = s THEN w ELSE Off
  BY <1>1, <1>2, StepProcs DEF RecoveryInv
<1>4. CkptOK'
  BY DEF RecoveryInv, CkptOK
<1>5. LateAfter'
  BY DEF RecoveryInv, LateAfter
<1>6. EndOK'
  BY <1>3 DEF RecoveryInv, EndOK, Built, Off
<1> QED BY <1>3, <1>4, <1>5, <1>6 DEF RecoveryInv

\* A runner is dropped.
LEMMA StepDropped ==
  ASSUME RecoveryInv, TypeInv', NEW s \in Samplers, mem[s].phase # "off",
         mem' = [mem EXCEPT ![s] = Off],
         \A l \in late' : l.kind = "insert" => ckpt' # None /\ ckpt'.core.lastProduced < l.first,
         CkptOK',
         task' = "completed" => ckpt' # None /\ Whole(ckpt'.core)
  PROVE  RecoveryInv'
<1>1. \A o \in Samplers : o # s => mem[o] = Off
  BY ActorAlone
<1>2. ProcOK(rows', ckpt', nextId', Off)
  BY OffOK
<1>3. Alone' /\ ProcsOK' /\ \A o \in Samplers : mem'[o] = Off
  <2>1. TypeInv /\ Off.phase = "off"
    BY DEF RecoveryInv, Off
  <2>2. /\ Alone' /\ ProcsOK'
        /\ \A o \in Samplers : mem'[o] = IF o = s THEN Off ELSE Off
    BY <1>1, <1>2, <2>1, StepProcs
  <2> QED BY <2>2
<1>4. LateAfter'
  BY DEF LateAfter
<1>5. EndOK'
  BY <1>3 DEF EndOK, Built, Off
<1> QED BY <1>3, <1>4, <1>5 DEF RecoveryInv

\* Its inserts come after the checkpoint.
LEMMA UnderWayAfter ==
  ASSUME NEW m, NEW p, \A b \in m.inserts : p < b.first
  PROVE  \A l \in UnderWay(m) : l.kind = "insert" => p < l.first
<1> DEFINE I == {[kind |-> "insert", first |-> b.first, draw |-> b.draw, n |-> b.n] :
                   b \in {c \in m.inserts : c.state = "sent"}}
           F == IF m.flush # None /\ m.flush.state = "sent" THEN {[kind |-> "flush", n |-> m.flush.n]} ELSE {}
           C == IF m.cleanup # None /\ m.cleanup.state = "sent"
                THEN {[kind |-> "cleanup", upTo |-> m.cleanup.upTo]} ELSE {}
<1>1. \A l \in I : p < l.first
  OBVIOUS
<1>2. \A l \in F \cup C : l.kind # "insert"
  OBVIOUS
<1>3. UnderWay(m) = I \cup F \cup C
  BY DEF UnderWay
<1> HIDE DEF I, F, C
<1> QED BY <1>1, <1>2, <1>3

\* The empty core of a new task.
LEMMA FreshOK ==
  ASSUME NEW R, NEW next \in Nat \ {0}, \A i \in Ids : ~Has(R, i)
  PROVE  CoreOK(Fresh, next) /\ Backlog(R, Fresh, {}, 0) /\ Fresh \in Core /\ Fresh.produced = 0
<1>1. CoreOK(Fresh, next)
  BY SamplerAssumption DEF CoreOK, Fresh
<1>2. \A i \in Ids, d \in Draws : ~Carries(R, Fresh, {}, i, d)
  BY DEF Carries
<1>3. Backlog(R, Fresh, {}, 0)
  BY <1>2 DEF Backlog, Ordered, Within, NoneMissing, Fresh
<1> QED BY <1>1, <1>3, SamplerAssumption DEF Fresh, Core

\* The queue of a process that is built from a checkpoint row.
LEMMA QueueRestored ==
  ASSUME NEW R, NEW ck \in Ckpt, NEW next, CoreOK(ck.core, next), Backlog(R, ck.core, {}, ck.core.produced),
         \A i \in Ids : Has(R, i) => i <= ck.core.lastProduced, NEW b \in {"built"}
  PROVE  Sound(R, ck, next, [Loading(ck) EXCEPT !.phase = b, !.core = ck.core])
<1> DEFINE w == [Loading(ck) EXCEPT !.phase = b, !.core = ck.core]
<1>1. /\ w.core = ck.core /\ w.local = 0 /\ w.inserts = {} /\ w.fetch = None /\ w.tick = None
      /\ w.ready = {} /\ w.cleanup = None /\ w.phase = "built" /\ w.leaving = "stop"
  BY DEF Loading, Off
<1>2. /\ ck.core.completed \in Nat /\ ck.core.produced \in Nat /\ ck.core.lastProduced \in Nat
      /\ ck.core.completed <= ck.core.produced
  BY SamplerAssumption DEF Ckpt, Core, CoreOK
<1>3. ck # None
  BY NullAssumption DEF Ckpt
<1>4. ck.core.produced - 0 = ck.core.produced /\ ck.core.completed + 0 = ck.core.completed
  BY <1>2
<1>5. Queue(R, ck, next, ck.core, 0, {})
  BY <1>2, <1>3, <1>4 DEF Queue
<1> HIDE DEF w
<1>6. Sound(R, ck, next, w)
  BY <1>1, <1>5 DEF Sound, FetchOK, TickOK, StopOK, CleanupOK
<1> QED BY <1>6 DEF w

-----------------------------------------------------------------------------
(* Every action keeps RecoveryInv where activations do not overlap.        *)

\* Assignments and leases touch neither the rows nor a process.
LEMMA ControlPlaneSafe ==
  ASSUME RecoveryInv, TypeInv', NEW s \in Samplers, ControlPlane(s)
  PROVE  RecoveryInv'
<1>1. UNCHANGED <<rows, ckpt, task, nextId, mem, late>>
  BY DEF ControlPlane, Assign, Unassign, LeaseLapses, ForgetFailures
<1> QED BY <1>1 DEF RecoveryInv, Alone, ProcsOK, CkptOK, LateAfter, EndOK

\* Loading, saving the first checkpoint, rolling back and starting keep the invariant.
LEMMA ActivationSafe ==
  ASSUME Overlap = FALSE, RecoveryInv, TypeInv', NEW s \in Samplers, Activation(s)
  PROVE  RecoveryInv'
<1> DEFINE m == mem[s]
<1>0. /\ TypeInv /\ Alone /\ ProcsOK /\ CkptOK /\ LateAfter /\ EndOK
      /\ ProcOK(rows, ckpt, nextId, m) /\ nextId \in Nat \ {0}
      /\ ckpt # None => ckpt \in Ckpt /\ ckpt.core \in Core
  BY SamplerAssumption DEF RecoveryInv, ProcsOK, TypeInv, RestOK, CkptTypeOK, Ckpt
<1>a. ASSUME m.phase = "loading"
      PROVE  /\ m = Loading(ckpt) /\ m.loaded = ckpt /\ late = {} /\ task = "active"
             /\ \A o \in Samplers : o # s => mem[o] = Off
  BY <1>0, <1>a, ActorAlone DEF ProcOK, Loading, Off, EndOK
<1>b. ASSUME m.phase # "off", mem' = [mem EXCEPT ![s] = Off], UNCHANGED <<rows, ckpt, nextId, late>>,
             task' = "completed" => task = "completed"
      PROVE  RecoveryInv'
  <2>1. late' = {}
    BY <1>b, ActorAlone
  <2>2. CkptOK'
    BY <1>0, <1>b DEF CkptOK
  <2>3. task' = "completed" => ckpt' # None /\ Whole(ckpt'.core)
    BY <1>0, <1>b DEF EndOK
  <2> QED BY <1>b, <2>1, <2>2, <2>3, StepDropped
<1>1. CASE LoadCheckpoint(s)
  <2> DEFINE w == Loading(ckpt)
  <2>1. /\ m.phase = "off" /\ task = "active" /\ Settled(s)
        /\ mem' = [mem EXCEPT ![s].phase = "loading", ![s].loaded = ckpt]
        /\ UNCHANGED <<rows, ckpt, task, nextId, late>>
    BY <1>1 DEF LoadCheckpoint
  <2>2. m = Off /\ late = {} /\ \A o \in Samplers : o # s => mem[o] = Off
    BY <1>0, <2>1 DEF ProcsOK, ProcOK, Settled
  <2>3. mem' = [mem EXCEPT ![s] = w]
    BY <2>1, <2>2 DEF Loading
  <2>4. w.phase = "loading" /\ ProcOK(rows', ckpt', nextId', w)
    BY <2>1 DEF ProcOK, Loading, Off, Built
  <2> HIDE DEF w
  <2>5. Alone' /\ ProcsOK' /\ \A o \in Samplers : mem'[o] = IF o = s THEN w ELSE Off
    BY <1>0, <2>1, <2>2, <2>3, <2>4, StepProcs
  <2>6. CkptOK' /\ LateAfter'
    BY <1>0, <2>1 DEF CkptOK, LateAfter
  <2>7. EndOK'
    BY <1>0, <2>1, <2>4, <2>5 DEF EndOK, Built, Off
  <2> QED BY <2>5, <2>6, <2>7 DEF RecoveryInv
<1>c. ASSUME m.phase = "loading", m.loaded = None, ckpt' = [core |-> Fresh, batches |-> batches],
             UNCHANGED <<rows, nextId>>
      PROVE  /\ ckpt' \in Ckpt /\ ckpt' # None /\ ckpt'.core = Fresh /\ CkptOK'
             /\ \A i \in Ids : ~Has(rows, i)
  <2>1. \A i \in Ids : ~Has(rows, i)
    BY <1>0, <1>a, <1>c DEF CkptOK
  <2>2. CoreOK(Fresh, nextId) /\ Backlog(rows, Fresh, {}, 0) /\ Fresh \in Core /\ Fresh.produced = 0
    BY <1>0, <2>1, FreshOK
  <2>3. ckpt' \in Ckpt /\ ckpt'.core = Fresh
    BY <1>0, <1>c, <2>2 DEF Ckpt, TypeInv, RestOK
  <2>4. ckpt' # None
    BY <2>3, NullAssumption DEF Ckpt
  <2> QED BY <1>c, <2>1, <2>2, <2>3, <2>4 DEF CkptOK
<1>2. CASE SaveInitial(s)
  <2>1. /\ m.phase = "loading" /\ m.loaded = None /\ ckpt' = [core |-> Fresh, batches |-> batches]
        /\ mem' = [mem EXCEPT ![s].phase = "built"] /\ UNCHANGED <<rows, task, nextId, late>>
    BY <1>2 DEF SaveInitial
  <2>2. /\ ckpt' \in Ckpt /\ ckpt' # None /\ ckpt'.core = Fresh /\ CkptOK' /\ \A i \in Ids : ~Has(rows, i)
    BY <1>c, <2>1
  <2>3. /\ m = Loading(ckpt) /\ late = {} /\ task = "active"
        /\ \A o \in Samplers : o # s => mem[o] = Off
    BY <1>a, <2>1
  <2> DEFINE w == [m EXCEPT !.phase = "built"]
  <2>4. mem' = [mem EXCEPT ![s] = w]
    BY <2>1
  <2>5. /\ w.core = Fresh /\ w.local = 0 /\ w.inserts = {} /\ w.fetch = None /\ w.tick = None
        /\ w.ready = {} /\ w.cleanup = None /\ w.phase = "built" /\ w.leaving = "stop"
    BY <2>3 DEF Loading, Off
  <2>6. Queue(rows, ckpt', nextId, Fresh, 0, {})
    <3>1. CoreOK(Fresh, nextId) /\ Backlog(rows, Fresh, {}, 0)
      BY <1>0, <2>2, FreshOK
    <3>2. Fresh.produced - 0 = 0 /\ Fresh.completed + 0 = 0 /\ Fresh.produced = 0 /\ Fresh.lastProduced <= Fresh.lastProduced
      BY DEF Fresh
    <3> QED BY <2>2, <3>1, <3>2 DEF Queue
  <2> HIDE DEF w
  <2>7. Sound(rows, ckpt', nextId, w)
    BY <2>5, <2>6 DEF Sound, FetchOK, TickOK, StopOK, CleanupOK
  <2>8. ProcOK(rows', ckpt', nextId', w)
    BY <2>1, <2>5, <2>7 DEF ProcOK
  <2>9. Alone' /\ ProcsOK' /\ \A o \in Samplers : mem'[o] = IF o = s THEN w ELSE Off
    BY <1>0, <2>1, <2>3, <2>4, <2>8, StepProcs
  <2>10. LateAfter' /\ EndOK'
    BY <2>1, <2>3, <2>5, <2>9 DEF LateAfter, EndOK, Off
  <2> QED BY <2>2, <2>9, <2>10 DEF RecoveryInv
<1>3. CASE SaveInitialError(s)
  <2>1. /\ m.phase = "loading" /\ m.loaded = None /\ ckpt' \in {ckpt, [core |-> Fresh, batches |-> batches]}
        /\ CountStartFailure(s) /\ UNCHANGED <<rows, nextId, late>>
    BY <1>3 DEF SaveInitialError
  <2>2. late' = {} /\ task = "active"
    BY <1>a, <2>1
  <2>3. mem' = [mem EXCEPT ![s] = Off] /\ task' # "completed"
    BY <2>1, <2>2 DEF CountStartFailure
  <2>4. CkptOK'
    <3>1. CASE ckpt' = ckpt
      BY <1>0, <2>1, <3>1 DEF CkptOK
    <3>2. CASE ckpt' = [core |-> Fresh, batches |-> batches]
      BY <1>c, <2>1, <3>2
    <3> QED BY <2>1, <3>1, <3>2
  <2> QED BY <2>1, <2>2, <2>3, <2>4, StepDropped
<1>4. CASE RestoreCheckpoint(s)
  <2>1. /\ m.phase = "loading" /\ ckpt # None /\ task = "active"
        /\ rows' = [i \in Ids |-> IF i > ckpt.core.lastProduced THEN Absent ELSE rows[i]]
        /\ mem' = [mem EXCEPT ![s].phase = "built", ![s].core = ckpt.core]
        /\ UNCHANGED <<ckpt, task, nextId, late>>
    BY <1>4 DEF RestoreCheckpoint, Restore
  <2>2. /\ m = Loading(ckpt) /\ late = {} /\ \A o \in Samplers : o # s => mem[o] = Off
    BY <1>a, <2>1
  <2>3. ckpt \in Ckpt /\ ckpt.core \in Core /\ ckpt.core.lastProduced \in Nat
    BY <1>0, <2>1, SamplerAssumption DEF Core
  <2>4. \A i \in Ids : IF i <= ckpt.core.lastProduced THEN rows'[i] = rows[i] ELSE ~Has(rows', i)
    BY <2>1, <2>3 DEF Ids, Has, Absent
  <2>5. Backlog(rows', ckpt.core, {}, ckpt.core.produced)
    <3>1. AgreeOn(rows, rows', ckpt.core)
      BY <2>4 DEF AgreeOn, Has
    <3> QED BY <1>0, <2>1, <3>1, CkptKept
  <2>6. CkptOK'
    BY <1>0, <2>1, <2>5 DEF CkptOK
  <2> DEFINE w == [Loading(ckpt) EXCEPT !.phase = "built", !.core = ckpt.core]
  <2>7. mem' = [mem EXCEPT ![s] = w]
    BY <2>1, <2>2
  <2>8. Sound(rows', ckpt, nextId, w)
    <3>1. CoreOK(ckpt.core, nextId) /\ \A i \in Ids : Has(rows', i) => i <= ckpt.core.lastProduced
      BY <1>0, <2>1, <2>4 DEF CkptOK
    <3> QED BY <2>3, <2>5, <3>1, QueueRestored
  <2>9. w.phase = "built"
    BY DEF Loading, Off
  <2> HIDE DEF w
  <2>10. ProcOK(rows', ckpt', nextId', w)
    BY <2>1, <2>8, <2>9 DEF ProcOK
  <2>11. Alone' /\ ProcsOK' /\ \A o \in Samplers : mem'[o] = IF o = s THEN w ELSE Off
    BY <1>0, <2>1, <2>2, <2>7, <2>10, StepProcs
  <2>12. LateAfter' /\ EndOK'
    BY <2>1, <2>2, <2>9, <2>11 DEF LateAfter, EndOK, Off
  <2> QED BY <2>6, <2>11, <2>12 DEF RecoveryInv
<1>5. CASE RestoreConflict(s)
  BY <1>5, <1>b DEF RestoreConflict
<1>6. CASE RestoreRefused(s)
  BY <1>6, <1>b DEF RestoreRefused, CountStartFailure
<1>7. CASE BuildError(s)
  BY <1>7, <1>b DEF BuildError
<1>8. CASE Start(s)
  <2>1. m.phase = "built" /\ UNCHANGED <<rows, ckpt, task, nextId, late>>
    BY <1>8 DEF Start
  <2>2. CASE mem' = [mem EXCEPT ![s] = Off]
    BY <1>b, <2>1, <2>2
  <2>3. CASE mem' = [mem EXCEPT ![s].phase = "running"]
    <3> DEFINE w == [m EXCEPT !.phase = "running"]
    <3>1. m \in Memory /\ Sound(rows, ckpt, nextId, m)
      BY <1>0, <2>1 DEF TypeInv, MemOK, ProcOK, Built
    <3>2. /\ w.core = m.core /\ w.local = m.local /\ w.inserts = m.inserts /\ w.fetch = m.fetch /\ w.tick = m.tick
          /\ w.ready = m.ready /\ w.cleanup = m.cleanup /\ w.phase = "running" /\ w.leaving = m.leaving
      BY <3>1 DEF Memory
    <3>3. mem' = [mem EXCEPT ![s] = w]
      BY <2>3
    <3> HIDE DEF w
    <3>4. Sound(rows, ckpt, nextId, w)
      BY <2>1, <3>1, <3>2 DEF Sound, TickOK, StopOK, CleanupOK
    <3>5. task = "completed" => Whole(w.core)
      BY <1>0, <2>1, <3>2 DEF EndOK, Built
    <3> QED BY <2>1, <3>2, <3>3, <3>4, <3>5, StepQuiet DEF Built
  <2> QED BY <1>8, <2>2, <2>3 DEF Start
<1> QED BY <1>1, <1>2, <1>3, <1>4, <1>5, <1>6, <1>7, <1>8 DEF Activation

\* A core that is whole produces nothing, ...
LEMMA WholeProduces ==
  ASSUME NEW core, Whole(core), NEW next \in Produced(core)
  PROVE  next = core
<1>1. Generated(core) = {core}
  BY DEF Generated, Whole
<1>2. Enqueued(core) = {core}
  BY DEF Enqueued, Whole
<1> QED BY <1>1, <1>2 DEF Produced

\* ... and there is nothing to merge into it.
LEMMA WholeStays ==
  ASSUME NEW R, NEW ck, NEW next, NEW core \in Core, NEW local \in Nat, NEW J,
         Queue(R, ck, next, core, local, J), Whole(core),
         NEW G, G \subseteq Completed, Segment(R, core, J, G)
  PROVE  G = {}
<1> SUFFICES ASSUME NEW g \in G PROVE FALSE
  OBVIOUS
<1>1. /\ g.id \in Ids /\ g.draw \in Draws /\ Has(R, g.id) /\ R[g.id].draw = g.draw /\ core.lastCompleted < g.id
  BY DEF Completed, Segment
<1>2. g.id <= core.lastProduced
  BY <1>1 DEF Queue
<1>3. Carries(R, core, J, g.id, g.draw)
  BY <1>1, <1>2 DEF Carries
<1>4. core.completed < g.draw /\ g.draw <= core.produced - local
  BY <1>1, <1>3 DEF Queue, Backlog, Within
<1>5. core.completed = core.produced /\ core.completed \in Nat /\ g.draw \in Nat
  BY <1>1, SamplerAssumption DEF Whole, Core, Draws
<1> QED BY <1>4, <1>5

\* The rest of a tick merges the batches that are ready and produces: the process
\* stays sound, and a whole core stays what it is.
LEMMA TickSound ==
  ASSUME NEW R, NEW ck, NEW nx, NEW m \in Memory, Counted(m), Sound(R, ck, nx, m), m.tick # None,
         NEW core, core = Merged(m.core, m.tick.batches),
         NEW next \in Produced(core) \cup {core}, NEW c \in CleanupChoices(m.cleanup, core),
         NEW w, w.core = next, w.local = m.local + (next.produced - core.produced),
         w.inserts = m.inserts, w.fetch \in {m.fetch, None}, w.ready = m.ready, w.tick = None, w.cleanup = c,
         w.phase \in {"running", "stopping"}, w.leaving = "complete" => Whole(next)
  PROVE  /\ Sound(R, ck, nx, w) /\ (Whole(m.core) => next = m.core)
         /\ core.produced = m.core.produced /\ core.completed = m.core.completed + Cardinality(m.tick.batches)
         /\ next.completed = core.completed
<1> DEFINE G == m.tick.batches
<1>0. /\ m.core \in Core /\ m.local \in Nat /\ m.inserts \subseteq Insert /\ G \subseteq Completed
      /\ m.cleanup \in Cleanups \cup {None}
  BY DEF Memory, TickType
<1>1. /\ Queue(R, ck, nx, m.core, m.local, m.inserts) /\ Segment(R, m.core, m.inserts, G)
      /\ FetchOK(R, nx, m.core, m.inserts, m.fetch) /\ CleanupOK(m) /\ m.ready = {}
      /\ G # {} => m.fetch = None
  BY DEF Sound, TickOK
<1> HIDE DEF G
<1>2. /\ core \in Core /\ core.produced = m.core.produced /\ core.completed = m.core.completed + Cardinality(G)
  BY <1>0, MergedTyped DEF G
<1>3. Queue(R, ck, nx, core, m.local, m.inserts) /\ m.core.lastCompleted <= core.lastCompleted
  BY <1>0, <1>1, QueueMerged DEF G
<1>4. core.produced + core.buffered <= MaxDraws
  BY <1>3 DEF Queue, CoreOK
<1>5. /\ Queue(R, ck, nx, next, w.local, m.inserts) /\ next \in Core
      /\ next.completed = core.completed /\ next.lastCompleted = core.lastCompleted
  <2>1. CASE next \in Produced(core)
    BY <1>0, <1>2, <1>3, <1>4, <2>1, QueueProduced, ProducedTyped
  <2>2. CASE next = core
    <3>1. core.produced \in Nat
      BY <1>2 DEF Core
    <3>2. w.local = m.local
      BY <1>0, <2>2, <3>1
    <3> QED BY <1>2, <1>3, <2>2, <3>2
  <2> QED BY <2>1, <2>2
<1>6. FetchOK(R, nx, next, m.inserts, w.fetch)
  <2>1. CASE w.fetch = None
    BY <2>1 DEF FetchOK
  <2>2. CASE w.fetch # None
    <3>1. G = {} /\ w.fetch = m.fetch
      BY <1>1, <2>2
    <3>2. core = m.core
      BY <3>1 DEF Merged, G
    <3> QED BY <1>1, <1>5, <3>1, <3>2 DEF FetchOK, Segment
  <2> QED BY <2>1, <2>2
<1>7. CleanupOK(w)
  <2>1. c # None => c.upTo = core.lastCompleted \/ c = m.cleanup
    BY <1>0, <1>2, CleanupChoicesTyped
  <2>2. core.lastCompleted \in Nat /\ m.core.lastCompleted \in Nat /\ (m.cleanup # None => m.cleanup.upTo \in Nat)
    BY <1>0, <1>2, SamplerAssumption DEF Core, Cleanups, Ids
  <2> QED BY <1>1, <1>3, <1>5, <2>1, <2>2 DEF CleanupOK
<1>8. Sound(R, ck, nx, w)
  BY <1>1, <1>5, <1>6, <1>7 DEF Sound, TickOK, StopOK
<1>9. ASSUME Whole(m.core) PROVE next = m.core
  <2>1. G = {}
    BY <1>0, <1>1, <1>9, WholeStays
  <2>2. core = m.core
    BY <2>1 DEF Merged, G
  <2> QED BY <1>9, <2>2, WholeProduces
<1> QED BY <1>2, <1>5, <1>8, <1>9 DEF G

\* What is known of a built process that is about to act.
LEMMA ActorSound ==
  ASSUME RecoveryInv, NEW s \in Samplers, Built(mem[s])
  PROVE  /\ mem[s] \in Memory /\ Counted(mem[s]) /\ Sound(rows, ckpt, nextId, mem[s])
         /\ mem[s].phase # "off" /\ late = {} /\ \A o \in Samplers : o # s => mem[o] = Off
         /\ ckpt # None /\ ckpt \in Ckpt /\ ckpt.core \in Core
         /\ mem[s].core \in Core /\ mem[s].local \in Nat /\ mem[s].inserts \subseteq Insert
         /\ task = "completed" => Whole(mem[s].core) /\ Whole(ckpt.core)
<1>1. mem[s].phase # "off"
  BY DEF Built
<1>2. TypeInv /\ ProcsOK /\ EndOK
  BY DEF RecoveryInv
<1>3. mem[s] \in Memory /\ Counted(mem[s]) /\ Sound(rows, ckpt, nextId, mem[s])
  BY <1>2 DEF TypeInv, MemOK, ProcsOK, ProcOK
<1>4. ckpt # None
  BY <1>3 DEF Sound, Queue
<1>5. ckpt \in Ckpt /\ ckpt.core \in Core
  BY <1>2, <1>4 DEF TypeInv, CkptTypeOK, Ckpt
<1>6. task = "completed" => Whole(mem[s].core) /\ Whole(ckpt.core)
  BY <1>2 DEF EndOK
<1>7. mem[s].core \in Core /\ mem[s].local \in Nat /\ mem[s].inserts \subseteq Insert
  BY <1>3 DEF Memory
<1> QED BY <1>1, <1>3, <1>4, <1>5, <1>6, <1>7, ActorAlone

\* Starting an insert keeps the invariant: its ids are new.
LEMMA SpawnSafe ==
  ASSUME RecoveryInv, TypeInv', NEW s \in Samplers, SpawnInsert(s)
  PROVE  RecoveryInv'
<1> DEFINE m == mem[s]
<1>1. PICK n \in 1 .. Min({m.local, MaxBundle}) :
        /\ nextId + n <= MaxId + 1
        /\ mem' = [mem EXCEPT ![s] =
             [m EXCEPT !.local = @ - n,
                       !.core.lastProduced = nextId + n - 1,
                       !.inserts = @ \cup {[first |-> nextId, draw |-> m.core.produced - m.local + 1,
                                            n |-> n, state |-> "sent"]}]]
        /\ nextId' = nextId + n
  BY DEF SpawnInsert
<1>2. m.phase \in {"running", "stopping"} /\ UNCHANGED <<rows, ckpt, task, late>> /\ ~Pumped(m)
  BY DEF SpawnInsert
<1> DEFINE b == [first |-> nextId, draw |-> m.core.produced - m.local + 1, n |-> n, state |-> "sent"]
           left == m.local - n   last == nextId + n - 1   J == m.inserts \cup {b}
           core == [m.core EXCEPT !.lastProduced = last]
           w == [m EXCEPT !.local = left, !.core = core, !.inserts = J]
<1>3. /\ TypeInv /\ CkptOK /\ EndOK /\ LateAfter /\ nextId \in 1 .. MaxId + 1 /\ MaxId \in Nat /\ MaxBundle \in Nat
      /\ RowsOK
  BY SamplerAssumption DEF RecoveryInv, TypeInv, RestOK
<1>4. /\ m \in Memory /\ Counted(m) /\ Sound(rows, ckpt, nextId, m) /\ late = {}
      /\ \A o \in Samplers : o # s => mem[o] = Off
      /\ m.core \in Core /\ m.local \in Nat /\ m.inserts \subseteq Insert
      /\ ckpt # None /\ ckpt.core \in Core /\ (task = "completed" => Whole(m.core) /\ Whole(ckpt.core))
  BY <1>2, ActorSound DEF Built
<1>5. n \in Nat \ {0} /\ n <= m.local /\ n <= MaxBundle
  <2>1. /\ Min({m.local, MaxBundle}) <= m.local /\ Min({m.local, MaxBundle}) <= MaxBundle
        /\ Min({m.local, MaxBundle}) \in Int
    <3>1. m.local \in Int /\ MaxBundle \in Int
      BY <1>3, <1>4
    <3> HIDE DEF m
    <3> QED BY <3>1, MinOfPair
  <2>2. n \in Nat /\ 1 <= n /\ n <= Min({m.local, MaxBundle})
    BY <2>1
  <2> QED BY <1>3, <1>4, <2>1, <2>2
<1>6. /\ Queue(rows, ckpt, nextId, m.core, m.local, m.inserts) /\ m.ready = {}
      /\ FetchOK(rows, nextId, m.core, m.inserts, m.fetch) /\ TickOK(rows, m) /\ StopOK(ckpt, m) /\ CleanupOK(m)
  BY <1>4 DEF Sound
<1>7. /\ m.core.produced \in Nat /\ m.core.completed \in Nat /\ m.core.produced <= MaxDraws /\ MaxDraws \in Nat
      /\ m.core.lastProduced \in Nat /\ m.core.lastProduced < nextId
      /\ m.core.completed + m.local <= m.core.produced
      /\ \A i \in Ids : Has(rows, i) => i <= m.core.lastProduced
  BY <1>4, <1>6, QueueNumbers DEF Queue, CoreOK
<1>8. b \in Insert
  BY <1>1, <1>3, <1>4, <1>5, <1>7 DEF Insert, Ids, Draws
<1>9. mem' = [mem EXCEPT ![s] = w]
  BY <1>1, <1>4 DEF Core
<1>10. b.first = nextId /\ b.draw = m.core.produced - m.local + 1 /\ b.n = n /\ b.state = "sent"
  OBVIOUS
<1>11. last \in 0 .. MaxId
  BY <1>1, <1>3, <1>5
<1> HIDE DEF last
<1>12. /\ core \in Core /\ core.completed = m.core.completed /\ core.produced = m.core.produced
       /\ core.buffered = m.core.buffered /\ core.lastCompleted = m.core.lastCompleted
  BY <1>4, <1>11 DEF Core
<1> HIDE DEF b
<1>13. Queue(rows, ckpt, nextId + n, core, left, J)
  <2>1. \A c \in m.inserts : Fits(c)
    BY <1>4 DEF Counted
  <2>2. ckpt.core.lastProduced \in Nat
    BY <1>4, SamplerAssumption DEF Core
  <2>3. core = [m.core EXCEPT !.lastProduced = nextId + n - 1]
    BY DEF last
  <2> HIDE DEF core
  <2> QED BY <1>1, <1>3, <1>4, <1>5, <1>6, <1>8, <1>10, <1>12, <2>1, <2>2, <2>3, QueueSpawn
<1>14. /\ w.core = core /\ w.local = left /\ w.inserts = J /\ w.fetch = m.fetch /\ w.ready = m.ready
       /\ w.tick = m.tick /\ w.cleanup = m.cleanup /\ w.phase = m.phase /\ w.leaving = m.leaving
  BY <1>4 DEF Memory
<1> HIDE DEF core, left, J, w
<1>15. ASSUME NEW G, G \subseteq Completed, Segment(rows, m.core, m.inserts, G)
       PROVE  Segment(rows, core, J, G)
  <2>1. nextId \in Nat
    BY <1>3
  <2> QED BY <1>4, <1>7, <1>10, <1>12, <1>15, <2>1, SegmentSpawn DEF J
<1>16. FetchOK(rows, nextId', core, J, w.fetch)
  <2>1. m.fetch # None => m.fetch.got \subseteq Completed /\ m.fetch.before \in Nat
    BY <1>4, SamplerAssumption DEF Memory, Fetch
  <2>2. nextId' \in Nat /\ nextId < nextId' /\ nextId \in Nat
    BY <1>1, <1>3, <1>5
  <2>3. m.fetch # None => m.fetch.before <= nextId /\ \A c \in m.inserts : m.fetch.before <= c.first
    BY <1>6 DEF FetchOK
  <2>4. m.fetch # None => m.fetch.before <= nextId' /\ \A c \in J : m.fetch.before <= c.first
    BY <1>10, <2>1, <2>2, <2>3 DEF J
  <2> QED BY <1>6, <1>12, <1>14, <1>15, <2>1, <2>4 DEF FetchOK
<1>17. TickOK(rows, w)
  <2>1. m.tick # None => m.tick.batches \subseteq Completed
    BY <1>4 DEF Memory, TickType
  <2> QED BY <1>6, <1>12, <1>14, <1>15, <2>1 DEF TickOK
<1>18. Whole(m.core) => Whole(core)
  BY <1>12 DEF Whole, StopReached
<1>19. StopOK(ckpt, w) /\ CleanupOK(w)
  BY <1>2, <1>6, <1>12, <1>14, <1>18 DEF StopOK, CleanupOK
<1>20. Sound(rows, ckpt, nextId', w)
  BY <1>1, <1>6, <1>13, <1>14, <1>16, <1>17, <1>19 DEF Sound
<1>21. ProcOK(rows', ckpt', nextId', w) /\ Built(w)
  BY <1>2, <1>14, <1>20 DEF ProcOK, Built
<1>22. Alone' /\ ProcsOK' /\ \A o \in Samplers : mem'[o] = IF o = s THEN w ELSE Off
  BY <1>2, <1>3, <1>4, <1>9, <1>21, StepProcs
<1>23. CkptOK'
  <2>1. ckpt.core.lastProduced \in Nat /\ nextId \in Nat /\ nextId' \in Nat /\ nextId < nextId'
    BY <1>1, <1>3, <1>4, <1>5, SamplerAssumption DEF Core
  <2>2. CoreOK(ckpt.core, nextId')
    BY <1>3, <1>4, <2>1 DEF CkptOK, CoreOK
  <2> QED BY <1>2, <1>3, <1>4, <2>2 DEF CkptOK
<1>24. LateAfter'
  BY <1>2, <1>3 DEF LateAfter
<1>25. EndOK'
  BY <1>2, <1>4, <1>14, <1>18, <1>21, <1>22 DEF EndOK, Built, Off
<1> QED BY <1>22, <1>23, <1>24, <1>25 DEF RecoveryInv

\* Every outcome of the tick keeps the invariant.
LEMMA TickSafe ==
  ASSUME RecoveryInv, TypeInv', NEW s \in Samplers, Tick(s)
  PROVE  RecoveryInv'
<1> DEFINE m == mem[s]
<1>0. Built(m)
  BY DEF Tick, SpawnInsert, QueueTick, NotifyError, FetchErrorTick, QueueTickError, FinishTick,
         ProduceError, FlushErrorTick, FailNoProgress, Ticking, Built
<1>1. /\ m \in Memory /\ Counted(m) /\ Sound(rows, ckpt, nextId, m) /\ m.phase # "off"
      /\ m.core \in Core /\ m.local \in Nat /\ m.inserts \subseteq Insert
      /\ (task = "completed" => Whole(m.core))
  BY <1>0, ActorSound
<1>2. /\ Queue(rows, ckpt, nextId, m.core, m.local, m.inserts) /\ m.ready = {}
      /\ FetchOK(rows, nextId, m.core, m.inserts, m.fetch) /\ TickOK(rows, m) /\ StopOK(ckpt, m) /\ CleanupOK(m)
  BY <1>1 DEF Sound
<1>3. nextId \in 1 .. MaxId + 1 /\ RowsOK
  BY DEF RecoveryInv, TypeInv, RestOK
<1>a. ASSUME Ticking(m)
      PROVE  /\ Queue(rows, ckpt, nextId, m.core, m.local, Unanswered(m))
             /\ FetchOK(rows, nextId, m.core, Unanswered(m), Refetched(m))
             /\ FetchOK(rows, nextId, m.core, Unanswered(m), None)
             /\ Segment(rows, m.core, Unanswered(m), NowReady(m))
             /\ NowReady(m) # {} => Refetched(m) = None
             /\ m.core.produced - m.core.completed <= OpenBatches(m)
             /\ m.phase = "running" /\ m.tick = None /\ (m.leaving # "complete" \/ Whole(m.core))
  <2>1. \A b \in m.inserts : b.state # "error"
    BY <1>a DEF Ticking, InsertError
  <2>2. Queue(rows, ckpt, nextId, m.core, m.local, Unanswered(m))
    BY <1>1, <1>2, <2>1, QueueAnswered DEF Unanswered
  <2>3. /\ FetchOK(rows, nextId, m.core, Unanswered(m), Refetched(m))
        /\ Segment(rows, m.core, Unanswered(m), NowReady(m))
        /\ NowReady(m) # {} => Refetched(m) = None
    BY <1>1, <1>2, <1>3, RefetchedOK
  <2>4. m.core.produced - m.core.completed <= OpenBatches(m)
    <3>1. ~InsertError(m)
      BY <1>a DEF Ticking
    <3> QED BY <1>1, <1>2, <1>3, <3>1, OpenCounts
  <2> QED BY <1>2, <1>a, <2>2, <2>3, <2>4 DEF Ticking, FetchOK, StopOK
<1>b. ASSUME NEW w, mem' = [mem EXCEPT ![s] = w], Built(w), Sound(rows, ckpt, nextId, w),
             task' = "completed" => task = "completed", Whole(m.core) => w.core = m.core,
             UNCHANGED <<rows, ckpt, nextId, late>>
      PROVE  RecoveryInv'
  <2>1. task' = "completed" => task = "completed" /\ Whole(w.core)
    BY <1>1, <1>b
  <2> QED BY <1>1, <1>b, <2>1, StepQuiet
<1>c. \A w : w.core = m.core /\ w.leaving = m.leaving /\ w.phase = "running" => StopOK(ckpt, w)
  BY <1>2 DEF StopOK
<1>4. CASE SpawnInsert(s)
  BY <1>4, SpawnSafe
<1>5. CASE QueueTick(s)
  <2>1. PICK c \in CleanupChoices(IF m.cleanup # None /\ m.cleanup.state = "ok" THEN None ELSE m.cleanup, m.core) :
          mem' = [mem EXCEPT ![s] =
            [m EXCEPT !.inserts = Unanswered(m), !.fetch = Refetched(m), !.ready = {}, !.cleanup = c,
                      !.tick = [batches |-> NowReady(m), open |-> OpenBatches(m)]]]
    BY <1>5 DEF QueueTick
  <2>2. Ticking(m) /\ UNCHANGED <<rows, ckpt, nextId, late, task>> /\ m.phase = "running"
    BY <1>5 DEF QueueTick, Ticking
  <2> DEFINE t == [batches |-> NowReady(m), open |-> OpenBatches(m)]
             w == [m EXCEPT !.inserts = Unanswered(m), !.fetch = Refetched(m), !.ready = {}, !.cleanup = c, !.tick = t]
  <2>3. /\ w.core = m.core /\ w.local = m.local /\ w.inserts = Unanswered(m) /\ w.fetch = Refetched(m)
        /\ w.ready = {} /\ w.tick = t /\ w.cleanup = c /\ w.phase = "running" /\ w.leaving = m.leaving
    BY <1>1, <2>2 DEF Memory
  <2>4. mem' = [mem EXCEPT ![s] = w]
    BY <2>1
  <2>5. CleanupOK(w)
    <3>1. c # None => c = m.cleanup \/ c.upTo = m.core.lastCompleted
      BY <1>1, CleanupChoicesTyped DEF Memory
    <3>2. m.core.lastCompleted <= m.core.lastCompleted
      BY <1>1, <1>2, QueueNumbers
    <3> QED BY <1>2, <2>3, <3>1, <3>2 DEF CleanupOK
  <2>6. TickOK(rows, w)
    <3>1. t.batches = NowReady(m) /\ t.open = OpenBatches(m)
      OBVIOUS
    <3> HIDE DEF t, w
    <3> QED BY <1>a, <2>2, <2>3, <3>1 DEF TickOK
  <2> HIDE DEF w
  <2>7. Sound(rows, ckpt, nextId, w)
    BY <1>a, <1>c, <2>2, <2>3, <2>5, <2>6 DEF Sound
  <2> QED BY <1>b, <2>2, <2>3, <2>4, <2>7 DEF Built
<1>6. CASE NotifyError(s)
  <2> DEFINE w == [m EXCEPT !.inserts = {}]
  <2>1. /\ Ticking(m) /\ Unanswered(m) = {} /\ UNCHANGED <<rows, ckpt, nextId, late, task>>
        /\ mem' = [mem EXCEPT ![s] = w] /\ m.phase = "running" /\ m.tick = None
    BY <1>6 DEF NotifyError, Ticking
  <2>2. /\ w.core = m.core /\ w.local = m.local /\ w.inserts = Unanswered(m) /\ w.fetch = m.fetch
        /\ w.ready = {} /\ w.tick = None /\ w.cleanup = m.cleanup /\ w.phase = "running" /\ w.leaving = m.leaving
    BY <1>1, <1>2, <2>1 DEF Memory
  <2> HIDE DEF w
  <2>3. FetchOK(rows, nextId, m.core, Unanswered(m), m.fetch)
    BY <1>2, <2>1 DEF FetchOK, Segment
  <2>4. Sound(rows, ckpt, nextId, w)
    BY <1>2, <1>a, <1>c, <2>1, <2>2, <2>3 DEF Sound, TickOK, CleanupOK
  <2> QED BY <1>b, <2>1, <2>2, <2>4 DEF Built
<1>7. CASE FetchErrorTick(s)
  <2> DEFINE w == [m EXCEPT !.inserts = Unanswered(m), !.fetch = None]
  <2>1. /\ Ticking(m) /\ UNCHANGED <<rows, ckpt, nextId, late, task>>
        /\ mem' = [mem EXCEPT ![s] = w] /\ m.phase = "running" /\ m.tick = None
    BY <1>7 DEF FetchErrorTick, Ticking
  <2>2. /\ w.core = m.core /\ w.local = m.local /\ w.inserts = Unanswered(m) /\ w.fetch = None
        /\ w.ready = {} /\ w.tick = None /\ w.cleanup = m.cleanup /\ w.phase = "running" /\ w.leaving = m.leaving
    BY <1>1, <1>2, <2>1 DEF Memory
  <2> HIDE DEF w
  <2>3. Sound(rows, ckpt, nextId, w)
    BY <1>2, <1>a, <1>c, <2>1, <2>2 DEF Sound, TickOK, CleanupOK
  <2> QED BY <1>b, <2>1, <2>2, <2>3 DEF Built
<1>8. CASE QueueTickError(s)
  <2> DEFINE c == IF m.cleanup # None /\ m.cleanup.state = "sent" THEN m.cleanup ELSE None
             w == [m EXCEPT !.inserts = Unanswered(m), !.fetch = Refetched(m), !.ready = {}, !.cleanup = c]
  <2>1. /\ Ticking(m) /\ UNCHANGED <<rows, ckpt, nextId, late, task>>
        /\ mem' = [mem EXCEPT ![s] = w] /\ m.phase = "running" /\ m.tick = None
    BY <1>8 DEF QueueTickError, Ticking
  <2>2. c \in {m.cleanup, None}
    OBVIOUS
  <2> HIDE DEF c
  <2>3. /\ w.core = m.core /\ w.local = m.local /\ w.inserts = Unanswered(m) /\ w.fetch = Refetched(m)
        /\ w.ready = {} /\ w.tick = None /\ w.cleanup = c /\ w.phase = "running" /\ w.leaving = m.leaving
    BY <1>1, <1>2, <2>1 DEF Memory
  <2> HIDE DEF w
  <2>4. Sound(rows, ckpt, nextId, w)
    BY <1>2, <1>a, <1>c, <2>1, <2>2, <2>3 DEF Sound, TickOK, CleanupOK
  <2> QED BY <1>b, <2>1, <2>3, <2>4 DEF Built
<1>9. CASE FinishTick(s)
  <2> DEFINE group == m.tick.batches
             core == Merged(m.core, group)
             answered == m.flush # None /\ m.flush.state = "ok"
             unflushed == m.unflushed + Cardinality(group) - (IF answered THEN m.flush.n ELSE 0)
  <2>1. PICK next \in Produced(core), c \in CleanupChoices(m.cleanup, core),
             f \in FlushChoices(m.flush, unflushed), done \in BOOLEAN :
          LET k == next.produced - core.produced
              ended == StopReached(core) /\ m.tick.open - Cardinality(group) + k <= 0 /\ next.buffered = 0
          IN
          /\ nextId + m.local + k <= MaxId + 1
          /\ \/ done = ended /\ UNCHANGED faults
             \/ ended /\ ~done /\ Fault
          /\ mem' = [mem EXCEPT ![s] =
               [m EXCEPT !.tick = None, !.core = next, !.local = @ + k, !.cleanup = c,
                         !.flush = f, !.unflushed = unflushed,
                         !.phase = IF done THEN "stopping" ELSE "running",
                         !.leaving = IF done THEN "complete" ELSE "stop"]]
    BY <1>9 DEF FinishTick
  <2> DEFINE local == m.local + (next.produced - core.produced)
             phase == IF done THEN "stopping" ELSE "running"
             leaving == IF done THEN "complete" ELSE "stop"
             w == [m EXCEPT !.tick = None, !.core = next, !.local = local, !.cleanup = c, !.flush = f,
                            !.unflushed = unflushed, !.phase = phase, !.leaving = leaving]
  <2>2. /\ mem' = [mem EXCEPT ![s] = w] /\ m.tick # None /\ UNCHANGED <<rows, ckpt, nextId, late, task>>
    BY <1>9, <2>1 DEF FinishTick
  <2>3. /\ w.core = next /\ w.local = local /\ w.inserts = m.inserts /\ w.fetch = m.fetch
        /\ w.ready = m.ready /\ w.tick = None /\ w.cleanup = c /\ w.phase = phase /\ w.leaving = leaving
    BY <1>1 DEF Memory
  <2>4. /\ core.produced = m.core.produced /\ core.completed = m.core.completed + Cardinality(group)
        /\ core \in Core /\ Cardinality(group) \in Nat
    <3>1. group \subseteq Completed
      BY <1>1, <2>2 DEF Memory, TickType
    <3> QED BY <1>1, <3>1, MergedTyped, CompletedFinite
  <2>5. next.completed = core.completed /\ next \in Core
    <3>1. Segment(rows, m.core, m.inserts, group) /\ group \subseteq Completed
      BY <1>1, <1>2, <2>2 DEF TickOK, Memory, TickType
    <3>2. Queue(rows, ckpt, nextId, core, m.local, m.inserts)
      BY <1>1, <1>2, <3>1, QueueMerged
    <3>3. core.produced + core.buffered <= MaxDraws
      BY <3>2 DEF Queue, CoreOK
    <3> HIDE DEF core
    <3> QED BY <2>4, <3>3, ProducedTyped
  <2>6. next.completed <= next.produced
    <3>1. Segment(rows, m.core, m.inserts, group) /\ group \subseteq Completed
      BY <1>1, <1>2, <2>2 DEF TickOK, Memory, TickType
    <3>2. Queue(rows, ckpt, nextId, core, m.local, m.inserts)
      BY <1>1, <1>2, <3>1, QueueMerged
    <3> HIDE DEF core
    <3>3. Queue(rows, ckpt, nextId, next, m.local + (next.produced - core.produced), m.inserts)
      BY <1>1, <2>4, <3>2, QueueProduced
    <3> QED BY <3>3 DEF Queue, CoreOK
  <2>7. done => Whole(next)
    <3> SUFFICES ASSUME done PROVE Whole(next)
      OBVIOUS
    <3>1. StopReached(core) /\ m.tick.open - Cardinality(group) + (next.produced - core.produced) <= 0 /\ next.buffered = 0
      BY <2>1
    <3>2. m.core.produced - m.core.completed <= m.tick.open
      BY <1>2, <2>2 DEF TickOK
    <3>3. m.tick.open \in Nat /\ m.core.produced \in Nat /\ m.core.completed \in Nat
      BY <1>1, <2>2 DEF Memory, TickType, Core
    <3>4. next.produced \in Nat /\ next.completed \in Nat
      BY <2>5 DEF Core
    <3> DEFINE k == Cardinality(group)   open == m.tick.open   C == m.core.completed   P == m.core.produced
    <3>5. /\ k \in Nat /\ open \in Nat /\ C \in Nat /\ P \in Nat /\ P - C <= open
          /\ open - k + (next.produced - P) <= 0 /\ next.completed = C + k
      BY <2>4, <2>5, <3>1, <3>2, <3>3
    <3> HIDE DEF k, open, C, P
    <3>6. next.completed = next.produced
      BY <2>6, <3>4, <3>5
    <3>7. StopReached(next)
      BY <2>5, <3>1 DEF StopReached
    <3> QED BY <3>1, <3>6, <3>7 DEF Whole
  <2>8. phase \in {"running", "stopping"} /\ (leaving = "complete" => Whole(next))
    BY <2>7
  <2> HIDE DEF core, leaving, phase, unflushed, w
  <2>9. Sound(rows, ckpt, nextId, w) /\ (Whole(m.core) => next = m.core)
    <3>1. core = Merged(m.core, m.tick.batches)
      BY DEF core
    <3> QED BY <1>1, <2>2, <2>3, <2>8, <3>1, TickSound
  <2> QED BY <1>b, <2>2, <2>3, <2>8, <2>9 DEF Built
<1>10. CASE ProduceError(s)
  <2> DEFINE group == m.tick.batches
             core == Merged(m.core, group)
  <2>1. PICK c \in CleanupChoices(m.cleanup, core) :
          mem' = [mem EXCEPT ![s] = [m EXCEPT !.tick = None, !.core = core, !.cleanup = c,
                                              !.unflushed = @ + Cardinality(group)]]
    BY <1>10 DEF ProduceError
  <2> DEFINE unflushed == m.unflushed + Cardinality(group)
             w == [m EXCEPT !.tick = None, !.core = core, !.cleanup = c, !.unflushed = unflushed]
  <2>2. /\ mem' = [mem EXCEPT ![s] = w] /\ m.tick # None /\ UNCHANGED <<rows, ckpt, nextId, late, task>>
        /\ m.phase = "running"
    BY <1>10, <2>1 DEF ProduceError
  <2>3. /\ w.core = core /\ w.local = m.local /\ w.inserts = m.inserts /\ w.fetch = m.fetch
        /\ w.ready = m.ready /\ w.tick = None /\ w.cleanup = c /\ w.phase = "running" /\ w.leaving = m.leaving
    BY <1>1, <2>2 DEF Memory
  <2>4. core.produced \in Nat /\ core.produced = m.core.produced /\ core.completed = m.core.completed + Cardinality(group)
    <3>1. group \subseteq Completed
      BY <1>1, <2>2 DEF Memory, TickType
    <3>2. core \in Core /\ core.produced = m.core.produced /\ core.completed = m.core.completed + Cardinality(group)
      BY <1>1, <3>1, MergedTyped
    <3> QED BY <3>2 DEF Core
  <2>5. w.local = m.local + (core.produced - core.produced)
    BY <1>1, <2>3, <2>4
  <2>6. core = Merged(m.core, m.tick.batches)
    OBVIOUS
  <2>7. m.leaving = "complete" => core = m.core
    <3>1. ASSUME m.leaving = "complete" PROVE group = {}
      <4>1. Whole(m.core) /\ Segment(rows, m.core, m.inserts, group) /\ group \subseteq Completed
        BY <1>1, <1>2, <2>2, <3>1 DEF StopOK, TickOK, Memory, TickType
      <4> QED BY <1>1, <1>2, <4>1, WholeStays
    <3> QED BY <3>1 DEF Merged
  <2>8. w.leaving = "complete" => Whole(core)
    BY <1>2, <2>3, <2>7 DEF StopOK
  <2> HIDE DEF core, unflushed, w
  <2>9. Sound(rows, ckpt, nextId, w) /\ (Whole(m.core) => core = m.core)
    <3>1. /\ core \in Produced(core) \cup {core} /\ w.fetch \in {m.fetch, None}
          /\ w.phase \in {"running", "stopping"}
      BY <2>3
    <3> HIDE DEF m
    <3> QED BY <1>1, <2>2, <2>3, <2>5, <2>6, <2>8, <3>1, TickSound
  <2> QED BY <1>b, <2>2, <2>3, <2>9 DEF Built
<1>11. CASE FlushErrorTick(s)
  <2> DEFINE group == m.tick.batches
             core == Merged(m.core, group)
  <2>1. PICK next \in Produced(core), c \in CleanupChoices(m.cleanup, core) :
          mem' = [mem EXCEPT ![s] =
            [m EXCEPT !.tick = None, !.core = next, !.local = @ + (next.produced - core.produced),
                      !.cleanup = c, !.flush = None, !.unflushed = @ + Cardinality(group)]]
    BY <1>11 DEF FlushErrorTick
  <2> DEFINE local == m.local + (next.produced - core.produced)
             unflushed == m.unflushed + Cardinality(group)
             w == [m EXCEPT !.tick = None, !.core = next, !.local = local, !.cleanup = c, !.flush = None,
                            !.unflushed = unflushed]
  <2>2. /\ mem' = [mem EXCEPT ![s] = w] /\ m.tick # None /\ UNCHANGED <<rows, ckpt, nextId, late, task>>
        /\ m.phase = "running"
    BY <1>11, <2>1 DEF FlushErrorTick
  <2>3. /\ w.core = next /\ w.local = local /\ w.inserts = m.inserts /\ w.fetch = m.fetch
        /\ w.ready = m.ready /\ w.tick = None /\ w.cleanup = c /\ w.phase = "running" /\ w.leaving = m.leaving
    BY <1>1, <2>2 DEF Memory
  <2>4. m.leaving = "complete" => next = m.core
    <3> SUFFICES ASSUME m.leaving = "complete" PROVE next = m.core
      OBVIOUS
    <3>1. Whole(m.core) /\ Segment(rows, m.core, m.inserts, group) /\ group \subseteq Completed
      BY <1>1, <1>2, <2>2 DEF StopOK, TickOK, Memory, TickType
    <3>2. group = {}
      BY <1>1, <1>2, <3>1, WholeStays
    <3>3. core = m.core
      BY <3>2 DEF Merged
    <3> QED BY <3>1, <3>3, WholeProduces
  <2>5. w.leaving = "complete" => Whole(next)
    BY <1>2, <2>3, <2>4 DEF StopOK
  <2>6. core = Merged(m.core, m.tick.batches)
    OBVIOUS
  <2> HIDE DEF core, unflushed, w
  <2>7. Sound(rows, ckpt, nextId, w) /\ (Whole(m.core) => next = m.core)
    <3>1. /\ next \in Produced(core) \cup {core} /\ w.fetch \in {m.fetch, None}
          /\ w.phase \in {"running", "stopping"}
      BY <2>3
    <3> HIDE DEF m
    <3>2. /\ w.core = next /\ w.local = m.local + (next.produced - core.produced) /\ w.inserts = m.inserts
          /\ w.ready = m.ready /\ w.tick = None /\ w.cleanup = c /\ m.tick # None
      BY <2>2, <2>3
    <3>3. m \in Memory /\ Counted(m) /\ Sound(rows, ckpt, nextId, m)
      BY <1>1
    <3> HIDE DEF local
    <3> QED BY <2>5, <2>6, <3>1, <3>2, <3>3, TickSound
  <2> QED BY <1>b, <2>2, <2>3, <2>7 DEF Built
<1>12. CASE FailNoProgress(s)
  <2> DEFINE w == [m EXCEPT !.tick = None, !.phase = "stopping", !.leaving = "fail"]
  <2>1. /\ mem' = [mem EXCEPT ![s] = w] /\ UNCHANGED <<rows, ckpt, nextId, late>>
        /\ task' = "completed" => task = "completed"
    BY <1>12 DEF FailNoProgress
  <2>2. /\ w.core = m.core /\ w.local = m.local /\ w.inserts = m.inserts /\ w.fetch = m.fetch
        /\ w.ready = m.ready /\ w.tick = None /\ w.cleanup = m.cleanup /\ w.phase = "stopping" /\ w.leaving = "fail"
    BY <1>1 DEF Memory
  <2> HIDE DEF w
  <2>3. Sound(rows, ckpt, nextId, w)
    BY <1>2, <2>2 DEF Sound, TickOK, StopOK, CleanupOK
  <2> QED BY <1>b, <2>1, <2>2, <2>3 DEF Built
<1> QED BY <1>4, <1>5, <1>6, <1>7, <1>8, <1>9, <1>10, <1>11, <1>12 DEF Tick

\* Cleanup deletes only what neither the process nor the checkpoint needs.
LEMMA CleanupKeeps ==
  ASSUME TypeInv, NEW upTo \in Nat, Cleanup(upTo)
  PROVE  /\ \A i \in Ids : Has(rows', i) => Has(rows, i)
         /\ \A core \in Core : upTo <= core.lastCompleted => AgreeOn(rows, rows', core)
         /\ ckpt # None => AgreeOn(rows, rows', ckpt.core)
<1>1. PICK gone \in SUBSET Consumable(upTo) : rows' = [i \in Ids |-> IF i \in gone THEN Absent ELSE rows[i]]
  BY DEF Cleanup
<1>2. \A i \in Ids : Has(rows', i) => Has(rows, i)
  BY <1>1 DEF Has, Absent
<1>3. ASSUME NEW core \in Core, upTo <= core.lastCompleted PROVE AgreeOn(rows, rows', core)
  <2>1. ASSUME NEW i \in Ids, core.lastCompleted < i PROVE rows'[i] = rows[i]
    <3>1. ~(i <= upTo)
      BY <1>3, <2>1, SamplerAssumption DEF Core, Ids
    <3> QED BY <1>1, <3>1 DEF Consumable
  <2> QED BY <2>1 DEF AgreeOn, Has
<1>4. ASSUME ckpt # None PROVE AgreeOn(rows, rows', ckpt.core)
  <2>0. ckpt.core.lastCompleted \in Nat /\ ckpt.core.lastProduced \in Nat
    BY <1>4, SamplerAssumption DEF TypeInv, CkptTypeOK, Ckpt, Core
  <2>1. ASSUME NEW i \in Ids, ckpt.core.lastCompleted < i, i <= ckpt.core.lastProduced PROVE rows'[i] = rows[i]
    <3>1. ~(i <= ckpt.core.lastCompleted \/ i > ckpt.core.lastProduced)
      BY <2>0, <2>1 DEF Ids
    <3> QED BY <1>1, <3>1 DEF Consumable
  <2> QED BY <2>1 DEF AgreeOn, Has
<1> QED BY <1>2, <1>3, <1>4

\* A built process acts, on the rows or the checkpoint too.
LEMMA StepActed ==
  ASSUME RecoveryInv, TypeInv', NEW s \in Samplers, mem[s].phase # "off",
         NEW w, mem' = [mem EXCEPT ![s] = w], Built(w), Sound(rows', ckpt', nextId', w), CkptOK',
         task' = "completed" => ckpt' # None /\ Whole(ckpt'.core) /\ Whole(w.core),
         UNCHANGED late
  PROVE  RecoveryInv'
<1>1. late = {} /\ \A o \in Samplers : o # s => mem[o] = Off
  BY ActorAlone
<1>2. ProcOK(rows', ckpt', nextId', w)
  BY DEF ProcOK, Built
<1>3. Alone' /\ ProcsOK' /\ \A o \in Samplers : mem'[o] = IF o = s THEN w ELSE Off
  BY <1>1, <1>2, StepProcs DEF RecoveryInv
<1>4. LateAfter'
  BY <1>1 DEF LateAfter
<1>5. EndOK'
  BY <1>3 DEF EndOK, Built, Off
<1> QED BY <1>3, <1>4, <1>5 DEF RecoveryInv

\* A stop meets an error: the runner goes on, or it is dropped.
LEMMA GiveUpSafe ==
  ASSUME RecoveryInv, TypeInv', NEW s \in Samplers, Built(mem[s]),
         NEW w \in Memory, w.core = mem[s].core, w.local = mem[s].local, w.inserts = mem[s].inserts,
         w.ready = {}, w.tick = None, w.fetch \in {mem[s].fetch, None}, w.cleanup \in {mem[s].cleanup, None},
         Queue(rows', ckpt', nextId', w.core, w.local, w.inserts),
         FetchOK(rows', nextId', w.core, w.inserts, mem[s].fetch), CkptOK',
         task' = "completed" => Whole(ckpt'.core) /\ Whole(w.core),
         GiveUp(s, w)
  PROVE  RecoveryInv'
<1> DEFINE m == mem[s]
<1>1. /\ CleanupOK(m) /\ m.phase # "off" /\ late = {} /\ m.core \in Core
  BY ActorSound DEF Sound
<1>2. ckpt' # None /\ \A b \in w.inserts : ckpt'.core.lastProduced < b.first
  BY DEF Queue, InsertOK
<1>3. CASE w.leaving = "complete"
  <2> DEFINE v == [w EXCEPT !.phase = "running", !.leaving = "stop"]
  <2>1. mem' = [mem EXCEPT ![s] = v] /\ UNCHANGED late
    BY <1>3 DEF GiveUp
  <2>2. /\ v.core = w.core /\ v.local = w.local /\ v.inserts = w.inserts /\ v.fetch = w.fetch /\ v.ready = {}
        /\ v.tick = None /\ v.cleanup = w.cleanup /\ v.phase = "running" /\ v.leaving = "stop"
    BY DEF Memory
  <2> HIDE DEF v
  <2>3. FetchOK(rows', nextId', v.core, v.inserts, v.fetch)
    BY <2>2 DEF FetchOK
  <2>4. TickOK(rows', v) /\ StopOK(ckpt', v) /\ CleanupOK(v)
    BY <1>1, <2>2 DEF TickOK, StopOK, CleanupOK
  <2>5. Sound(rows', ckpt', nextId', v)
    BY <2>2, <2>3, <2>4 DEF Sound
  <2>6. Built(v)
    BY <2>2 DEF Built
  <2> QED BY <1>1, <1>2, <2>1, <2>2, <2>5, <2>6, StepActed
<1>4. CASE w.leaving # "complete"
  <2>1. mem' = [mem EXCEPT ![s] = Off] /\ late' = late \cup UnderWay(w)
    BY <1>4 DEF GiveUp
  <2>2. \A l \in UnderWay(w) : l.kind = "insert" => ckpt'.core.lastProduced < l.first
    <3> DEFINE p == ckpt'.core.lastProduced
    <3> HIDE DEF p
    <3>1. \A b \in w.inserts : p < b.first
      BY <1>2 DEF p
    <3>2. \A l \in UnderWay(w) : l.kind = "insert" => p < l.first
      BY <3>1, UnderWayAfter
    <3> QED BY <3>2 DEF p
  <2> QED BY <1>1, <1>2, <2>1, <2>2, StepDropped
<1> QED BY <1>3, <1>4

\* The core of a process that has nothing left to send is what its checkpoint saves.
LEMMA SavedOK ==
  ASSUME RecoveryInv, NEW s \in Samplers, mem[s].phase \in {"saving", "saved"},
         ckpt' \in {ckpt, [core |-> mem[s].core, batches |-> batches]},
         UNCHANGED <<rows, nextId>>, TypeInv'
  PROVE  /\ CkptOK' /\ ckpt' # None /\ (task = "completed" => Whole(ckpt'.core))
         /\ Queue(rows', ckpt', nextId', mem[s].core, mem[s].local, mem[s].inserts)
<1> DEFINE m == mem[s]
<1>1. /\ m \in Memory /\ Sound(rows, ckpt, nextId, m) /\ late = {} /\ ckpt # None /\ m.core \in Core
      /\ task = "completed" => Whole(m.core) /\ Whole(ckpt.core)
  BY ActorSound DEF Built
<1>2. /\ Queue(rows, ckpt, nextId, m.core, m.local, m.inserts) /\ m.local = 0 /\ m.inserts = {}
  BY <1>1 DEF Sound, StopOK
<1>3. CASE ckpt' = ckpt
  BY <1>1, <1>2, <1>3 DEF RecoveryInv, CkptOK
<1>4. CASE ckpt' = [core |-> m.core, batches |-> batches]
  <2>1. ckpt' \in Ckpt
    BY <1>1, <1>4 DEF Ckpt, RecoveryInv, TypeInv, RestOK
  <2>2. ckpt' # None /\ ckpt'.core = m.core
    BY <1>4, <2>1, NullAssumption DEF Ckpt
  <2>3. m.core.produced \in Nat /\ m.core.lastProduced \in Nat
    BY <1>1, SamplerAssumption DEF Core
  <2>4. m.core.produced - m.local = m.core.produced /\ m.core.lastProduced <= m.core.lastProduced
    BY <1>2, <2>3
  <2>5. CoreOK(m.core, nextId) /\ Backlog(rows, m.core, {}, m.core.produced)
    BY <1>2, <2>4 DEF Queue
  <2>6. CkptOK'
    BY <2>2, <2>5 DEF CkptOK
  <2>7. Queue(rows, ckpt', nextId, m.core, m.local, m.inserts)
    BY <1>2, <2>2, <2>4 DEF Queue
  <2> QED BY <1>1, <2>2, <2>6, <2>7
<1> QED BY <1>3, <1>4

\* A runner that is dropped leaves inserts that its checkpoint does not need.
LEMMA DropSafe ==
  ASSUME RecoveryInv, TypeInv', NEW s \in Samplers, mem[s].phase # "off", Drop(s),
         UNCHANGED <<rows, ckpt, nextId>>, task' = "completed" => task = "completed"
  PROVE  RecoveryInv'
<1> DEFINE m == mem[s]
<1>1. mem' = [mem EXCEPT ![s] = Off] /\ late' = late \cup UnderWay(m) /\ late = {}
  BY ActorAlone DEF Drop
<1>2. ProcOK(rows, ckpt, nextId, m) /\ CkptOK /\ EndOK
  BY DEF RecoveryInv, ProcsOK
<1>3. \A l \in UnderWay(m) : l.kind = "insert" => ckpt # None /\ ckpt.core.lastProduced < l.first
  <2>1. CASE Built(m)
    <3>1. ckpt # None /\ \A b \in m.inserts : ckpt.core.lastProduced < b.first
      BY <1>2, <2>1 DEF ProcOK, Sound, Queue, InsertOK
    <3> DEFINE p == ckpt.core.lastProduced
    <3> HIDE DEF p
    <3>2. \A b \in m.inserts : p < b.first
      BY <3>1 DEF p
    <3>3. \A l \in UnderWay(m) : l.kind = "insert" => p < l.first
      BY <3>2, UnderWayAfter
    <3> QED BY <3>1, <3>3 DEF p
  <2>2. CASE m.phase = "loading"
    <3>1. m.inserts = {} /\ m.flush = None /\ m.cleanup = None
      BY <1>2, <2>2 DEF ProcOK, Loading, Off
    <3>2. UnderWay(m) = {}
      BY <3>1 DEF UnderWay
    <3> QED BY <3>2
  <2> QED BY <2>1, <2>2 DEF Built
<1>4. CkptOK'
  <2>1. ckpt = None => UnderWay(m) = {}
    <3>1. CASE Built(m)
      BY <3>1, ActorSound
    <3>2. CASE m.phase = "loading"
      <4>1. m.inserts = {} /\ m.flush = None /\ m.cleanup = None
        BY <1>2, <3>2 DEF ProcOK, Loading, Off
      <4> QED BY <4>1 DEF UnderWay
    <3> QED BY <3>1, <3>2 DEF Built
  <2> QED BY <1>1, <1>2, <2>1 DEF CkptOK
<1>5. task' = "completed" => ckpt' # None /\ Whole(ckpt'.core)
  BY <1>2 DEF EndOK
<1>6. \A l \in late' : l.kind = "insert" => ckpt' # None /\ ckpt'.core.lastProduced < l.first
  BY <1>1, <1>3
<1> QED BY <1>1, <1>4, <1>5, <1>6, StepDropped

\* Every step of leaving the role keeps the invariant.
LEMMA StopSafe ==
  ASSUME RecoveryInv, TypeInv', NEW s \in Samplers, Stop(s)
  PROVE  RecoveryInv'
<1> DEFINE m == mem[s]
<1>1. CASE Crash(s)
  BY <1>1, DropSafe DEF Crash
<1>2. CASE InsertFailed(s)
  BY <1>2, DropSafe DEF InsertFailed
<1>a. ASSUME Built(m)
      PROVE  /\ m \in Memory /\ Counted(m) /\ Sound(rows, ckpt, nextId, m) /\ m.phase # "off"
             /\ m.core \in Core /\ m.local \in Nat /\ m.inserts \subseteq Insert /\ ckpt # None /\ late = {}
             /\ (task = "completed" => Whole(m.core) /\ Whole(ckpt.core))
             /\ Queue(rows, ckpt, nextId, m.core, m.local, m.inserts) /\ m.ready = {}
             /\ FetchOK(rows, nextId, m.core, m.inserts, m.fetch) /\ TickOK(rows, m) /\ StopOK(ckpt, m) /\ CleanupOK(m)
             /\ m.phase # "running" => m.tick = None
  BY <1>a, ActorSound DEF Sound, TickOK
<1>b. TypeInv /\ CkptOK
  BY DEF RecoveryInv
<1>c. ASSUME NEW w, Built(m), mem' = [mem EXCEPT ![s] = w], Built(w), Sound(rows, ckpt, nextId, w),
             w.core = m.core, UNCHANGED <<rows, ckpt, nextId, late, task>>
      PROVE  RecoveryInv'
  BY <1>a, <1>c, StepQuiet
<1>3. CASE BeginStop(s)
  <2> DEFINE w == [m EXCEPT !.phase = "stopping"]
  <2>1. /\ m.phase = "running" /\ m.tick = None /\ mem' = [mem EXCEPT ![s] = w] /\ Built(m)
        /\ UNCHANGED <<rows, ckpt, nextId, late, task>>
    BY <1>3 DEF BeginStop, Built
  <2>2. /\ w.core = m.core /\ w.local = m.local /\ w.inserts = m.inserts /\ w.fetch = m.fetch
        /\ w.ready = m.ready /\ w.tick = m.tick /\ w.cleanup = m.cleanup /\ w.phase = "stopping" /\ w.leaving = m.leaving
    BY <1>a, <2>1 DEF Memory
  <2> HIDE DEF w
  <2>3. Sound(rows, ckpt, nextId, w)
    BY <1>a, <2>1, <2>2 DEF Sound, TickOK, StopOK, CleanupOK
  <2> QED BY <1>c, <2>1, <2>2, <2>3 DEF Built
<1>4. CASE StopFlush(s)
  <2> DEFINE w == [m EXCEPT !.inserts = Unanswered(m)]
  <2>1. /\ m.phase = "stopping" /\ mem' = [mem EXCEPT ![s] = w] /\ Built(m) /\ m.tick = None
        /\ UNCHANGED <<rows, ckpt, nextId, late, task>> /\ ~InsertError(m)
    BY <1>4, <1>a DEF StopFlush, Built
  <2>2. /\ w.core = m.core /\ w.local = m.local /\ w.inserts = Unanswered(m) /\ w.fetch = m.fetch
        /\ w.ready = m.ready /\ w.tick = m.tick /\ w.cleanup = m.cleanup /\ w.phase = "stopping" /\ w.leaving = m.leaving
    BY <1>a, <2>1 DEF Memory
  <2> HIDE DEF w
  <2>3. Queue(rows, ckpt, nextId, m.core, m.local, Unanswered(m))
    <3>1. \A b \in m.inserts : b.state # "error"
      BY <2>1 DEF InsertError
    <3> QED BY <1>a, <2>1, <3>1, QueueAnswered DEF Unanswered
  <2>4. FetchOK(rows, nextId, m.core, Unanswered(m), m.fetch)
    BY <1>a, <2>1 DEF FetchOK, Segment, Unanswered
  <2>5. Sound(rows, ckpt, nextId, w)
    BY <1>a, <2>1, <2>2, <2>3, <2>4 DEF Sound, TickOK, StopOK, CleanupOK
  <2> QED BY <1>c, <2>1, <2>2, <2>5 DEF Built
<1>5. CASE DrainLocal(s)
  <2> DEFINE G == NowReady(m)
             core == Merged(m.core, G)
             unflushed == m.unflushed + Cardinality(G)
  <2>1. PICK c \in CleanupChoices(m.cleanup, core) :
          mem' = [mem EXCEPT ![s] = [m EXCEPT !.core = core, !.ready = {}, !.fetch = None, !.cleanup = c,
                                              !.unflushed = @ + Cardinality(G)]]
    BY <1>5 DEF DrainLocal
  <2> DEFINE w == [m EXCEPT !.core = core, !.ready = {}, !.fetch = None, !.cleanup = c, !.unflushed = unflushed]
  <2>2. /\ m.phase = "stopping" /\ mem' = [mem EXCEPT ![s] = w] /\ Built(m) /\ m.tick = None
        /\ UNCHANGED <<rows, ckpt, nextId, late, task>> /\ G # {}
    BY <1>5, <1>a, <2>1 DEF DrainLocal, Flushed, Built
  <2>3. /\ w.core = core /\ w.local = m.local /\ w.inserts = m.inserts /\ w.fetch = None
        /\ w.ready = {} /\ w.tick = m.tick /\ w.cleanup = c /\ w.phase = "stopping" /\ w.leaving = m.leaving
    BY <1>a, <2>2 DEF Memory
  <2>4. G \subseteq Completed /\ Segment(rows, m.core, m.inserts, G)
    <3>1. G \subseteq Completed
      BY <1>a, <2>2, NowReadyTyped
    <3>2. m.ready = {} /\ FetchOK(rows, nextId, m.core, m.inserts, m.fetch)
      BY <1>a, <2>2
    <3>3. G = IF m.fetch = None THEN {} ELSE m.fetch.got
      BY <3>2 DEF NowReady
    <3>4. m.fetch # None
      BY <2>2, <3>3
    <3> QED BY <3>1, <3>2, <3>3, <3>4 DEF FetchOK
  <2> HIDE DEF G
  <2>5. ~Whole(m.core)
    BY <1>a, <2>2, <2>4, WholeStays
  <2>6. /\ Queue(rows, ckpt, nextId, core, m.local, m.inserts)
        /\ m.core.lastCompleted <= core.lastCompleted /\ core \in Core
    BY <1>a, <2>2, <2>4, QueueMerged, MergedTyped
  <2>7. CleanupOK(w)
    <3>1. c # None => c.upTo = core.lastCompleted \/ c = m.cleanup
      BY <1>a, <2>2, <2>6, CleanupChoicesTyped DEF Memory
    <3>2. core.lastCompleted \in Nat /\ m.core.lastCompleted \in Nat /\ (m.cleanup # None => m.cleanup.upTo \in Nat)
      BY <1>a, <2>2, <2>6, SamplerAssumption DEF Memory, Core, Cleanups, Ids
    <3> QED BY <1>a, <2>2, <2>3, <2>6, <3>1, <3>2 DEF CleanupOK
  <2> HIDE DEF w, core
  <2>8. Sound(rows, ckpt, nextId, w)
    BY <1>a, <2>2, <2>3, <2>5, <2>6, <2>7 DEF Sound, TickOK, StopOK, FetchOK
  <2> QED BY <1>a, <2>2, <2>3, <2>5, <2>8, StepQuiet DEF Built
<1>6. CASE FinishMaintenance(s)
  <2> DEFINE w == [m EXCEPT !.phase = "publishing", !.fetch = None, !.cleanup = None]
  <2>1. /\ m.phase = "stopping" /\ mem' = [mem EXCEPT ![s] = w] /\ Built(m) /\ m.tick = None
        /\ UNCHANGED <<rows, ckpt, nextId, late, task>> /\ m.local = 0 /\ m.inserts = {}
    BY <1>6, <1>a DEF FinishMaintenance, Flushed, Built
  <2>2. /\ w.core = m.core /\ w.local = m.local /\ w.inserts = m.inserts /\ w.fetch = None
        /\ w.ready = m.ready /\ w.tick = m.tick /\ w.cleanup = None /\ w.phase = "publishing" /\ w.leaving = m.leaving
    BY <1>a, <2>1 DEF Memory
  <2> HIDE DEF w
  <2>3. Sound(rows, ckpt, nextId, w)
    BY <1>a, <2>1, <2>2 DEF Sound, TickOK, StopOK, CleanupOK, FetchOK
  <2> QED BY <1>c, <2>1, <2>2, <2>3 DEF Built
<1>7. CASE ForceFlush(s)
  <2> DEFINE w == [m EXCEPT !.phase = "saving", !.flush = None, !.unflushed = 0]
  <2>1. /\ m.phase = "publishing" /\ mem' = [mem EXCEPT ![s] = w] /\ Built(m) /\ m.tick = None
        /\ UNCHANGED <<rows, ckpt, nextId, late, task>>
    BY <1>7, <1>a DEF ForceFlush, Built
  <2>2. /\ w.core = m.core /\ w.local = m.local /\ w.inserts = m.inserts /\ w.fetch = m.fetch
        /\ w.ready = m.ready /\ w.tick = m.tick /\ w.cleanup = m.cleanup /\ w.phase = "saving" /\ w.leaving = m.leaving
    BY <1>a, <2>1 DEF Memory
  <2> HIDE DEF w
  <2>3. Sound(rows, ckpt, nextId, w)
    BY <1>a, <2>1, <2>2 DEF Sound, TickOK, StopOK, CleanupOK
  <2> QED BY <1>c, <2>1, <2>2, <2>3 DEF Built
<1>8. CASE SaveCheckpoint(s)
  <2> DEFINE w == [m EXCEPT !.phase = "saved"]
  <2>1. /\ m.phase = "saving" /\ mem' = [mem EXCEPT ![s] = w] /\ Built(m) /\ m.tick = None
        /\ UNCHANGED <<rows, nextId, late, task>> /\ ckpt' = [core |-> m.core, batches |-> batches]
    BY <1>8, <1>a DEF SaveCheckpoint, Built
  <2>2. /\ w.core = m.core /\ w.local = m.local /\ w.inserts = m.inserts /\ w.fetch = m.fetch
        /\ w.ready = m.ready /\ w.tick = m.tick /\ w.cleanup = m.cleanup /\ w.phase = "saved" /\ w.leaving = m.leaving
    BY <1>a, <2>1 DEF Memory
  <2>3. ckpt'.core = m.core
    BY <2>1
  <2>4. /\ CkptOK' /\ ckpt' # None /\ (task = "completed" => Whole(ckpt'.core))
        /\ Queue(rows', ckpt', nextId', m.core, m.local, m.inserts)
    BY <2>1, SavedOK
  <2> HIDE DEF w
  <2>5. Sound(rows', ckpt', nextId', w)
    BY <1>a, <2>1, <2>2, <2>3, <2>4 DEF Sound, TickOK, StopOK, CleanupOK
  <2> QED BY <1>a, <2>1, <2>2, <2>4, <2>5, StepActed DEF Built
<1>d. ASSUME m.phase = "saved", Cleanup(m.core.lastCompleted), UNCHANGED <<ckpt, nextId>>
      PROVE  /\ Backlog(rows', ckpt.core, {}, ckpt.core.produced)
             /\ Sound(rows', ckpt, nextId, m)
  <2>1. Built(m)
    BY <1>d DEF Built
  <2>2. m.core.lastCompleted \in Nat /\ m.core.lastCompleted <= m.core.lastCompleted
    BY <1>a, <2>1, SamplerAssumption DEF Core
  <2>3. /\ AgreeOn(rows, rows', m.core) /\ \A i \in Ids : Has(rows', i) => Has(rows, i)
        /\ AgreeOn(rows, rows', ckpt.core)
    BY <1>a, <1>b, <1>d, <2>1, <2>2, CleanupKeeps
  <2>4. Backlog(rows', ckpt.core, {}, ckpt.core.produced)
    BY <1>a, <1>b, <2>1, <2>3, CkptKept
  <2>5. Sound(rows', ckpt, nextId, m)
    BY <1>a, <2>1, <2>3, SoundKept
  <2> QED BY <2>4, <2>5
<1>9. CASE Retire(s)
  <2>1. /\ m.phase = "saved" /\ Cleanup(m.core.lastCompleted) /\ Drop(s) /\ UNCHANGED <<ckpt, nextId>> /\ Built(m)
        /\ task' = IF m.leaving = "complete" /\ task = "active" THEN "completed" ELSE task
    BY <1>9 DEF Retire, Built
  <2>2. Backlog(rows', ckpt.core, {}, ckpt.core.produced)
    BY <1>d, <2>1
  <2>3. CkptOK'
    BY <1>a, <1>b, <2>1, <2>2 DEF CkptOK
  <2>4. task' = "completed" => Whole(ckpt'.core)
    BY <1>a, <2>1 DEF StopOK
  <2>5. mem' = [mem EXCEPT ![s] = Off] /\ late' = UnderWay(m)
    BY <1>a, <2>1 DEF Drop
  <2>6. \A l \in UnderWay(m) : l.kind # "insert"
    <3>1. m.inserts = {}
      BY <1>a, <2>1 DEF StopOK
    <3>2. {[kind |-> "insert", first |-> b.first, draw |-> b.draw, n |-> b.n] :
             b \in {c \in m.inserts : c.state = "sent"}} = {}
      BY <3>1
    <3> QED BY <3>2 DEF UnderWay
  <2> QED BY <1>a, <2>1, <2>3, <2>4, <2>5, <2>6, StepDropped
<1>10. CASE StopError(s)
  <2>1. /\ m.phase = "stopping" /\ UNCHANGED <<rows, ckpt, nextId, task>> /\ Built(m) /\ m.tick = None
    BY <1>10, <1>a DEF StopError, Built
  <2>2. CkptOK'
    <3>1. ckpt' # None
      BY <1>a, <2>1
    <3> QED BY <1>b, <2>1, <3>1 DEF CkptOK
  <2>3. PICK w \in {m, [m EXCEPT !.fetch = None], [m EXCEPT !.fetch = None, !.cleanup = None]} : GiveUp(s, w)
    BY <1>10 DEF StopError
  <2>4. /\ w \in Memory /\ w.core = m.core /\ w.local = m.local /\ w.inserts = m.inserts /\ w.ready = {}
        /\ w.tick = None /\ w.fetch \in {m.fetch, None} /\ w.cleanup \in {m.cleanup, None}
    BY <1>a, <2>1 DEF Memory
  <2>5. /\ Queue(rows', ckpt', nextId', w.core, w.local, w.inserts)
        /\ FetchOK(rows', nextId', w.core, w.inserts, m.fetch)
        /\ task' = "completed" => Whole(ckpt'.core) /\ Whole(w.core)
    BY <1>a, <2>1, <2>4
  <2> QED BY <2>1, <2>2, <2>3, <2>4, <2>5, GiveUpSafe
<1>11. CASE PublishError(s)
  <2> DEFINE rest == m.unflushed - (IF m.flush = None THEN 0 ELSE m.flush.n)
  <2>1. /\ m.phase = "publishing" /\ UNCHANGED <<rows, ckpt, nextId, task>> /\ Built(m) /\ m.tick = None
    BY <1>11, <1>a DEF PublishError, Built
  <2>2. CkptOK'
    <3>1. ckpt' # None
      BY <1>a, <2>1
    <3> QED BY <1>b, <2>1, <3>1 DEF CkptOK
  <2>3. rest \in Nat
    <3>1. m.unflushed \in Nat /\ (m.flush # None => m.flush.n \in Nat /\ m.flush.n <= m.unflushed)
      BY <1>a, <2>1 DEF Memory, Counted, Flushes
    <3> QED BY <3>1
  <2>4. PICK w \in {[m EXCEPT !.flush = None], [m EXCEPT !.flush = None, !.unflushed = rest]} : GiveUp(s, w)
    BY <1>11 DEF PublishError
  <2> HIDE DEF rest
  <2>5. /\ w \in Memory /\ w.core = m.core /\ w.local = m.local /\ w.inserts = m.inserts /\ w.ready = {}
        /\ w.tick = None /\ w.fetch \in {m.fetch, None} /\ w.cleanup \in {m.cleanup, None}
    BY <1>a, <2>1, <2>3 DEF Memory
  <2>6. /\ Queue(rows', ckpt', nextId', w.core, w.local, w.inserts)
        /\ FetchOK(rows', nextId', w.core, w.inserts, m.fetch)
        /\ task' = "completed" => Whole(ckpt'.core) /\ Whole(w.core)
    BY <1>a, <2>1, <2>5
  <2> QED BY <2>1, <2>2, <2>4, <2>5, <2>6, GiveUpSafe
<1>e. ASSUME GiveUp(s, m), Built(m), m.tick = None, CkptOK',
             Queue(rows', ckpt', nextId', m.core, m.local, m.inserts),
             FetchOK(rows', nextId', m.core, m.inserts, m.fetch),
             task' = "completed" => Whole(ckpt'.core) /\ Whole(m.core)
      PROVE  RecoveryInv'
  BY <1>a, <1>e, GiveUpSafe
<1>12. CASE SaveError(s)
  <2>1. /\ m.phase = "saving" /\ GiveUp(s, m) /\ Built(m) /\ m.tick = None /\ UNCHANGED <<rows, nextId, task>>
        /\ ckpt' \in {ckpt, [core |-> m.core, batches |-> batches]}
    BY <1>12, <1>a DEF SaveError, Built
  <2>2. /\ CkptOK' /\ (task = "completed" => Whole(ckpt'.core))
        /\ Queue(rows', ckpt', nextId', m.core, m.local, m.inserts)
    BY <2>1, SavedOK
  <2>3. FetchOK(rows', nextId', m.core, m.inserts, m.fetch)
    BY <1>a, <2>1
  <2>4. task' = "completed" => Whole(ckpt'.core) /\ Whole(m.core)
    BY <1>a, <2>1, <2>2
  <2> QED BY <1>e, <2>1, <2>2, <2>3, <2>4
<1>13. CASE RetireError(s)
  <2>1. /\ m.phase = "saved" /\ GiveUp(s, m) /\ Built(m) /\ m.tick = None /\ UNCHANGED <<ckpt, nextId>>
        /\ Cleanup(m.core.lastCompleted)
        /\ task' \in {task} \cup (IF m.leaving = "complete" /\ task = "active" THEN {"completed"} ELSE {})
    BY <1>13, <1>a DEF RetireError, Built
  <2>2. Backlog(rows', ckpt.core, {}, ckpt.core.produced) /\ Sound(rows', ckpt, nextId, m)
    BY <1>d, <2>1
  <2>3. CkptOK'
    BY <1>a, <1>b, <2>1, <2>2 DEF CkptOK
  <2>4. task' = "completed" => Whole(ckpt'.core) /\ Whole(m.core)
    BY <1>a, <2>1 DEF StopOK
  <2> QED BY <1>e, <2>1, <2>2, <2>3, <2>4 DEF Sound
<1> QED BY <1>1, <1>2, <1>3, <1>4, <1>5, <1>6, <1>7, <1>8, <1>9, <1>10, <1>11, <1>12, <1>13 DEF Stop

\* Only a built process has anything under way.
LEMMA OnlyBuiltActs ==
  ASSUME RecoveryInv, NEW s \in Samplers, ~Built(mem[s])
  PROVE  mem[s].inserts = {} /\ mem[s].fetch = None /\ mem[s].cleanup = None /\ mem[s].flush = None
<1>1. ProcOK(rows, ckpt, nextId, mem[s])
  BY DEF RecoveryInv, ProcsOK
<1>2. mem[s] = Off \/ mem[s] = Loading(ckpt)
  BY <1>1 DEF ProcOK, Built
<1>3. CASE mem[s] = Off
  BY <1>3 DEF Off
<1>4. CASE mem[s] = Loading(ckpt)
  BY <1>4 DEF Loading, Off
<1> QED BY <1>2, <1>3, <1>4

\* An insert is answered, its rows committed or not.
LEMMA AnsweredSafe ==
  ASSUME RecoveryInv, TypeInv', NEW s \in Samplers, NEW b \in mem[s].inserts, NEW st \in {"ok", "error"},
         rows' = Inserted(b) \/ (rows' = rows /\ st = "error"),
         mem' = [mem EXCEPT ![s].inserts = (@ \ {b}) \cup {[b EXCEPT !.state = st]}],
         UNCHANGED <<ckpt, task, nextId, late>>
  PROVE  RecoveryInv'
<1> DEFINE m == mem[s]
           J == (m.inserts \ {b}) \cup {[b EXCEPT !.state = st]}
           w == [m EXCEPT !.inserts = J]
<1>1. Built(m)
  BY OnlyBuiltActs
<1>2. /\ m \in Memory /\ Counted(m) /\ Sound(rows, ckpt, nextId, m) /\ m.phase # "off"
      /\ m.core \in Core /\ m.local \in Nat /\ m.inserts \subseteq Insert /\ ckpt # None /\ late = {}
      /\ ckpt.core \in Core /\ (task = "completed" => Whole(m.core) /\ Whole(ckpt.core))
  BY <1>1, ActorSound
<1>3. /\ Queue(rows, ckpt, nextId, m.core, m.local, m.inserts) /\ m.ready = {}
      /\ FetchOK(rows, nextId, m.core, m.inserts, m.fetch) /\ TickOK(rows, m) /\ StopOK(ckpt, m) /\ CleanupOK(m)
  BY <1>2 DEF Sound
<1>4. TypeInv /\ CkptOK /\ RowsOK /\ b \in Insert /\ (\A c \in m.inserts : Fits(c)) /\ b \in m.inserts
  BY <1>2 DEF RecoveryInv, TypeInv, Counted
<1>5. \A i \in Ids : i \notin IdsOf(b) => rows'[i] = rows[i]
  BY DEF Inserted
<1>6. \/ rows' = rows /\ st = "error"
      \/ \A i \in Ids : IF i \in IdsOf(b) THEN Has(rows', i) /\ rows'[i].draw = b.draw + (i - b.first)
                                          ELSE rows'[i] = rows[i]
  BY DEF Inserted, Has
<1>7. \A i \in Ids : Has(rows, i) => rows[i].draw \in Draws
  BY <1>4 DEF RowsOK, Has
<1>8. mem' = [mem EXCEPT ![s] = w]
  OBVIOUS
<1>9. /\ w.core = m.core /\ w.local = m.local /\ w.inserts = J /\ w.fetch = m.fetch
      /\ w.ready = m.ready /\ w.tick = m.tick /\ w.cleanup = m.cleanup /\ w.phase = m.phase /\ w.leaving = m.leaving
  BY <1>2 DEF Memory
<1>10. [b EXCEPT !.state = st].first = b.first
  BY <1>4 DEF Insert
<1>11. J = (m.inserts \ {b}) \cup {[b EXCEPT !.state = st]}
  OBVIOUS
<1> HIDE DEF J, w
<1>12. Queue(rows', ckpt, nextId, m.core, m.local, J)
  BY <1>2, <1>3, <1>4, <1>6, <1>7, <1>11, QueueCommit
<1>13. ASSUME NEW G, G \subseteq Completed, Segment(rows, m.core, m.inserts, G)
       PROVE  Segment(rows', m.core, J, G)
  <2>1. \A c \in J : \E a \in m.inserts : c.first = a.first
    BY <1>4, <1>10, <1>11
  <2> QED BY <1>2, <1>4, <1>5, <1>13, <2>1, SegmentCommit
<1>14. FetchOK(rows', nextId, m.core, J, m.fetch)
  <2>1. m.fetch # None => m.fetch.got \subseteq Completed
    BY <1>2 DEF Memory, Fetch
  <2>2. m.fetch # None => \A c \in J : m.fetch.before <= c.first
    BY <1>3, <1>4, <1>10, <1>11 DEF FetchOK
  <2> QED BY <1>3, <1>13, <2>1, <2>2 DEF FetchOK
<1>15. TickOK(rows', w)
  <2>1. m.tick # None => m.tick.batches \subseteq Completed
    BY <1>2 DEF Memory, TickType
  <2> QED BY <1>3, <1>9, <1>13, <2>1 DEF TickOK
<1>16. m.phase \notin {"publishing", "saving", "saved"}
  BY <1>3, <1>4 DEF StopOK
<1>17. Sound(rows', ckpt', nextId', w)
  BY <1>3, <1>9, <1>12, <1>14, <1>15, <1>16 DEF Sound, StopOK, CleanupOK
<1>18. AgreeOn(rows, rows', ckpt.core)
  <2>1. ckpt.core.lastProduced < b.first /\ ckpt.core.lastProduced \in Nat /\ b.first \in Nat
    BY <1>2, <1>3, <1>4, SamplerAssumption DEF Queue, InsertOK, Core, Insert, Ids
  <2>2. ASSUME NEW i \in Ids, i <= ckpt.core.lastProduced PROVE rows'[i] = rows[i]
    <3>1. i \notin IdsOf(b)
      BY <2>1, <2>2 DEF IdsOf, Ids
    <3> QED BY <1>5, <3>1
  <2> QED BY <2>2 DEF AgreeOn, Has
<1>19. Backlog(rows', ckpt.core, {}, ckpt.core.produced)
  BY <1>2, <1>4, <1>18, CkptKept
<1>20. CkptOK'
  BY <1>2, <1>4, <1>19 DEF CkptOK
<1> QED BY <1>1, <1>2, <1>8, <1>9, <1>17, <1>20, StepActed DEF Built

\* Inserts, fetches, cleanups and flushes that the database executes keep the invariant.
LEMMA DatabaseSafe ==
  ASSUME RecoveryInv, TypeInv', NEW s \in Samplers, Database(s)
  PROVE  RecoveryInv'
<1> DEFINE m == mem[s]
<1>a. ASSUME Built(m)
      PROVE  /\ m \in Memory /\ Counted(m) /\ Sound(rows, ckpt, nextId, m) /\ m.phase # "off"
             /\ m.core \in Core /\ m.inserts \subseteq Insert /\ ckpt # None /\ late = {}
             /\ (task = "completed" => Whole(m.core) /\ Whole(ckpt.core))
             /\ Queue(rows, ckpt, nextId, m.core, m.local, m.inserts) /\ m.ready = {}
             /\ FetchOK(rows, nextId, m.core, m.inserts, m.fetch) /\ TickOK(rows, m) /\ StopOK(ckpt, m) /\ CleanupOK(m)
  BY <1>a, ActorSound DEF Sound
<1>b. TypeInv /\ CkptOK
  BY DEF RecoveryInv
<1>c. (m.fetch # None \/ m.cleanup # None \/ m.flush # None) => Built(m)
  BY OnlyBuiltActs
<1>1. ASSUME NEW b \in m.inserts, CommitInsert(s, b) PROVE RecoveryInv'
  BY <1>1, AnsweredSafe DEF CommitInsert
<1>2. ASSUME NEW b \in m.inserts, FailInsert(s, b) PROVE RecoveryInv'
  BY <1>2, AnsweredSafe DEF FailInsert
<1>3. CASE RunFetch(s)
  <2> DEFINE f == m.fetch
             G == {[id |-> i, draw |-> rows[i].draw] : i \in CompletedPrefix(f)}
             done == [f EXCEPT !.state = "done", !.got = G]
             error == [f EXCEPT !.state = "error"]
  <2>1. /\ f # None /\ f.state = "sent" /\ UNCHANGED <<rows, ckpt, task, nextId, late>> /\ Built(m)
        /\ mem' = [mem EXCEPT ![s].fetch = done] \/ mem' = [mem EXCEPT ![s].fetch = error]
    BY <1>3, <1>c DEF RunFetch
  <2>2. f \in Fetch
    BY <1>a, <2>1 DEF Memory
  <2>3. /\ f.after = m.core.lastCompleted /\ f.before <= nextId /\ f.got = {}
        /\ \A b \in m.inserts : f.before <= b.first
    BY <1>a, <2>1 DEF FetchOK
  <2>4. Segment(rows, m.core, m.inserts, G)
    BY <1>a, <2>1, <2>2, <2>3, SegmentFetched
  <2>5. FetchOK(rows, nextId, m.core, m.inserts, done)
    <3>1. done.after = f.after /\ done.before = f.before /\ done.state = "done" /\ done.got = G
      BY <2>2 DEF Fetch
    <3> HIDE DEF done, G
    <3> QED BY <2>3, <2>4, <3>1 DEF FetchOK
  <2>6. FetchOK(rows, nextId, m.core, m.inserts, error)
    <3>1. error.after = f.after /\ error.before = f.before /\ error.state = "error" /\ error.got = {}
      BY <2>2, <2>3 DEF Fetch
    <3> HIDE DEF error
    <3> QED BY <2>3, <3>1 DEF FetchOK, Segment
  <2> HIDE DEF done, error
  <2>7. PICK g \in {done, error} : mem' = [mem EXCEPT ![s].fetch = g]
    BY <2>1
  <2>8. FetchOK(rows, nextId, m.core, m.inserts, g)
    BY <2>5, <2>6
  <2> DEFINE w == [m EXCEPT !.fetch = g]
  <2>9. /\ w.core = m.core /\ w.local = m.local /\ w.inserts = m.inserts /\ w.fetch = g
        /\ w.ready = m.ready /\ w.tick = m.tick /\ w.cleanup = m.cleanup /\ w.phase = m.phase /\ w.leaving = m.leaving
        /\ mem' = [mem EXCEPT ![s] = w]
    BY <1>a, <2>1, <2>7 DEF Memory
  <2> HIDE DEF w
  <2>10. TickOK(rows, w)
    BY <1>a, <2>1, <2>9 DEF TickOK
  <2>11. Sound(rows, ckpt, nextId, w)
    BY <1>a, <2>1, <2>8, <2>9, <2>10 DEF Sound, StopOK, CleanupOK
  <2> QED BY <1>a, <2>1, <2>9, <2>11, StepQuiet DEF Built
<1>d. ASSUME Built(m), NEW w, mem' = [mem EXCEPT ![s] = w], w.core = m.core, w.local = m.local,
             w.inserts = m.inserts, w.fetch = m.fetch, w.ready = m.ready, w.tick = m.tick,
             w.phase = m.phase, w.leaving = m.leaving, w.cleanup = m.cleanup \/ CleanupOK(w),
             Sound(rows', ckpt, nextId, m), Backlog(rows', ckpt.core, {}, ckpt.core.produced),
             UNCHANGED <<ckpt, task, nextId, late>>
      PROVE  RecoveryInv'
  <2>1. Sound(rows', ckpt', nextId', w)
    BY <1>d DEF Sound, TickOK, StopOK, CleanupOK
  <2>2. CkptOK'
    BY <1>a, <1>b, <1>d DEF CkptOK
  <2> QED BY <1>a, <1>d, <2>1, <2>2, StepActed DEF Built
<1>4. CASE RunCleanup(s)
  <2> DEFINE c == m.cleanup
  <2>1. /\ c # None /\ UNCHANGED <<ckpt, task, nextId, late>> /\ Built(m)
        /\ Cleanup(c.upTo) \/ UNCHANGED rows
    BY <1>4, <1>c DEF RunCleanup
  <2>2. PICK g \in {[c EXCEPT !.state = "ok"], [c EXCEPT !.state = "error"]} : mem' = [mem EXCEPT ![s].cleanup = g]
    BY <1>4 DEF RunCleanup
  <2>3. g.upTo = c.upTo /\ c.upTo \in Nat /\ c.upTo <= m.core.lastCompleted
    BY <1>a, <2>1, <2>2, SamplerAssumption DEF Memory, Cleanups, CleanupOK, Ids
  <2>4. Sound(rows', ckpt, nextId, m) /\ Backlog(rows', ckpt.core, {}, ckpt.core.produced)
    <3>1. CASE Cleanup(c.upTo)
      <4>1. /\ \A i \in Ids : Has(rows', i) => Has(rows, i)
            /\ AgreeOn(rows, rows', m.core) /\ AgreeOn(rows, rows', ckpt.core)
        BY <1>a, <1>b, <2>1, <2>3, <3>1, CleanupKeeps
      <4> QED BY <1>a, <1>b, <2>1, <4>1, SoundKept, CkptKept
    <3>2. CASE UNCHANGED rows
      BY <1>a, <1>b, <2>1, <3>2 DEF CkptOK
    <3> QED BY <2>1, <3>1, <3>2
  <2> DEFINE w == [m EXCEPT !.cleanup = g]
  <2>5. /\ w.core = m.core /\ w.local = m.local /\ w.inserts = m.inserts /\ w.fetch = m.fetch
        /\ w.ready = m.ready /\ w.tick = m.tick /\ w.cleanup = g /\ w.phase = m.phase /\ w.leaving = m.leaving
        /\ mem' = [mem EXCEPT ![s] = w]
    BY <1>a, <2>1, <2>2 DEF Memory
  <2> HIDE DEF w, c
  <2>6. CleanupOK(w)
    BY <2>3, <2>5 DEF CleanupOK
  <2> QED BY <1>d, <2>1, <2>4, <2>5, <2>6
<1>5. CASE RunFlush(s)
  <2> DEFINE f == m.flush
  <2>1. UNCHANGED <<rows, ckpt, task, nextId, late>> /\ Built(m)
    BY <1>5, <1>c DEF RunFlush
  <2>2. PICK g \in {[f EXCEPT !.state = "ok"], [f EXCEPT !.state = "error"]} : mem' = [mem EXCEPT ![s].flush = g]
    BY <1>5 DEF RunFlush
  <2> HIDE DEF f
  <2> DEFINE w == [m EXCEPT !.flush = g]
  <2>3. /\ w.core = m.core /\ w.local = m.local /\ w.inserts = m.inserts /\ w.fetch = m.fetch
        /\ w.ready = m.ready /\ w.tick = m.tick /\ w.cleanup = m.cleanup /\ w.phase = m.phase /\ w.leaving = m.leaving
        /\ mem' = [mem EXCEPT ![s] = w]
    BY <1>a, <2>1, <2>2 DEF Memory
  <2>4. Sound(rows', ckpt, nextId, m) /\ Backlog(rows', ckpt.core, {}, ckpt.core.produced)
    BY <1>a, <1>b, <2>1 DEF CkptOK
  <2> HIDE DEF w
  <2> QED BY <1>d, <2>1, <2>3, <2>4
<1> QED BY <1>1, <1>2, <1>3, <1>4, <1>5 DEF Database

\* A late statement touches nothing that the checkpoint needs.
LEMMA LateStatementSafe ==
  ASSUME RecoveryInv, TypeInv', NEW l \in late, LateStatement(l)
  PROVE  RecoveryInv'
<1>1. /\ UNCHANGED <<ckpt, task, nextId, mem>> /\ late' \subseteq late
      /\ \/ UNCHANGED rows
         \/ l.kind = "insert" /\ rows' = Inserted(l)
         \/ l.kind = "cleanup" /\ Cleanup(l.upTo)
  BY DEF LateStatement
<1>2. TypeInv /\ CkptOK /\ LateAfter /\ EndOK /\ ckpt # None /\ \A s \in Samplers : mem[s] = Off
  BY DEF RecoveryInv, CkptOK, Alone, ProcsOK, ProcOK
<1>3. AgreeOn(rows, rows', ckpt.core)
  <2>1. CASE UNCHANGED rows
    BY <2>1 DEF AgreeOn, Has
  <2>2. CASE l.kind = "insert" /\ rows' = Inserted(l)
    <3>1. ckpt.core.lastProduced < l.first /\ ckpt.core.lastProduced \in Nat /\ l.first \in Nat
      BY <1>2, <2>2, SamplerAssumption
      DEF LateAfter, TypeInv, LateOK, LateInsert, LateFlush, LateCleanup, Ids, CkptTypeOK, Ckpt, Core
    <3>2. ASSUME NEW i \in Ids, i <= ckpt.core.lastProduced PROVE rows'[i] = rows[i]
      <4>1. i \notin IdsOf(l)
        BY <3>1, <3>2 DEF IdsOf, Ids
      <4> QED BY <2>2, <4>1 DEF Inserted
    <3> QED BY <3>2 DEF AgreeOn, Has
  <2>3. CASE l.kind = "cleanup" /\ Cleanup(l.upTo)
    <3>1. l.upTo \in Nat
      BY <1>2, <2>3 DEF TypeInv, LateOK, LateInsert, LateFlush, LateCleanup, Ids
    <3> QED BY <1>2, <2>3, <3>1, CleanupKeeps
  <2> QED BY <1>1, <2>1, <2>2, <2>3
<1>4. Backlog(rows', ckpt.core, {}, ckpt.core.produced)
  BY <1>2, <1>3, CkptKept
<1>5. CkptOK'
  BY <1>1, <1>2, <1>4 DEF CkptOK
<1>6. ProcsOK'
  BY <1>1, <1>2, OffOK DEF ProcsOK
<1>7. Alone' /\ LateAfter' /\ EndOK'
  BY <1>1, <1>2 DEF Alone, LateAfter, EndOK, Off
<1> QED BY <1>5, <1>6, <1>7 DEF RecoveryInv

\* An evaluated batch keeps its id and its draw.
LEMMA EvaluateBatchSafe ==
  ASSUME RecoveryInv, TypeInv', NEW i \in Ids, EvaluateBatch(i)
  PROVE  RecoveryInv'
<1>1. /\ rows[i].status = "pending" /\ rows' = [rows EXCEPT ![i].status = "completed"]
      /\ UNCHANGED <<ckpt, task, nextId, mem, late>>
  BY DEF EvaluateBatch
<1>2. TypeInv /\ Alone /\ ProcsOK /\ CkptOK /\ LateAfter /\ EndOK
  BY DEF RecoveryInv
<1>3. \A j \in Ids : (Has(rows', j) <=> Has(rows, j)) /\ rows'[j].draw = rows[j].draw
  BY <1>1, <1>2 DEF TypeInv, RowsOK, Has
<1>4. \A core : AgreeOn(rows, rows', core)
  BY <1>3 DEF AgreeOn
<1>5. ASSUME NEW s \in Samplers PROVE ProcOK(rows', ckpt', nextId', mem'[s])
  <2>1. mem[s] \in Memory /\ Counted(mem[s]) /\ ProcOK(rows, ckpt, nextId, mem[s])
    BY <1>2 DEF TypeInv, MemOK, ProcsOK
  <2>2. ASSUME Built(mem[s]) PROVE Sound(rows', ckpt, nextId, mem[s])
    <3>1. Sound(rows, ckpt, nextId, mem[s])
      BY <2>1, <2>2 DEF ProcOK
    <3> QED BY <1>3, <1>4, <2>1, <3>1, SoundKept
  <2> QED BY <1>1, <2>1, <2>2 DEF ProcOK
<1>6. CkptOK'
  <2>1. ckpt # None => Backlog(rows', ckpt.core, {}, ckpt.core.produced)
    BY <1>2, <1>4, CkptKept
  <2> QED BY <1>1, <1>2, <1>3, <2>1 DEF CkptOK
<1>7. Alone' /\ LateAfter' /\ EndOK'
  BY <1>1, <1>2 DEF Alone, LateAfter, EndOK
<1> QED BY <1>5, <1>6, <1>7 DEF RecoveryInv, ProcsOK

\* The invariant holds of an empty table without a checkpoint.
LEMMA RecoveryInit == Init => RecoveryInv
<1> SUFFICES ASSUME Init PROVE RecoveryInv
  OBVIOUS
<1>1. TypeInv
  BY InitTyped
<1>2. \A s \in Samplers : mem[s] = Off
  BY DEF Init
<1>3. ProcsOK
  BY <1>2, OffOK DEF ProcsOK
<1>4. Alone /\ CkptOK /\ LateAfter /\ EndOK
  BY <1>2 DEF Init, Alone, CkptOK, LateAfter, EndOK, Has, Absent, Off
<1> QED BY <1>1, <1>3, <1>4 DEF RecoveryInv

\* Where activations do not overlap the invariant is inductive.
LEMMA RecoveryNext ==
  ASSUME Overlap = FALSE
  PROVE  RecoveryInv /\ [Next]_vars => RecoveryInv'
<1> SUFFICES ASSUME RecoveryInv, [Next]_vars PROVE RecoveryInv'
  OBVIOUS
<1>1. TypeInv'
  BY NextTyped DEF RecoveryInv
<1>2. ASSUME NEW s \in Samplers, ControlPlane(s) \/ Activation(s) \/ Tick(s) \/ Stop(s) \/ Database(s)
      PROVE  RecoveryInv'
  BY <1>1, <1>2, ControlPlaneSafe, ActivationSafe, TickSafe, StopSafe, DatabaseSafe
<1>3. ASSUME NEW l \in late, LateStatement(l) PROVE RecoveryInv'
  BY <1>1, <1>3, LateStatementSafe
<1>4. ASSUME NEW i \in Ids, EvaluateBatch(i) PROVE RecoveryInv'
  BY <1>1, <1>4, EvaluateBatchSafe
<1>5. CASE UNCHANGED vars
  BY <1>1, <1>5 DEF vars, RecoveryInv, Alone, ProcsOK, CkptOK, LateAfter, EndOK
<1> QED BY <1>2, <1>3, <1>4, <1>5 DEF Next

-----------------------------------------------------------------------------
(* What the invariant says.                                                *)

\* The invariant holds in every reachable state.
LEMMA RecoveryHolds ==
  ASSUME Overlap = FALSE
  PROVE  Spec => []RecoveryInv
<1>1. Init => RecoveryInv
  BY RecoveryInit
<1>2. RecoveryInv /\ [Next]_vars => RecoveryInv'
  BY RecoveryNext
<1> QED BY <1>1, <1>2, PTL DEF Spec

\* ExactlyOnce: the accumulator of a process and that of the checkpoint hold the first
\* draws, each once.
THEOREM OrderKept ==
  ASSUME Overlap = FALSE
  PROVE  Spec => []ExactlyOnce
<1>1. ASSUME RecoveryInv PROVE ExactlyOnce
  <2>1. ASSUME NEW s \in Samplers PROVE InOrder(mem[s].core)
    <3>1. ProcOK(rows, ckpt, nextId, mem[s])
      BY <1>1 DEF RecoveryInv, ProcsOK
    <3>2. CASE Built(mem[s])
      BY <3>1, <3>2 DEF ProcOK, Sound, Queue, CoreOK, InOrder
    <3>3. CASE ~Built(mem[s])
      <4>1. mem[s] = Off \/ mem[s] = Loading(ckpt)
        BY <3>1, <3>3 DEF ProcOK, Built
      <4>2. Off.core = Fresh /\ Loading(ckpt).core = Fresh
        BY DEF Loading, Off
      <4>3. mem[s].core = Fresh
        BY <4>1, <4>2
      <4> QED BY <4>3 DEF InOrder, Fresh
    <3> QED BY <3>2, <3>3
  <2>2. ckpt # None => InOrder(ckpt.core)
    BY <1>1 DEF RecoveryInv, CkptOK, CoreOK, InOrder
  <2> QED BY <2>1, <2>2 DEF ExactlyOnce
<1> QED BY <1>1, RecoveryHolds, PTL

\* Recoverable: what the checkpoint produced and did not merge is in the table, each
\* draw once, so restore_sampler_checkpoint finds the rows it counts.
THEOREM CheckpointRecoverable ==
  ASSUME Overlap = FALSE
  PROVE  Spec => []Recoverable
<1>1. ASSUME RecoveryInv PROVE Recoverable
  <2> SUFFICES ASSUME ckpt # None
               PROVE  /\ Cardinality(Retained(ckpt.core)) = ckpt.core.produced - ckpt.core.completed
                      /\ {rows[i].draw : i \in Retained(ckpt.core)} = ckpt.core.completed + 1 .. ckpt.core.produced
    BY DEF Recoverable
  <2>1. /\ ckpt.core \in Core /\ RowsOK /\ CoreOK(ckpt.core, nextId)
        /\ Backlog(rows, ckpt.core, {}, ckpt.core.produced)
    BY <1>1 DEF RecoveryInv, TypeInv, CkptTypeOK, Ckpt, CkptOK
  <2> QED BY <2>1, RetainedExact
<1> QED BY <1>1, RecoveryHolds, PTL

\* CompletedWhole: complete_run_task is reached only with everything merged and saved.
THEOREM CompletionWhole ==
  ASSUME Overlap = FALSE
  PROVE  Spec => []CompletedWhole
<1>1. RecoveryInv => CompletedWhole
  BY DEF RecoveryInv, EndOK, Whole, CompletedWhole
<1> QED BY <1>1, RecoveryHolds, PTL

-----------------------------------------------------------------------------
(* No task is failed for want of progress.                                 *)

\* A failure of the start is one of the injected errors.
FailOK == task # "failed" /\ \A s \in Samplers : failures[s] <= faults

\* A tick never finds a draw missing with nothing open.
LEMMA AlwaysProgress ==
  ASSUME RecoveryInv, NEW s \in Samplers
  PROVE  ~FailNoProgress(s)
<1> SUFFICES ASSUME FailNoProgress(s) PROVE FALSE
  OBVIOUS
<1> DEFINE m == mem[s]
           G == m.tick.batches
           core == Merged(m.core, G)
           open == m.tick.open - Cardinality(G)
<1>1. m.phase = "running" /\ m.tick # None /\ NoProgress(core, G, open)
  BY DEF FailNoProgress
<1>2. /\ m \in Memory /\ m.core \in Core /\ Queue(rows, ckpt, nextId, m.core, m.local, m.inserts)
      /\ m.core.produced - m.core.completed <= m.tick.open
  BY <1>1, ActorSound DEF Built, Sound, TickOK
<1>3. G = {} /\ ~StopReached(core) /\ open <= 0 /\ (core.roundTrip = "waiting" \/ Exhausted(core))
  BY <1>1 DEF NoProgress
<1>4. core = m.core /\ Cardinality(G) = 0
  BY <1>3, FS_EmptySet DEF Merged
<1>5. /\ m.tick.open \in Nat /\ m.core.produced \in Nat /\ m.core.completed \in Nat /\ MaxDraws \in Nat
  BY <1>1, <1>2, SamplerAssumption DEF Memory, TickType, Core
<1>6. m.tick.open <= 0
  <2> DEFINE k == Cardinality(G)   n == m.tick.open
  <2>1. k = 0 /\ n \in Nat /\ n - k <= 0
    BY <1>3, <1>4, <1>5
  <2> HIDE DEF k, n
  <2>2. n <= 0
    BY <2>1
  <2> QED BY <2>2 DEF n
<1>7. CoreOK(m.core, nextId)
  BY <1>2 DEF Queue
<1>8. m.core.completed = m.core.produced
  BY <1>2, <1>5, <1>6, <1>7 DEF CoreOK
<1>9. m.core.roundTrip # "waiting"
  BY <1>5, <1>7, <1>8 DEF CoreOK
<1>10. m.core.produced >= MaxDraws
  BY <1>3, <1>4, <1>9 DEF Exhausted
<1> QED BY <1>3, <1>4, <1>5, <1>8, <1>10 DEF StopReached

\* Recovery finds the rows that the checkpoint counts.
LEMMA NeverRefused ==
  ASSUME RecoveryInv, NEW s \in Samplers
  PROVE  ~RestoreRefused(s)
<1> SUFFICES ASSUME RestoreRefused(s) PROVE FALSE
  OBVIOUS
<1>1. /\ mem[s].phase = "loading" /\ ckpt # None
      /\ Cardinality(Retained(ckpt.core)) # ckpt.core.produced - ckpt.core.completed \/ task # "active"
  BY DEF RestoreRefused
<1>2. task = "active"
  BY <1>1 DEF RecoveryInv, EndOK
<1>3. /\ ckpt.core \in Core /\ RowsOK /\ CoreOK(ckpt.core, nextId)
      /\ Backlog(rows, ckpt.core, {}, ckpt.core.produced)
  BY <1>1 DEF RecoveryInv, TypeInv, CkptTypeOK, Ckpt, CkptOK
<1> QED BY <1>1, <1>2, <1>3, RetainedExact

\* No step fails the task, and no node counts more start failures than there were errors.
LEMMA FailNext ==
  ASSUME MaxFaults < MaxStarts
  PROVE  RecoveryInv /\ TypeInv' /\ FailOK /\ [Next]_vars => FailOK'
<1> SUFFICES ASSUME RecoveryInv, TypeInv', FailOK, [Next]_vars PROVE FailOK'
  OBVIOUS
<1>1. /\ failures \in [Samplers -> Nat] /\ faults \in Nat /\ MaxFaults \in Nat /\ MaxStarts \in Nat
      /\ \A s \in Samplers : failures[s] <= faults
      /\ task # "failed" /\ faults' \in Nat /\ faults' <= MaxFaults
  <2>1. failures \in [Samplers -> 0 .. MaxStarts] /\ MaxStarts \in Nat /\ MaxFaults \in Nat
        /\ faults \in 0 .. MaxFaults /\ faults' \in 0 .. MaxFaults
    BY SamplerAssumption DEF RecoveryInv, TypeInv, FailuresOK, RestOK
  <2> QED BY <2>1 DEF FailOK
<1>2. ASSUME task' # "failed", NEW s \in Samplers,
             failures' \in {failures, [failures EXCEPT ![s] = 0]}, faults <= faults'
      PROVE  FailOK'
  BY <1>1, <1>2 DEF FailOK
<1>3. ASSUME NEW s \in Samplers, SaveInitialError(s) PROVE FailOK'
  <2>1. faults' = faults + 1 /\ CountStartFailure(s)
    BY <1>3 DEF SaveInitialError, Fault
  <2>2. failures[s] + 1 < MaxStarts
    BY <1>1, <2>1
  <2>3. failures' = [failures EXCEPT ![s] = @ + 1] /\ task' = task
    BY <1>1, <2>1, <2>2 DEF CountStartFailure
  <2> QED BY <1>1, <2>1, <2>3 DEF FailOK
<1>4. ASSUME NEW s \in Samplers, ControlPlane(s) \/ Activation(s) PROVE FailOK'
  <2>1. ~RestoreRefused(s)
    BY NeverRefused
  <2>2. CASE SaveInitialError(s)
    BY <1>3, <2>2
  <2>3. CASE ControlPlane(s)
    BY <1>1, <1>2, <2>3 DEF ControlPlane, Assign, Unassign, LeaseLapses, ForgetFailures, Fault
  <2>4. CASE Activation(s) /\ ~SaveInitialError(s)
    BY <1>1, <1>2, <2>1, <2>4
    DEF Activation, LoadCheckpoint, SaveInitial, RestoreCheckpoint, Restore, RestoreConflict, BuildError, Start, Fault
  <2> QED BY <1>4, <2>2, <2>3, <2>4
<1>5. ASSUME NEW s \in Samplers, Tick(s) PROVE FailOK'
  <2>1. ~FailNoProgress(s)
    BY AlwaysProgress
  <2>2. task' = task /\ failures' = failures
    BY <1>5, <2>1
    DEF Tick, SpawnInsert, QueueTick, NotifyError, FetchErrorTick, QueueTickError, FinishTick, ProduceError, FlushErrorTick
  <2>3. faults' \in {faults, faults + 1}
    BY <1>5, <2>1
    DEF Tick, SpawnInsert, QueueTick, NotifyError, FetchErrorTick, QueueTickError, FinishTick, ProduceError, FlushErrorTick, Fault
  <2> QED BY <1>1, <1>2, <2>2, <2>3
<1>6. ASSUME NEW s \in Samplers, Stop(s) PROVE FailOK'
  <2>1. task' \in {task, "completed"} /\ failures' \in {failures, [failures EXCEPT ![s] = 0]}
    BY <1>6
    DEF Stop, BeginStop, StopFlush, DrainLocal, FinishMaintenance, ForceFlush, SaveCheckpoint, Retire, StopError,
        PublishError, SaveError, RetireError, InsertFailed, Crash
  <2>2. faults' \in {faults, faults + 1}
    BY <1>6
    DEF Stop, BeginStop, StopFlush, DrainLocal, FinishMaintenance, ForceFlush, SaveCheckpoint, Retire, StopError,
        PublishError, SaveError, RetireError, InsertFailed, Crash, Fault
  <2> QED BY <1>1, <1>2, <2>1, <2>2
<1>7. ASSUME NEW s \in Samplers, Database(s) PROVE FailOK'
  <2>1. task' = task /\ failures' = failures /\ faults' \in {faults, faults + 1}
    BY <1>7 DEF Database, CommitInsert, FailInsert, RunFetch, RunCleanup, RunFlush, Fault
  <2> QED BY <1>1, <1>2, <2>1
<1>8. ASSUME UNCHANGED <<task, failures, faults>> PROVE FailOK'
  BY <1>1, <1>8 DEF FailOK
<1> QED BY <1>4, <1>5, <1>6, <1>7, <1>8 DEF Next, LateStatement, EvaluateBatch, vars

\* NoSpuriousFailure: with fewer errors than a node may count at its start, no task is
\* failed, so neither recovery nor the check for progress ever gives up by itself.
THEOREM NoTaskFailed ==
  ASSUME Overlap = FALSE, MaxFaults < MaxStarts
  PROVE  Spec => []NoSpuriousFailure
<1>1. Init => FailOK
  BY SamplerAssumption DEF Init, FailOK
<1>2. RecoveryInv /\ TypeInv' /\ FailOK /\ [Next]_vars => FailOK'
  BY FailNext
<1>3. RecoveryInv => TypeInv
  BY DEF RecoveryInv
<1>4. FailOK => NoSpuriousFailure
  BY DEF FailOK, NoSpuriousFailure
<1> QED BY <1>1, <1>2, <1>3, <1>4, RecoveryHolds, PTL DEF Spec

-----------------------------------------------------------------------------
(* Where activations overlap.                                              *)

\* BoundaryKept: no step that leaves the checkpoint as it is deletes a batch that the
\* checkpoint retains, whatever other processes do.
THEOREM BoundaryHolds == Spec => BoundaryKept
<1>1. ASSUME TypeInv, [Next]_vars, ckpt # None, ckpt' = ckpt, NEW i \in Retained(ckpt.core)
      PROVE  rows'[i].status # "absent"
  <2>1. /\ i \in Ids /\ rows[i].status # "absent" /\ ckpt.core.lastCompleted < i /\ i <= ckpt.core.lastProduced
        /\ rows \in [Ids -> [status : {"absent", "pending", "completed"}, draw : 0 .. MaxDraws]]
    BY <1>1 DEF Retained, Present, TypeInv, RowsOK
  <2>2. i \in Nat /\ ckpt.core.lastCompleted \in Nat /\ ckpt.core.lastProduced \in Nat
    BY <1>1, <2>1, SamplerAssumption DEF TypeInv, CkptTypeOK, Ckpt, Core, Ids
  <2>3. ASSUME NEW upTo, Cleanup(upTo) PROVE rows'[i].status # "absent"
    <3>1. PICK gone \in SUBSET Consumable(upTo) : rows' = [j \in Ids |-> IF j \in gone THEN Absent ELSE rows[j]]
      BY <2>3 DEF Cleanup
    <3>2. i \notin Consumable(upTo)
      BY <2>1, <2>2 DEF Consumable
    <3> QED BY <2>1, <3>1, <3>2
  <2>4. ASSUME NEW b, rows' = Inserted(b) PROVE rows'[i].status # "absent"
    BY <2>1, <2>4 DEF Inserted
  <2>5. CASE UNCHANGED rows
    BY <2>1, <2>5
  <2>6. ASSUME NEW s \in Samplers, RestoreCheckpoint(s) PROVE rows'[i].status # "absent"
    BY <2>1, <2>2, <2>6 DEF RestoreCheckpoint, Restore
  <2>7. ASSUME NEW s \in Samplers, ControlPlane(s) \/ Activation(s) \/ Tick(s) PROVE rows'[i].status # "absent"
    <3>1. UNCHANGED rows \/ RestoreCheckpoint(s)
      BY <2>7
      DEF ControlPlane, Assign, Unassign, LeaseLapses, ForgetFailures,
          Activation, LoadCheckpoint, SaveInitial, SaveInitialError, RestoreConflict, RestoreRefused, BuildError, Start,
          Tick, SpawnInsert, QueueTick, NotifyError, FetchErrorTick, QueueTickError, FinishTick, ProduceError,
          FlushErrorTick, FailNoProgress
    <3> QED BY <2>5, <2>6, <3>1
  <2>8. ASSUME NEW s \in Samplers, Stop(s) PROVE rows'[i].status # "absent"
    <3>1. UNCHANGED rows \/ Cleanup(mem[s].core.lastCompleted)
      BY <2>8
      DEF Stop, BeginStop, StopFlush, DrainLocal, FinishMaintenance, ForceFlush, SaveCheckpoint, Retire, StopError,
          PublishError, SaveError, RetireError, InsertFailed, Crash
    <3> QED BY <2>3, <2>5, <3>1
  <2>9. ASSUME NEW s \in Samplers, Database(s) PROVE rows'[i].status # "absent"
    <3>1. UNCHANGED rows \/ Cleanup(mem[s].cleanup.upTo) \/ \E b \in mem[s].inserts : rows' = Inserted(b)
      BY <2>9 DEF Database, CommitInsert, FailInsert, RunFetch, RunCleanup, RunFlush
    <3> QED BY <2>3, <2>4, <2>5, <3>1
  <2>10. ASSUME NEW l \in late, LateStatement(l) PROVE rows'[i].status # "absent"
    BY <2>3, <2>4, <2>5, <2>10 DEF LateStatement
  <2>11. ASSUME NEW j \in Ids, EvaluateBatch(j) PROVE rows'[i].status # "absent"
    BY <2>1, <2>11 DEF EvaluateBatch
  <2> QED BY <1>1, <2>5, <2>7, <2>8, <2>9, <2>10, <2>11 DEF Next, vars
<1>2. TypeInv /\ [Next]_vars =>
        [ckpt # None /\ ckpt' = ckpt => \A i \in Retained(ckpt.core) : rows'[i].status # "absent"]_vars
  BY <1>1
<1>3. Init => TypeInv
  BY InitTyped
<1>4. TypeInv /\ [Next]_vars => TypeInv'
  BY NextTyped
<1> QED BY <1>2, <1>3, <1>4, PTL DEF Spec, BoundaryKept

-----------------------------------------------------------------------------
(* Recovery implements OrderedIngestion.                                   *)

\* The live accumulator is that of the built process, if there is one.
LEMMA LiveIs ==
  ASSUME Alone
  PROVE  /\ \A s \in Samplers : Built(mem[s]) => Live = mem[s].core.ingested
         /\ (\A s \in Samplers : ~Built(mem[s])) => Live = Saved
<1> DEFINE built == {s \in Samplers : mem[s].phase \notin {"off", "loading"}}
<1>1. Live = IF built = {} THEN Saved ELSE mem[CHOOSE s \in built : TRUE].core.ingested
  BY DEF Live
<1>2. ASSUME NEW s \in Samplers, Built(mem[s]) PROVE Live = mem[s].core.ingested
  <2>1. s \in built /\ \A o \in built : o = s
    BY <1>2 DEF Alone, Built
  <2>2. (CHOOSE o \in built : TRUE) = s
    BY <2>1
  <2> HIDE DEF built
  <2> QED BY <1>1, <2>1, <2>2
<1>3. (\A s \in Samplers : ~Built(mem[s])) => built = {}
  BY DEF Built
<1> QED BY <1>1, <1>2, <1>3

\* The same after a step.
LEMMA LiveNext ==
  ASSUME Alone'
  PROVE  /\ \A s \in Samplers : Built(mem'[s]) => Live' = mem'[s].core.ingested
         /\ (\A s \in Samplers : ~Built(mem'[s])) => Live' = Saved'
<1> DEFINE built == {s \in Samplers : mem'[s].phase \notin {"off", "loading"}}
<1>1. Live' = IF built = {} THEN Saved' ELSE mem'[CHOOSE s \in built : TRUE].core.ingested
  BY DEF Live
<1>2. ASSUME NEW s \in Samplers, Built(mem'[s]) PROVE Live' = mem'[s].core.ingested
  <2>1. s \in built /\ \A o \in built : o = s
    BY <1>2 DEF Alone, Built
  <2>2. (CHOOSE o \in built : TRUE) = s
    BY <2>1
  <2> HIDE DEF built
  <2> QED BY <1>1, <2>1, <2>2
<1>3. (\A s \in Samplers : ~Built(mem'[s])) => built = {}
  BY DEF Built
<1> QED BY <1>1, <1>2, <1>3

\* A step that neither merges nor moves the checkpoint.
LEMMA StepIdle ==
  ASSUME RecoveryInv, RecoveryInv', ckpt' = ckpt,
         \A s \in Samplers : /\ Built(mem'[s]) <=> Built(mem[s])
                             /\ Built(mem[s]) => mem'[s].core.ingested = mem[s].core.ingested
  PROVE  UNCHANGED <<Live, Saved>>
<1>1. Saved' = Saved
  BY DEF Saved
<1>2. Alone /\ Alone'
  BY DEF RecoveryInv
<1>3. CASE \E s \in Samplers : Built(mem[s])
  <2>1. PICK s \in Samplers : Built(mem[s])
    BY <1>3
  <2>2. Built(mem'[s]) /\ mem'[s].core.ingested = mem[s].core.ingested
    BY <2>1
  <2>3. Live = mem[s].core.ingested
    BY <1>2, <2>1, LiveIs
  <2>4. Live' = mem'[s].core.ingested
    BY <1>2, <2>2, LiveNext
  <2> QED BY <1>1, <2>2, <2>3, <2>4
<1>4. CASE \A s \in Samplers : ~Built(mem[s])
  <2>1. Live = Saved
    BY <1>2, <1>4, LiveIs
  <2>2. Live' = Saved'
    BY <1>2, <1>4, LiveNext
  <2> QED BY <1>1, <2>1, <2>2
<1> QED BY <1>1, <1>3, <1>4

\* A built process merges or does not, or its runner goes.
LEMMA StepMerges ==
  ASSUME RecoveryInv, RecoveryInv', NEW s \in Samplers, Built(mem[s]), ckpt' = ckpt,
         \A o \in Samplers : o # s => mem'[o] = mem[o],
         ~Built(mem'[s]) \/ mem[s].core.ingested \subseteq mem'[s].core.ingested
  PROVE  [Ingestion!Next]_<<Live, Saved>>
<1>1. Saved' = Saved
  BY DEF Saved
<1>2. Alone /\ Alone' /\ \A o \in Samplers : o # s => ~Built(mem[o])
  BY DEF RecoveryInv, Alone, Built
<1>3. Live = mem[s].core.ingested
  BY <1>2, LiveIs
<1>4. CASE ~Built(mem'[s])
  <2>1. Live' = Saved'
    BY <1>2, <1>4, LiveNext
  <2> QED BY <1>1, <2>1 DEF Ingestion!Next, Ingestion!Recover
<1>5. CASE Built(mem'[s])
  <2>1. Live' = mem'[s].core.ingested /\ Live \subseteq Live'
    BY <1>2, <1>3, <1>5, LiveNext
  <2>2. /\ ProcOK(rows', ckpt', nextId', mem'[s]) /\ mem'[s] \in Memory
    BY DEF RecoveryInv, ProcsOK, TypeInv, MemOK
  <2> DEFINE n == mem'[s].core.completed
  <2>3. Live' = 1 .. n /\ n \in Nat
    BY <1>5, <2>1, <2>2 DEF ProcOK, Sound, Queue, CoreOK, Memory, Core
  <2>4. n <= MaxDraws
    <3>1. mem'[s].core \in Core /\ CoreOK(mem'[s].core, nextId')
      BY <1>5, <2>2 DEF ProcOK, Sound, Queue, Memory
    <3>2. mem'[s].core.produced \in Nat /\ mem'[s].core.buffered \in Nat /\ MaxDraws \in Nat
      BY <3>1, SamplerAssumption DEF Core
    <3> QED BY <2>3, <3>1, <3>2 DEF CoreOK
  <2> HIDE DEF n
  <2>6. CASE n = 0
    <3>1. Live' = {} /\ Live = {}
      BY <2>1, <2>3, <2>6
    <3> QED BY <1>1, <3>1
  <2>7. CASE n # 0
    <3>1. n \in 1 .. MaxDraws
      BY <2>3, <2>4, <2>7, SamplerAssumption
    <3>2. \E k \in 1 .. MaxDraws : Live' = 1 .. k
      BY <2>3, <3>1
    <3> QED BY <1>1, <2>1, <3>2 DEF Ingestion!Next, Ingestion!Merge
  <2> QED BY <2>6, <2>7
<1> QED BY <1>4, <1>5

\* A built process saves its core, or fails to and is dropped or not.
LEMMA StepSaves ==
  ASSUME RecoveryInv, RecoveryInv', NEW s \in Samplers, Built(mem[s]), NEW b,
         ckpt' \in {ckpt, [core |-> mem[s].core, batches |-> b]}, ckpt # None, ckpt' # None,
         \A o \in Samplers : o # s => mem'[o] = mem[o],
         ~Built(mem'[s]) \/ mem'[s].core = mem[s].core
  PROVE  [Ingestion!Next]_<<Live, Saved>>
<1>1. Alone /\ Alone' /\ \A o \in Samplers : o # s => ~Built(mem[o])
  BY DEF RecoveryInv, Alone, Built
<1>2. Live = mem[s].core.ingested
  BY <1>1, LiveIs
<1>3. Saved' \in {Saved, Live}
  BY <1>2 DEF Saved
<1>4. Live' \in {Saved', Live}
  BY <1>1, <1>2, LiveNext
<1> QED BY <1>3, <1>4 DEF Ingestion!Next, Ingestion!Save, Ingestion!Recover

\* A group merged and draws produced: nothing leaves the accumulator.
LEMMA TickIngests ==
  ASSUME NEW m \in Memory, Counted(m), NEW G, G \subseteq Completed, NEW core, core = Merged(m.core, G)
  PROVE  /\ m.core.ingested \subseteq core.ingested
         /\ \A next \in Produced(core) : next.ingested = core.ingested
<1>1. m.core \in Core /\ m.core.produced + m.core.buffered <= MaxDraws
  BY DEF Memory, Counted
<1>2. core \in Core /\ core.produced + core.buffered <= MaxDraws
  BY <1>1, MergedTyped
<1>3. m.core.ingested \subseteq core.ingested
  BY <1>1 DEF Merged, Core
<1> QED BY <1>2, <1>3, ProducedTyped

\* The ticks of a running process.
LEMMA TickMerges ==
  ASSUME RecoveryInv, NEW s \in Samplers, Tick(s)
  PROVE  /\ Built(mem[s]) /\ ckpt' = ckpt /\ \A o \in Samplers : o # s => mem'[o] = mem[o]
         /\ mem[s].core.ingested \subseteq mem'[s].core.ingested
<1> DEFINE m == mem[s]
<1>1. Built(m) /\ ckpt' = ckpt
  BY DEF Tick, SpawnInsert, QueueTick, NotifyError, FetchErrorTick, QueueTickError, FinishTick,
         ProduceError, FlushErrorTick, FailNoProgress, Ticking, Built
<1>2. /\ m \in Memory /\ Counted(m) /\ m.core \in Core /\ mem \in [Samplers -> Memory]
  BY <1>1, ActorSound DEF RecoveryInv, TypeInv, MemOK
<1>a. ASSUME NEW w, mem' = [mem EXCEPT ![s] = w], m.core.ingested \subseteq w.core.ingested
      PROVE  (\A o \in Samplers : o # s => mem'[o] = mem[o]) /\ m.core.ingested \subseteq mem'[s].core.ingested
  BY <1>2, <1>a
<1>3. CASE SpawnInsert(s)
  <2>1. PICK n : mem' = [mem EXCEPT ![s] =
             [m EXCEPT !.local = @ - n,
                       !.core.lastProduced = nextId + n - 1,
                       !.inserts = @ \cup {[first |-> nextId, draw |-> m.core.produced - m.local + 1,
                                            n |-> n, state |-> "sent"]}]]
    BY <1>3 DEF SpawnInsert
  <2> DEFINE left == m.local - n   last == nextId + n - 1
             J == m.inserts \cup {[first |-> nextId, draw |-> m.core.produced - m.local + 1, n |-> n, state |-> "sent"]}
             w == [m EXCEPT !.local = left, !.core.lastProduced = last, !.inserts = J]
  <2>2. mem' = [mem EXCEPT ![s] = w]
    BY <2>1
  <2> HIDE DEF left, last, J
  <2>3. m.core.ingested \subseteq w.core.ingested
    BY <1>2 DEF Memory, Core
  <2> HIDE DEF w
  <2> QED BY <1>1, <1>a, <2>2, <2>3
<1>c. ASSUME NEW w, mem' = [mem EXCEPT ![s] = w], w.core = m.core
      PROVE  (\A o \in Samplers : o # s => mem'[o] = mem[o]) /\ m.core.ingested \subseteq mem'[s].core.ingested
  BY <1>2, <1>c
<1>4. CASE QueueTick(s)
  <2>1. PICK c :
          mem' = [mem EXCEPT ![s] =
            [m EXCEPT !.inserts = Unanswered(m), !.fetch = Refetched(m), !.ready = {}, !.cleanup = c,
                      !.tick = [batches |-> NowReady(m), open |-> OpenBatches(m)]]]
    BY <1>4 DEF QueueTick
  <2> DEFINE w == [m EXCEPT !.inserts = Unanswered(m), !.fetch = Refetched(m), !.ready = {}, !.cleanup = c,
                            !.tick = [batches |-> NowReady(m), open |-> OpenBatches(m)]]
  <2>2. w.core = m.core
    BY <1>2 DEF Memory
  <2> QED BY <1>1, <1>c, <2>1, <2>2
<1>8. CASE NotifyError(s)
  <2>1. mem' = [mem EXCEPT ![s] = [m EXCEPT !.inserts = {}]] /\ [m EXCEPT !.inserts = {}].core = m.core
    BY <1>2, <1>8 DEF NotifyError, Memory
  <2> QED BY <1>1, <1>c, <2>1
<1>9. CASE FetchErrorTick(s)
  <2> DEFINE w == [m EXCEPT !.inserts = Unanswered(m), !.fetch = None]
  <2>1. mem' = [mem EXCEPT ![s] = w] /\ w.core = m.core
    BY <1>2, <1>9 DEF FetchErrorTick, Memory
  <2> QED BY <1>1, <1>c, <2>1
<1>10. CASE QueueTickError(s)
  <2> DEFINE c == IF m.cleanup # None /\ m.cleanup.state = "sent" THEN m.cleanup ELSE None
             w == [m EXCEPT !.inserts = Unanswered(m), !.fetch = Refetched(m), !.ready = {}, !.cleanup = c]
  <2>1. mem' = [mem EXCEPT ![s] = w]
    BY <1>10 DEF QueueTickError
  <2> HIDE DEF c
  <2>2. w.core = m.core
    BY <1>2 DEF Memory
  <2> QED BY <1>1, <1>c, <2>1, <2>2
<1>11. CASE FailNoProgress(s)
  <2> DEFINE w == [m EXCEPT !.tick = None, !.phase = "stopping", !.leaving = "fail"]
  <2>1. mem' = [mem EXCEPT ![s] = w]
    BY <1>11 DEF FailNoProgress
  <2>2. w.core = m.core
    BY <1>2 DEF Memory
  <2> QED BY <1>1, <1>c, <2>1, <2>2
<1>b. ASSUME m.tick # None
      PROVE  LET core == Merged(m.core, m.tick.batches) IN
             /\ m.core.ingested \subseteq core.ingested
             /\ \A next \in Produced(core) : m.core.ingested \subseteq next.ingested
  <2>1. m.tick.batches \subseteq Completed
    BY <1>2, <1>b DEF Memory, TickType
  <2> QED BY <1>2, <2>1, TickIngests
<1>5. CASE FinishTick(s)
  <2> DEFINE G == m.tick.batches
             core == Merged(m.core, G)
  <2>1. m.tick # None
    BY <1>5 DEF FinishTick
  <2> DEFINE answered == m.flush # None /\ m.flush.state = "ok"
             unflushed == m.unflushed + Cardinality(G) - (IF answered THEN m.flush.n ELSE 0)
  <2>2. PICK next \in Produced(core), c \in CleanupChoices(m.cleanup, core),
             f \in FlushChoices(m.flush, unflushed), done \in BOOLEAN :
          LET k == next.produced - core.produced
              ended == StopReached(core) /\ m.tick.open - Cardinality(G) + k <= 0 /\ next.buffered = 0
          IN
          /\ nextId + m.local + k <= MaxId + 1
          /\ \/ done = ended /\ UNCHANGED faults
             \/ ended /\ ~done /\ Fault
          /\ mem' = [mem EXCEPT ![s] =
               [m EXCEPT !.tick = None, !.core = next, !.local = @ + k, !.cleanup = c,
                         !.flush = f, !.unflushed = unflushed,
                         !.phase = IF done THEN "stopping" ELSE "running",
                         !.leaving = IF done THEN "complete" ELSE "stop"]]
    BY <1>5 DEF FinishTick
  <2> DEFINE local == m.local + (next.produced - core.produced)
             p == IF done THEN "stopping" ELSE "running"
             l == IF done THEN "complete" ELSE "stop"
             w == [m EXCEPT !.tick = None, !.core = next, !.local = local, !.cleanup = c,
                            !.flush = f, !.unflushed = unflushed, !.phase = p, !.leaving = l]
  <2>3. mem' = [mem EXCEPT ![s] = w]
    BY <2>2
  <2>4. m.core.ingested \subseteq next.ingested
    BY <1>b, <2>1
  <2> HIDE DEF local, p, l, unflushed
  <2>5. w.core = next
    BY <1>2 DEF Memory
  <2> HIDE DEF w
  <2> QED BY <1>1, <1>a, <2>3, <2>4, <2>5
<1>6. CASE ProduceError(s)
  <2> DEFINE core == Merged(m.core, m.tick.batches)
  <2>1. m.tick # None
    BY <1>6 DEF ProduceError
  <2>2. PICK c, u : mem' = [mem EXCEPT ![s] = [m EXCEPT !.tick = None, !.core = core, !.cleanup = c, !.unflushed = u]]
    BY <1>6 DEF ProduceError
  <2>3. mem'[s].core = core /\ \A o \in Samplers : o # s => mem'[o] = mem[o]
    <3> HIDE DEF core
    <3> QED BY <1>2, <2>2 DEF Memory
  <2> QED BY <1>1, <1>b, <2>1, <2>3
<1>7. CASE FlushErrorTick(s)
  <2> DEFINE core == Merged(m.core, m.tick.batches)
  <2>1. m.tick # None
    BY <1>7 DEF FlushErrorTick
  <2>2. PICK next \in Produced(core), c \in CleanupChoices(m.cleanup, core) :
          mem' = [mem EXCEPT ![s] =
            [m EXCEPT !.tick = None, !.core = next, !.local = @ + (next.produced - core.produced), !.cleanup = c,
                      !.flush = None, !.unflushed = @ + Cardinality(m.tick.batches)]]
    BY <1>7 DEF FlushErrorTick
  <2> DEFINE local == m.local + (next.produced - core.produced)
             u == m.unflushed + Cardinality(m.tick.batches)
             w == [m EXCEPT !.tick = None, !.core = next, !.local = local, !.cleanup = c, !.flush = None, !.unflushed = u]
  <2>3. mem' = [mem EXCEPT ![s] = w]
    BY <2>2
  <2>4. m.core.ingested \subseteq next.ingested
    BY <1>b, <2>1
  <2> HIDE DEF local, u
  <2>5. w.core = next
    BY <1>2 DEF Memory
  <2> HIDE DEF w
  <2> QED BY <1>1, <1>a, <2>3, <2>4, <2>5
<1> QED BY <1>3, <1>4, <1>5, <1>6, <1>7, <1>8, <1>9, <1>10, <1>11 DEF Tick

\* Recovery of a checkpoint makes its accumulator the live one.
LEMMA ActivationIngests ==
  ASSUME RecoveryInv, RecoveryInv', NEW s \in Samplers, Activation(s)
  PROVE  [Ingestion!Next]_<<Live, Saved>>
<1>1. Alone /\ Alone' /\ mem \in [Samplers -> Memory]
  BY DEF RecoveryInv, TypeInv, MemOK
<1>2. \A o \in Samplers : mem[o].phase # "off" /\ mem[s].phase # "off" => o = s
  BY <1>1 DEF Alone
<1>3. CASE mem[s].phase # "loading" /\ mem[s].phase # "built"
  <2>1. LoadCheckpoint(s)
    BY <1>3
    DEF Activation, SaveInitial, SaveInitialError, RestoreCheckpoint, RestoreConflict, RestoreRefused, BuildError, Start
  <2>2. /\ ckpt' = ckpt /\ mem[s].phase = "off"
        /\ mem' = [mem EXCEPT ![s] = [mem[s] EXCEPT !.phase = "loading", !.loaded = ckpt]]
    BY <2>1 DEF LoadCheckpoint
  <2>3. mem'[s].phase = "loading" /\ \A o \in Samplers : o # s => mem'[o] = mem[o]
    BY <1>1, <2>2 DEF Memory
  <2>4. \A o \in Samplers : ~Built(mem[s]) /\ ~Built(mem'[s])
    BY <2>2, <2>3 DEF Built
  <2> QED BY <2>2, <2>3, <2>4, StepIdle
<1>4. CASE mem[s].phase = "built"
  <2>1. BuildError(s) \/ Start(s)
    BY <1>4
    DEF Activation, LoadCheckpoint, SaveInitial, SaveInitialError, RestoreCheckpoint, RestoreConflict, RestoreRefused
  <2>2. ckpt' = ckpt /\ (mem' = [mem EXCEPT ![s] = Off] \/ mem' = [mem EXCEPT ![s] = [mem[s] EXCEPT !.phase = "running"]])
    BY <2>1 DEF BuildError, Start
  <2>3. \A o \in Samplers : o # s => mem'[o] = mem[o]
    BY <1>1, <2>2
  <2>4. ~Built(mem'[s]) \/ mem[s].core.ingested \subseteq mem'[s].core.ingested
    BY <1>1, <2>2 DEF Memory, Built, Off
  <2>5. Built(mem[s])
    BY <1>4 DEF Built
  <2> QED BY <2>2, <2>3, <2>4, <2>5, StepMerges
<1>5. CASE mem[s].phase = "loading"
  <2>1. Live = Saved
    <3>1. \A o \in Samplers : ~Built(mem[o])
      BY <1>2, <1>5 DEF Built
    <3> QED BY <1>1, <3>1, LiveIs
  <2>2. mem[s] = Loading(ckpt)
    BY <1>5 DEF RecoveryInv, ProcsOK, ProcOK
  <2>3. mem[s].core = Fresh /\ mem[s].loaded = ckpt
    BY <2>2 DEF Loading, Off
  <2>4. ASSUME \A o \in Samplers : o # s => mem'[o] = mem[o], ~Built(mem'[s]), Saved' = Saved
        PROVE  UNCHANGED <<Live, Saved>>
    <3>1. \A o \in Samplers : ~Built(mem'[o])
      BY <1>2, <1>5, <2>4 DEF Built
    <3>2. Live' = Saved'
      BY <1>1, <3>1, LiveNext
    <3> QED BY <2>1, <2>4, <3>2
  <2>5. CASE SaveInitial(s)
    <3>1. /\ ckpt = None /\ ckpt' = [core |-> Fresh, batches |-> batches]
          /\ mem' = [mem EXCEPT ![s] = [mem[s] EXCEPT !.phase = "built"]]
      BY <2>3, <2>5 DEF SaveInitial
    <3>2. mem'[s].phase = "built" /\ mem'[s].core = Fresh
      BY <1>1, <2>3, <3>1 DEF Memory
    <3>3. Live' = {}
      BY <1>1, <3>2, LiveNext DEF Built, Fresh
    <3>4. ckpt' # None
      BY <3>2 DEF RecoveryInv, ProcsOK, ProcOK, Sound, Queue, Built
    <3>5. Saved = {} /\ Saved' = {}
      BY <3>1, <3>4 DEF Saved, Fresh
    <3> QED BY <2>1, <3>3, <3>5
  <2>6. CASE SaveInitialError(s)
    <3>1. /\ ckpt = None /\ ckpt' \in {ckpt, [core |-> Fresh, batches |-> batches]}
          /\ mem' = [mem EXCEPT ![s] = Off]
      BY <2>3, <2>6 DEF SaveInitialError, CountStartFailure
    <3>2. Saved = {} /\ Saved' = {}
      BY <3>1 DEF Saved, Fresh
    <3>3. ~Built(mem'[s]) /\ \A o \in Samplers : o # s => mem'[o] = mem[o]
      BY <1>1, <3>1 DEF Built, Off
    <3> QED BY <2>4, <3>2, <3>3
  <2>7. CASE RestoreCheckpoint(s)
    <3>1. /\ ckpt # None /\ ckpt' = ckpt
          /\ mem' = [mem EXCEPT ![s] = [mem[s] EXCEPT !.phase = "built", !.core = ckpt.core]]
      BY <2>3, <2>7 DEF RestoreCheckpoint, Restore
    <3>2. mem'[s].phase = "built" /\ mem'[s].core = ckpt.core
      BY <1>1, <3>1 DEF Memory
    <3>3. Live' = ckpt.core.ingested
      BY <1>1, <3>2, LiveNext DEF Built
    <3>4. Saved = ckpt.core.ingested /\ Saved' = Saved
      BY <3>1 DEF Saved
    <3> QED BY <2>1, <3>3, <3>4
  <2>8. CASE RestoreConflict(s) \/ RestoreRefused(s) \/ BuildError(s)
    <3>1. ckpt' = ckpt /\ mem' = [mem EXCEPT ![s] = Off]
      BY <2>8 DEF RestoreConflict, RestoreRefused, CountStartFailure, BuildError
    <3>2. Saved' = Saved
      BY <3>1 DEF Saved
    <3>3. ~Built(mem'[s]) /\ \A o \in Samplers : o # s => mem'[o] = mem[o]
      BY <1>1, <3>1 DEF Built, Off
    <3> QED BY <2>4, <3>2, <3>3
  <2>9. ~LoadCheckpoint(s) /\ ~Start(s)
    BY <1>5 DEF LoadCheckpoint, Start
  <2> QED BY <2>5, <2>6, <2>7, <2>8, <2>9 DEF Activation
<1> QED BY <1>3, <1>4, <1>5

\* Leaving the role merges what has arrived, saves the core or drops the runner.
LEMMA StopIngests ==
  ASSUME RecoveryInv, RecoveryInv', NEW s \in Samplers, Stop(s)
  PROVE  [Ingestion!Next]_<<Live, Saved>>
<1> DEFINE m == mem[s]
<1>1. mem \in [Samplers -> Memory]
  BY DEF RecoveryInv, TypeInv, MemOK
<1>2. CASE ~Built(m)
  <2>1. Crash(s)
    BY <1>2
    DEF Stop, BeginStop, StopFlush, DrainLocal, FinishMaintenance, ForceFlush, SaveCheckpoint, Retire, StopError,
        PublishError, SaveError, RetireError, InsertFailed, Flushed, Built
  <2>2. ckpt' = ckpt /\ mem' = [mem EXCEPT ![s] = Off]
    BY <2>1 DEF Crash, Drop
  <2>3. ~Built(mem'[s]) /\ \A o \in Samplers : o # s => mem'[o] = mem[o]
    BY <1>1, <2>2 DEF Built, Off
  <2>4. \A o \in Samplers : /\ Built(mem'[o]) <=> Built(mem[o])
                            /\ Built(mem[o]) => mem'[o].core.ingested = mem[o].core.ingested
    BY <1>2, <2>3
  <2> QED BY <2>2, <2>4, StepIdle
<1>3. CASE Built(m)
  <2>1. /\ m \in Memory /\ m.core \in Core /\ ckpt # None
    BY <1>3, ActorSound
  <2>2. ASSUME NEW w, mem' = [mem EXCEPT ![s] = w], ~Built(w) \/ w.core = m.core
        PROVE  /\ \A o \in Samplers : o # s => mem'[o] = mem[o]
               /\ ~Built(mem'[s]) \/ mem'[s].core = m.core
    BY <1>1, <2>2
  <2>3. ASSUME ckpt' = ckpt, NEW w, mem' = [mem EXCEPT ![s] = w], ~Built(w) \/ w.core = m.core
        PROVE  [Ingestion!Next]_<<Live, Saved>>
    <3>1. /\ \A o \in Samplers : o # s => mem'[o] = mem[o]
          /\ ~Built(mem'[s]) \/ m.core.ingested \subseteq mem'[s].core.ingested
      BY <2>2, <2>3
    <3> QED BY <1>3, <2>3, <3>1, StepMerges
  <2>4. ~Built(Off)
    BY DEF Built, Off
  <2>5. ASSUME NEW w \in Memory, w.core = m.core, GiveUp(s, w)
        PROVE  \E v : mem' = [mem EXCEPT ![s] = v] /\ (~Built(v) \/ v.core = m.core)
    <3>1. CASE w.leaving = "complete"
      <4>1. mem' = [mem EXCEPT ![s] = [w EXCEPT !.phase = "running", !.leaving = "stop"]]
        BY <2>5, <3>1 DEF GiveUp
      <4>2. [w EXCEPT !.phase = "running", !.leaving = "stop"].core = m.core
        BY <2>5 DEF Memory
      <4> QED BY <4>1, <4>2
    <3>2. CASE w.leaving # "complete"
      BY <2>4, <2>5, <3>2 DEF GiveUp
    <3> QED BY <3>1, <3>2
  <2>6. CASE DrainLocal(s)
    <3> DEFINE G == NowReady(m)
               core == Merged(m.core, G)
               unflushed == m.unflushed + Cardinality(G)
    <3>1. PICK c \in CleanupChoices(m.cleanup, core) :
            mem' = [mem EXCEPT ![s] = [m EXCEPT !.core = core, !.ready = {}, !.fetch = None, !.cleanup = c,
                                                !.unflushed = @ + Cardinality(G)]]
      BY <2>6 DEF DrainLocal
    <3> DEFINE w == [m EXCEPT !.core = core, !.ready = {}, !.fetch = None, !.cleanup = c, !.unflushed = unflushed]
    <3>2. mem' = [mem EXCEPT ![s] = w] /\ ckpt' = ckpt
      BY <2>6, <3>1 DEF DrainLocal
    <3>3. m.core.ingested \subseteq core.ingested
      <4> HIDE DEF G
      <4> QED BY <2>1 DEF Merged, Core
    <3> HIDE DEF core, unflushed
    <3>4. w.core = core
      BY <2>1 DEF Memory
    <3> HIDE DEF w
    <3>5. /\ \A o \in Samplers : o # s => mem'[o] = mem[o]
          /\ m.core.ingested \subseteq mem'[s].core.ingested
      BY <1>1, <3>2, <3>3, <3>4
    <3> QED BY <1>3, <3>2, <3>5, StepMerges
  <2>7. CASE BeginStop(s) \/ StopFlush(s) \/ FinishMaintenance(s) \/ ForceFlush(s)
    <3>1. ckpt' = ckpt
      BY <2>7 DEF BeginStop, StopFlush, FinishMaintenance, ForceFlush
    <3>2. /\ [m EXCEPT !.phase = "stopping"].core = m.core
          /\ [m EXCEPT !.inserts = Unanswered(m)].core = m.core
          /\ [m EXCEPT !.phase = "publishing", !.fetch = None, !.cleanup = None].core = m.core
          /\ [m EXCEPT !.phase = "saving", !.flush = None, !.unflushed = 0].core = m.core
      BY <2>1 DEF Memory
    <3>3. CASE BeginStop(s)
      <4>1. mem' = [mem EXCEPT ![s] = [m EXCEPT !.phase = "stopping"]]
        BY <3>3 DEF BeginStop
      <4> QED BY <2>3, <3>1, <3>2, <4>1
    <3>4. CASE StopFlush(s)
      <4>1. mem' = [mem EXCEPT ![s] = [m EXCEPT !.inserts = Unanswered(m)]]
        BY <3>4 DEF StopFlush
      <4> QED BY <2>3, <3>1, <3>2, <4>1
    <3>5. CASE FinishMaintenance(s)
      <4>1. mem' = [mem EXCEPT ![s] = [m EXCEPT !.phase = "publishing", !.fetch = None, !.cleanup = None]]
        BY <3>5 DEF FinishMaintenance
      <4> QED BY <2>3, <3>1, <3>2, <4>1
    <3>6. CASE ForceFlush(s)
      <4>1. mem' = [mem EXCEPT ![s] = [m EXCEPT !.phase = "saving", !.flush = None, !.unflushed = 0]]
        BY <3>6 DEF ForceFlush
      <4> QED BY <2>3, <3>1, <3>2, <4>1
    <3> QED BY <2>7, <3>3, <3>4, <3>5, <3>6
  <2>8. CASE Retire(s) \/ InsertFailed(s) \/ Crash(s)
    <3>1. ckpt' = ckpt /\ mem' = [mem EXCEPT ![s] = Off]
      BY <2>8 DEF Retire, InsertFailed, Crash, Drop
    <3> QED BY <2>3, <2>4, <3>1
  <2>9. CASE StopError(s) \/ PublishError(s) \/ RetireError(s)
    <3> DEFINE rest == m.unflushed - (IF m.flush = None THEN 0 ELSE m.flush.n)
    <3>1. ckpt' = ckpt
      BY <2>9 DEF StopError, PublishError, RetireError
    <3>2. PICK w \in {m, [m EXCEPT !.fetch = None], [m EXCEPT !.fetch = None, !.cleanup = None],
                      [m EXCEPT !.flush = None], [m EXCEPT !.flush = None, !.unflushed = rest]} : GiveUp(s, w)
      BY <2>9 DEF StopError, PublishError, RetireError
    <3>3. rest \in Nat
      <4>1. Counted(m)
        BY <1>3, ActorSound
      <4>2. m.unflushed \in Nat /\ (m.flush # None => m.flush.n \in Nat /\ m.flush.n <= m.unflushed)
        BY <2>1, <4>1 DEF Memory, Counted, Flushes
      <4> QED BY <4>2
    <3> HIDE DEF rest
    <3>4. w \in Memory /\ w.core = m.core
      BY <2>1, <3>3 DEF Memory
    <3>5. PICK v : mem' = [mem EXCEPT ![s] = v] /\ (~Built(v) \/ v.core = m.core)
      BY <2>5, <3>2, <3>4
    <3> QED BY <2>3, <3>1, <3>5
  <2>10. CASE SaveCheckpoint(s) \/ SaveError(s)
    <3>1. ckpt' \in {ckpt, [core |-> m.core, batches |-> batches]}
      BY <2>10 DEF SaveCheckpoint, SaveError
    <3>2. \E v : mem' = [mem EXCEPT ![s] = v] /\ (~Built(v) \/ v.core = m.core)
      <4>1. CASE SaveCheckpoint(s)
        <5>1. mem' = [mem EXCEPT ![s] = [m EXCEPT !.phase = "saved"]]
          BY <4>1 DEF SaveCheckpoint
        <5>2. [m EXCEPT !.phase = "saved"].core = m.core
          BY <2>1 DEF Memory
        <5> QED BY <5>1, <5>2
      <4>2. CASE SaveError(s)
        <5>1. GiveUp(s, m)
          BY <4>2 DEF SaveError
        <5> QED BY <2>1, <2>5, <5>1
      <4> QED BY <2>10, <4>1, <4>2
    <3>3. /\ \A o \in Samplers : o # s => mem'[o] = mem[o]
          /\ ~Built(mem'[s]) \/ mem'[s].core = mem[s].core
      BY <2>2, <3>2
    <3>4. [core |-> m.core, batches |-> batches] # None
      <4>1. [core |-> m.core, batches |-> batches] \in [core : Core, batches : Nat]
        BY <2>1 DEF RecoveryInv, TypeInv, RestOK
      <4> QED BY <4>1, NullAssumption
    <3>5. ckpt' # None
      BY <2>1, <3>1, <3>4
    <3>6. ckpt' \in {ckpt, [core |-> mem[s].core, batches |-> batches]}
      BY <3>1
    <3> QED BY <1>3, <2>1, <3>3, <3>5, <3>6, StepSaves
  <2> QED BY <2>6, <2>7, <2>8, <2>9, <2>10 DEF Stop
<1> QED BY <1>2, <1>3

\* What the database executes leaves every core and the checkpoint alone.
LEMMA DatabaseIdle ==
  ASSUME RecoveryInv, RecoveryInv', NEW s \in Samplers, Database(s)
  PROVE  UNCHANGED <<Live, Saved>>
<1> DEFINE m == mem[s]
<1>1. mem \in [Samplers -> Memory]
  BY DEF RecoveryInv, TypeInv, MemOK
<1>2. ckpt' = ckpt
  BY DEF Database, CommitInsert, FailInsert, RunFetch, RunCleanup, RunFlush
<1>3. \E w : /\ mem' = [mem EXCEPT ![s] = w] /\ w.core = m.core /\ w.phase = m.phase
  <2>1. PICK J : mem' = [mem EXCEPT ![s] = [m EXCEPT !.inserts = J]] \/ mem' = [mem EXCEPT ![s] = [m EXCEPT !.fetch = J]]
               \/ mem' = [mem EXCEPT ![s] = [m EXCEPT !.cleanup = J]] \/ mem' = [mem EXCEPT ![s] = [m EXCEPT !.flush = J]]
    BY DEF Database, CommitInsert, FailInsert, RunFetch, RunCleanup, RunFlush
  <2>2. /\ [m EXCEPT !.inserts = J].core = m.core /\ [m EXCEPT !.inserts = J].phase = m.phase
        /\ [m EXCEPT !.fetch = J].core = m.core /\ [m EXCEPT !.fetch = J].phase = m.phase
        /\ [m EXCEPT !.cleanup = J].core = m.core /\ [m EXCEPT !.cleanup = J].phase = m.phase
        /\ [m EXCEPT !.flush = J].core = m.core /\ [m EXCEPT !.flush = J].phase = m.phase
    BY <1>1 DEF Memory
  <2>3. ASSUME NEW w, mem' = [mem EXCEPT ![s] = w], w.core = m.core, w.phase = m.phase
        PROVE  \E v : mem' = [mem EXCEPT ![s] = v] /\ v.core = m.core /\ v.phase = m.phase
    BY <2>3
  <2>4. CASE mem' = [mem EXCEPT ![s] = [m EXCEPT !.inserts = J]]
    BY <2>2, <2>3, <2>4
  <2>5. CASE mem' = [mem EXCEPT ![s] = [m EXCEPT !.fetch = J]]
    BY <2>2, <2>3, <2>5
  <2>6. CASE mem' = [mem EXCEPT ![s] = [m EXCEPT !.cleanup = J]]
    BY <2>2, <2>3, <2>6
  <2>7. CASE mem' = [mem EXCEPT ![s] = [m EXCEPT !.flush = J]]
    BY <2>2, <2>3, <2>7
  <2> QED BY <2>1, <2>4, <2>5, <2>6, <2>7
<1>4. \A o \in Samplers : mem'[o].core = mem[o].core /\ mem'[o].phase = mem[o].phase
  BY <1>1, <1>3
<1>5. \A o \in Samplers : /\ Built(mem'[o]) <=> Built(mem[o])
                          /\ Built(mem[o]) => mem'[o].core.ingested = mem[o].core.ingested
  BY <1>4 DEF Built
<1> QED BY <1>2, <1>5, StepIdle

\* A step that leaves the processes and the checkpoint alone.
LEMMA NothingIngested ==
  ASSUME RecoveryInv, RecoveryInv', UNCHANGED <<mem, ckpt>>
  PROVE  UNCHANGED <<Live, Saved>>
BY StepIdle

\* Every step of recovery is a step of OrderedIngestion or leaves it alone.
LEMMA StepsIngest ==
  ASSUME RecoveryInv, RecoveryInv', [Next]_vars
  PROVE  [Ingestion!Next]_<<Live, Saved>>
<1>1. ASSUME NEW s \in Samplers, ControlPlane(s) PROVE UNCHANGED <<Live, Saved>>
  BY <1>1, NothingIngested DEF ControlPlane, Assign, Unassign, LeaseLapses, ForgetFailures
<1>2. ASSUME NEW s \in Samplers, Tick(s) PROVE [Ingestion!Next]_<<Live, Saved>>
  <2>1. /\ Built(mem[s]) /\ ckpt' = ckpt /\ \A o \in Samplers : o # s => mem'[o] = mem[o]
        /\ mem[s].core.ingested \subseteq mem'[s].core.ingested
    BY <1>2, TickMerges
  <2> QED BY <2>1, StepMerges
<1>3. ASSUME NEW l \in late, LateStatement(l) PROVE UNCHANGED <<Live, Saved>>
  BY <1>3, NothingIngested DEF LateStatement
<1>4. ASSUME NEW i \in Ids, EvaluateBatch(i) PROVE UNCHANGED <<Live, Saved>>
  BY <1>4, NothingIngested DEF EvaluateBatch
<1>5. ASSUME UNCHANGED vars PROVE UNCHANGED <<Live, Saved>>
  BY <1>5, NothingIngested DEF vars
<1> QED BY <1>1, <1>2, <1>3, <1>4, <1>5, ActivationIngests, StopIngests, DatabaseIdle DEF Next

\* RecoveryIsOrderedIngestion: whatever is lost, late or restarted, the accumulator only
\* grows by the next draws in order or falls back to what save_checkpoint kept.
THEOREM RecoveryImplements ==
  ASSUME Overlap = FALSE
  PROVE  Spec => RecoveryIsOrderedIngestion
<1>1. Init => Ingestion!Init
  <2> SUFFICES ASSUME Init PROVE Live = {} /\ Saved = {}
    BY DEF Ingestion!Init
  <2>1. ckpt = None /\ \A s \in Samplers : mem[s] = Off
    BY DEF Init
  <2>2. Saved = {}
    BY <2>1 DEF Saved
  <2>3. Alone /\ \A s \in Samplers : ~Built(mem[s])
    BY <2>1, RecoveryInit DEF RecoveryInv, Built, Off
  <2> QED BY <2>2, <2>3, LiveIs
<1>2. RecoveryInv /\ RecoveryInv' /\ [Next]_vars => [Ingestion!Next]_<<Live, Saved>>
  BY StepsIngest
<1> QED BY <1>1, <1>2, RecoveryHolds, PTL DEF Spec, RecoveryIsOrderedIngestion, Ingestion!Spec

=============================================================================
