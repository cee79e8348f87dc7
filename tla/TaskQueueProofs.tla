-------------------------- MODULE TaskQueueProofs --------------------------
(***************************************************************************)
(* What TaskQueue guarantees for any names, definitions, editors, control  *)
(* loops and bounds: queue and history stay whole under concurrent edits,  *)
(* tasks run in order, and what the preflight promised is found at run     *)
(* time.  The invariant ties a stage snapshot to the row it belongs to and *)
(* says that nothing below a row that has one can still change.            *)
(***************************************************************************)
EXTENDS TaskQueue, FiniteSetTheorems, FunctionTheorems, WellFoundedInduction, TLAPS

States == {"pending", "active", "completed", "failed"}
RowT   == [id : 1 .. MaxSeq + MaxEdits + 1, name : Names, def : Defs, tune : BOOLEAN, state : States]
QueueT == [Seqs -> {None} \cup RowT]
CtlT   == [pc : {"idle", "load", "count", "activate", "apply", "complete", "finish"}, seq : 0 .. MaxSeq,
           done : BOOLEAN]
RoleT  == [pc : {"idle", "run", "complete", "failing"}, seq : 0 .. MaxSeq, id : Nat]

RowsOf(q) == {s \in Seqs : q[s] # None}

-----------------------------------------------------------------------------
(* The invariant.                                                          *)

Typed ==
  /\ queue \in QueueT
  /\ stages \in Seq(Snapshot) /\ Len(stages) > 0 /\ stages[1] = Root
  /\ open \in BOOLEAN /\ assigned \in BOOLEAN
  /\ editor = [e \in Editors |-> editor[e]]
  /\ ctl \in [Controllers -> CtlT] /\ lock \in Controllers \cup {None} /\ live \subseteq Controllers
  /\ role \in RoleT

\* An id is used once, and what editors have been granted leaves enough of them.
Appending == {e \in Editors : editor[e].kind = "append"}
IdsOK ==
  /\ ids \in Nat /\ ids > MaxSeq /\ edits \in 0 .. MaxEdits
  /\ ids + Cardinality(Appending) <= MaxSeq + 1 + edits
  /\ \A s \in Rows : queue[s].id < ids
  /\ \A r, s \in Rows : queue[r].id = queue[s].id => r = s

\* The queue an edit would make, with the id a new task would get.
EditedAs(q, ed, n) ==
  CASE ed.kind = "append"  -> Put(q, Next1(q), NewRow(n, ed.name, ed.def))
    [] ed.kind = "replace" -> Put(q, ed.at, [q[ed.at] EXCEPT !.name = ed.name, !.def = ed.def])
    [] ed.kind = "remove"  -> Put(q, ed.at, None)

\* An edit was validated against the queue its editor has seen.
Validated(ed) ==
  \E q \in QueueT, n \in Nat :
    ed.seen = Listed(q) /\ Valid(Listed(EditedAs(q, ed, n))) /\ (ed.kind # "append" => ed.at \in RowsOf(q))

EditorOK(ed) ==
  ed # NoEdit =>
    /\ ed.kind \in {"append", "replace", "remove"}
    /\ ed.kind # "remove" => ed.name \in Names /\ ed.def \in Defs
    /\ Validated(ed)

OneActive == \A r, s \in Active : r = s

\* Nothing before s can still run.
Done(s) == \A r \in Rows : r < s => queue[r].state \in {"completed", "failed"}

Staged(s) == \E i \in 1 .. Len(stages) : stages[i].seq = s

\* A stage belongs to a task that has been active, and so has nothing to run before it; it
\* has no evaluator only if no task before it could give one.
StageOK(st) ==
  /\ st.seq = 0 => st = Root
  /\ st.seq # 0 =>
       /\ st.seq \in Rows /\ queue[st.seq].state # "pending" /\ st.task = queue[st.seq].id
       /\ st.ac /\ (RunsOnSampler(queue[st.seq].def) => st.ev) /\ Done(st.seq)
  /\ ~st.ev => ~RootEvaluator /\ \A r \in Rows :
       r < st.seq /\ queue[r].state = "completed" => ~RunsOnSampler(queue[r].def)
StagesOK == \A i \in 1 .. Len(stages) : StageOK(stages[i])

CompletedStaged == \A s \in Rows : queue[s].state = "completed" => Staged(s)

\* What a control loop or the role works on was activated, and nothing runs before it.
Started(s) == s \in Rows /\ queue[s].state # "pending" /\ Done(s)

CtlOK(k) ==
  /\ k.pc \in {"apply", "complete"} => Started(k.seq) /\ RunsInControlPlane(queue[k.seq].def)
  /\ k.pc = "complete" => Staged(k.seq)

Sourced(s) ==
  \A x \in SourceNames(queue[s].def) : \E r \in Rows : r < s /\ queue[r].name = x /\ Staged(r)

RoleOK(k) ==
  /\ k.pc # "idle" => Started(k.seq) /\ RunsOnSampler(queue[k.seq].def) /\ k.id = queue[k.seq].id
  /\ k.pc = "run" => Sourced(k.seq)
  /\ k.pc = "complete" => Staged(k.seq)

\* The inductive invariant.
QueueInv ==
  /\ Typed /\ IdsOK
  /\ \A e \in Editors : EditorOK(editor[e])
  /\ QueueValid /\ OneActive /\ InOrder
  /\ StagesOK /\ CompletedStaged
  /\ \A c \in Controllers : CtlOK(ctl[c])
  /\ RoleOK(role)

-----------------------------------------------------------------------------
(* Numbers and lists.                                                      *)

\* Natural numbers have a least one.
LEMMA Least ==
  ASSUME NEW S \in SUBSET Nat, S # {}
  PROVE  \E m \in S : \A n \in S : m <= n
<1> DEFINE R == {ss \in Nat \X Nat : ss[1] < ss[2]}
<1>1. IsWellFoundedOn(R, Nat)
  BY NatLessThanWellFounded DEF OpToRel
<1>2. \A x, y \in Nat : <<y, x>> \in R <=> y < x
  OBVIOUS
<1> HIDE DEF R
<1>3. PICK m \in S : \A n \in S : ~ (<<n, m>> \in R)
  BY <1>1, WFMin
<1>4. \A n \in S : ~ (n < m)
  BY <1>2, <1>3
<1> QED BY <1>4

LEMMA FirstIsLeast ==
  ASSUME TaskQueueAssumption, NEW S \in SUBSET Seqs, S # {}
  PROVE  First(S) \in S /\ \A r \in S : First(S) <= r
<1>1. S \in SUBSET Nat
  BY DEF Seqs, TaskQueueAssumption
<1>2. \E s \in S : \A r \in S : s <= r
  BY <1>1, Least
<1> QED BY <1>2 DEF First

LEMMA SeqsFinite ==
  ASSUME TaskQueueAssumption
  PROVE  Seqs \subseteq Nat /\ IsFiniteSet(Seqs) /\ \A S \in SUBSET Seqs : IsFiniteSet(S) /\ Cardinality(S) \in Nat
<1>1. MaxSeq \in Nat /\ 1 \in Int
  BY DEF TaskQueueAssumption
<1>2. IsFiniteSet(1 .. MaxSeq)
  BY <1>1, FS_Interval
<1>3. \A S \in SUBSET Seqs : IsFiniteSet(S)
  BY <1>2, FS_Subset DEF Seqs
<1> QED BY <1>1, <1>2, <1>3, FS_CardinalityType DEF Seqs

\* A new row comes after every row there is.
LEMMA NextIsBehind ==
  ASSUME TaskQueueAssumption, NEW q, NEW r \in RowsOf(q)
  PROVE  Next1(q) \in Nat /\ r < Next1(q)
<1> DEFINE S == {s \in Seqs : \E x \in Seqs : x >= s /\ q[x] # None}
<1>1. r \in Nat /\ r >= 1 /\ r \in Seqs /\ MaxSeq \in Nat /\ r <= MaxSeq
  BY DEF RowsOf, Seqs, TaskQueueAssumption
<1>2. 1 .. r \in SUBSET S
  <2>1. ASSUME NEW s \in 1 .. r PROVE s \in S
    <3>1. s \in Seqs /\ r >= s /\ q[r] # None
      BY <1>1 DEF RowsOf, Seqs
    <3> QED BY <1>1, <3>1
  <2> QED BY <2>1
<1>3. S \in SUBSET Seqs
  OBVIOUS
<1>4. IsFiniteSet(S) /\ Cardinality(S) \in Nat
  BY <1>3, SeqsFinite
<1>5. Cardinality(1 .. r) = r
  BY <1>1, FS_Interval
<1>6. Cardinality(1 .. r) <= Cardinality(S)
  BY <1>2, <1>4, FS_Subset
<1>7. Next1(q) = Cardinality(S) + 1
  BY DEF Next1
<1> HIDE DEF S
<1> QED BY <1>1, <1>4, <1>5, <1>6, <1>7

\* The place of a row in the list of rows, and the row at a place.
Upto(S, s) == {r \in S : r <= s}
Nth(S, k)  == CHOOSE s \in S : Cardinality(Upto(S, s)) = k

LEMMA UptoCounts ==
  ASSUME TaskQueueAssumption, NEW S \in SUBSET Seqs
  PROVE  /\ \A s \in S : Cardinality(Upto(S, s)) \in 1 .. Cardinality(S)
         /\ \A r, s \in S : r < s => Cardinality(Upto(S, r)) < Cardinality(Upto(S, s))
<1>1. S \subseteq Nat /\ IsFiniteSet(S) /\ Cardinality(S) \in Nat
  BY SeqsFinite
<1>2. ASSUME NEW s \in S PROVE Cardinality(Upto(S, s)) \in 1 .. Cardinality(S)
  <2>1. Upto(S, s) \in SUBSET S /\ s \in Upto(S, s)
    BY <1>1 DEF Upto
  <2>2. IsFiniteSet(Upto(S, s)) /\ Cardinality(Upto(S, s)) <= Cardinality(S) /\ Cardinality(Upto(S, s)) \in Nat
    BY <1>1, <2>1, FS_Subset, FS_CardinalityType
  <2>3. Cardinality(Upto(S, s)) # 0
    BY <2>1, <2>2, FS_EmptySet
  <2> QED BY <1>1, <2>2, <2>3
<1>3. ASSUME NEW r \in S, NEW s \in S, r < s
      PROVE  Cardinality(Upto(S, r)) < Cardinality(Upto(S, s))
  <2>0. \A x \in S : x \in Nat /\ (x <= r => x <= s) /\ ~ (s <= r) /\ s <= s
    BY <1>1, <1>3
  <2>1. Upto(S, r) \in SUBSET Upto(S, s) /\ s \in Upto(S, s) /\ s \notin Upto(S, r)
    BY <2>0 DEF Upto
  <2>2. Upto(S, s) \in SUBSET S
    BY DEF Upto
  <2>3. IsFiniteSet(Upto(S, s))
    BY <1>1, <2>2, FS_Subset
  <2>4. Cardinality(Upto(S, r)) <= Cardinality(Upto(S, s)) /\ Cardinality(Upto(S, s)) # Cardinality(Upto(S, r))
    BY <2>1, <2>3, FS_Subset
  <2>5. Cardinality(Upto(S, r)) \in Nat /\ Cardinality(Upto(S, s)) \in Nat
    BY <1>2, <1>1
  <2> QED BY <2>4, <2>5
<1> QED BY <1>2, <1>3

LEMMA NthIs ==
  ASSUME TaskQueueAssumption, NEW S \in SUBSET Seqs
  PROVE  /\ \A k \in 1 .. Cardinality(S) : Nth(S, k) \in S /\ Cardinality(Upto(S, Nth(S, k))) = k
         /\ \A s \in S : Nth(S, Cardinality(Upto(S, s))) = s
         /\ \A j, k \in 1 .. Cardinality(S) : j < k => Nth(S, j) < Nth(S, k)
<1> DEFINE cnt(s) == Cardinality(Upto(S, s))
           f == [s \in S |-> cnt(s)]
           T == 1 .. Cardinality(S)
<1>1. S \subseteq Nat /\ IsFiniteSet(S) /\ Cardinality(S) \in Nat
  BY SeqsFinite
<1>2. \A s \in S : cnt(s) \in T
  BY UptoCounts
<1>3. \A r, s \in S : r < s => cnt(r) < cnt(s)
  BY UptoCounts
<1> HIDE DEF cnt
<1>4. \A r, s \in S : cnt(r) = cnt(s) => r = s
  <2>1. ASSUME NEW r \in S, NEW s \in S, cnt(r) = cnt(s), r # s PROVE FALSE
    <3>1. r < s \/ s < r
      BY <1>1, <2>1
    <3> QED BY <1>2, <1>3, <2>1, <3>1
  <2> QED BY <2>1
<1>5. f \in Injection(S, T)
  BY <1>2, <1>4 DEF Injection, IsInjective
<1>6. IsFiniteSet(T) /\ Cardinality(T) = Cardinality(S)
  BY <1>1, FS_Interval
<1>7. f \in Surjection(S, T)
  BY <1>5, <1>6, FS_Injection
<1>8. \A k \in T : \E s \in S : cnt(s) = k
  BY <1>7 DEF Surjection
<1>9. \A k \in T : Nth(S, k) \in S /\ cnt(Nth(S, k)) = k
  BY <1>8 DEF Nth, cnt
<1>10. \A s \in S : Nth(S, cnt(s)) = s
  BY <1>2, <1>4, <1>9
<1>11. ASSUME NEW j \in T, NEW k \in T, j < k PROVE Nth(S, j) < Nth(S, k)
  <2>1. Nth(S, j) # Nth(S, k) /\ ~ (Nth(S, k) < Nth(S, j))
    BY <1>3, <1>9, <1>11
  <2>2. Nth(S, j) \in Nat /\ Nth(S, k) \in Nat
    BY <1>1, <1>9
  <2> QED BY <2>1, <2>2
<1> QED BY <1>9, <1>10, <1>11 DEF cnt

-----------------------------------------------------------------------------
(* The queue as editors see it.                                            *)

LEMMA ListedIs ==
  ASSUME NEW q
  PROVE  Listed(q) = [k \in 1 .. Cardinality(RowsOf(q)) |->
           [seq |-> Nth(RowsOf(q), k), id |-> q[Nth(RowsOf(q), k)].id, name |-> q[Nth(RowsOf(q), k)].name,
            def |-> q[Nth(RowsOf(q), k)].def, tune |-> q[Nth(RowsOf(q), k)].tune]]
BY DEF Listed, RowsOf, Nth, Upto

LEMMA ListedLen ==
  ASSUME TaskQueueAssumption, NEW q
  PROVE  Len(Listed(q)) = Cardinality(RowsOf(q)) /\ RowsOf(q) \in SUBSET Seqs /\ Cardinality(RowsOf(q)) \in Nat
<1>1. RowsOf(q) \in SUBSET Seqs
  BY DEF RowsOf
<1>2. Cardinality(RowsOf(q)) \in Nat
  BY <1>1, SeqsFinite
<1> QED BY <1>1, <1>2, ListedIs

\* What an editor has seen tells it all there is but the states.
LEMMA ListedTells ==
  ASSUME TaskQueueAssumption, NEW p, NEW q, Listed(p) = Listed(q), NEW s \in RowsOf(p)
  PROVE  s \in RowsOf(q) /\ p[s].name = q[s].name /\ p[s].def = q[s].def
<1> DEFINE k == Cardinality(Upto(RowsOf(p), s))
<1>1. /\ Cardinality(RowsOf(p)) = Cardinality(RowsOf(q))
      /\ RowsOf(p) \in SUBSET Seqs /\ RowsOf(q) \in SUBSET Seqs
  BY ListedLen
<1>2. k \in 1 .. Cardinality(RowsOf(p)) /\ Nth(RowsOf(p), k) = s
  BY <1>1, UptoCounts, NthIs
<1>3. Nth(RowsOf(q), k) \in RowsOf(q)
  BY <1>1, <1>2, NthIs
<1> HIDE DEF k
<1>4. Listed(p)[k].seq = s /\ Listed(p)[k].name = p[s].name /\ Listed(p)[k].def = p[s].def
  BY <1>2, ListedIs
<1>5. /\ Listed(q)[k].seq = Nth(RowsOf(q), k) /\ Listed(q)[k].name = q[Nth(RowsOf(q), k)].name
      /\ Listed(q)[k].def = q[Nth(RowsOf(q), k)].def
  BY <1>1, <1>2, ListedIs
<1> QED BY <1>3, <1>4, <1>5

\* The preflight looks at names and definitions only.
LEMMA SamplingSame ==
  ASSUME NEW a, NEW b, Len(a) = Len(b),
         \A k \in 1 .. Len(a) : a[k].name = b[k].name /\ a[k].def = b[k].def
  PROVE  Sampling(a) = Sampling(b)
<1> DEFINE F(ts, known) ==
      [k \in 1 .. Len(ts) |->
        /\ ts[k].def.kind = "sample"
        /\ \/ ts[k].def.sm \in {"plain", "training", "inference", "raster"}
           \/ ts[k].def.sm = "latest" /\ \E j \in 1 .. k - 1 : known[j]
           \/ \E j \in 1 .. k - 1 : ts[j].name = ts[k].def.sm /\ known[j]]
<1>1. ASSUME NEW f PROVE F(a, f) = F(b, f)
  OBVIOUS
<1>2. Sampling(a) = (CHOOSE f : f = F(a, f)) /\ Sampling(b) = (CHOOSE f : f = F(b, f))
  BY DEF Sampling
<1> HIDE DEF F
<1>3. (CHOOSE f : f = F(a, f)) = (CHOOSE f : f = F(b, f))
  BY <1>1
<1> QED BY <1>2, <1>3

LEMMA ValidSame ==
  ASSUME NEW a, NEW b, Len(a) \in Nat, Len(a) = Len(b),
         \A k \in 1 .. Len(a) : a[k].name = b[k].name /\ a[k].def = b[k].def,
         Valid(a)
  PROVE  Valid(b)
<1>1. Sampling(a) = Sampling(b)
  BY SamplingSame
<1> SUFFICES ASSUME NEW k \in 1 .. Len(b) PROVE ValidTask(b, k)
  BY DEF Valid
<1>2. ValidTask(a, k)
  BY DEF Valid
<1>3. \A x : Named(a, k, x) = Named(b, k, x)
  BY DEF Named
<1>4. {a[j].name : j \in 1 .. k - 1} = {b[j].name : j \in 1 .. k - 1}
  OBVIOUS
<1>5. a[k].name = b[k].name /\ a[k].def = b[k].def /\ \A j \in 1 .. k - 1 : a[j].def = b[j].def
  OBVIOUS
<1>6. \A x, j : j \in Named(a, k, x) => j \in 1 .. k - 1
  BY DEF Named
<1> QED BY <1>1, <1>2, <1>3, <1>4, <1>5, <1>6 DEF ValidTask

\* So does the validity of a queue.
LEMMA ValidKept ==
  ASSUME TaskQueueAssumption, NEW p, NEW q, RowsOf(p) = RowsOf(q),
         \A s \in RowsOf(p) : p[s].name = q[s].name /\ p[s].def = q[s].def,
         Valid(Listed(p))
  PROVE  Valid(Listed(q))
<1>1. /\ Len(Listed(p)) = Cardinality(RowsOf(p)) /\ Len(Listed(q)) = Cardinality(RowsOf(p))
      /\ Cardinality(RowsOf(p)) \in Nat /\ RowsOf(p) \in SUBSET Seqs
  BY ListedLen
<1>2. \A k \in 1 .. Len(Listed(p)) : /\ Nth(RowsOf(p), k) \in RowsOf(p)
                                     /\ Listed(p)[k].name = p[Nth(RowsOf(p), k)].name
                                     /\ Listed(p)[k].def = p[Nth(RowsOf(p), k)].def
                                     /\ Listed(q)[k].name = q[Nth(RowsOf(p), k)].name
                                     /\ Listed(q)[k].def = q[Nth(RowsOf(p), k)].def
  BY <1>1, ListedIs, NthIs
<1> QED BY <1>1, <1>2, ValidSame

\* What the preflight promises of a row, in terms of the rows before it.
LEMMA Promised ==
  ASSUME TaskQueueAssumption, QueueValid, NEW s \in Rows
  PROVE  /\ \A x \in SourceNames(queue[s].def) : \E r \in Rows : r < s /\ queue[r].name = x
         /\ \A r \in Rows : r < s => queue[r].name # queue[s].name
         /\ AccumulatorSource(queue[s].def) = "latest" => \E r \in Rows : r < s
         /\ RunsOnSampler(queue[s].def) /\ queue[s].def.ev \in Names =>
              \E r \in Rows : r < s /\ queue[r].name = queue[s].def.ev /\ RunsOnSampler(queue[r].def)
         /\ RunsOnSampler(queue[s].def) /\ queue[s].def.ev \notin Names \cup {"config"} =>
              RootEvaluator \/ \E r \in Rows : r < s /\ RunsOnSampler(queue[r].def)
<1> DEFINE S == RowsOf(queue)
           ts == Listed(queue)
           k == Cardinality(Upto(S, s))
<1>1. S = Rows /\ S \in SUBSET Seqs /\ Len(ts) = Cardinality(S) /\ Cardinality(S) \in Nat
  BY ListedLen DEF Rows, RowsOf
<1>2. k \in 1 .. Len(ts) /\ Nth(S, k) = s
  BY <1>1, UptoCounts, NthIs
<1>3. \A j \in 1 .. Len(ts) : ts[j].name = queue[Nth(S, j)].name /\ ts[j].def = queue[Nth(S, j)].def
  BY <1>1, ListedIs
<1>4. ts[k].name = queue[s].name /\ ts[k].def = queue[s].def
  BY <1>2, <1>3
<1>5. \A j \in 1 .. k - 1 : Nth(S, j) \in Rows /\ Nth(S, j) < s
  BY <1>1, <1>2, NthIs
<1>6. \A r \in Rows : r < s => Cardinality(Upto(S, r)) \in 1 .. k - 1 /\ Nth(S, Cardinality(Upto(S, r))) = r
  BY <1>1, <1>2, UptoCounts, NthIs
<1>7. ValidTask(ts, k)
  BY <1>2 DEF QueueValid, Valid
<1>8. \A j \in 1 .. k - 1 : j \in 1 .. Len(ts)
  BY <1>1, <1>2
<1> HIDE DEF S, ts, k
<1>9. \A x \in SourceNames(queue[s].def) : \E r \in Rows : r < s /\ queue[r].name = x
  <2>1. ASSUME NEW x \in SourceNames(queue[s].def) PROVE \E r \in Rows : r < s /\ queue[r].name = x
    <3>1. PICK j \in 1 .. k - 1 : ts[j].name = x
      BY <1>4, <1>7 DEF ValidTask
    <3> QED BY <1>3, <1>5, <1>8, <3>1
  <2> QED BY <2>1
<1>10. ASSUME NEW r \in Rows, r < s, queue[r].name = queue[s].name PROVE FALSE
  <2>1. Cardinality(Upto(S, r)) \in Named(ts, k, ts[k].name)
    BY <1>3, <1>4, <1>6, <1>8, <1>10 DEF Named
  <2> QED BY <1>7, <2>1 DEF ValidTask
<1>11. AccumulatorSource(queue[s].def) = "latest" => \E r \in Rows : r < s
  <2>1. AccumulatorSource(queue[s].def) = "latest" => 1 \in 1 .. k - 1
    BY <1>2, <1>4, <1>7 DEF ValidTask
  <2> QED BY <1>5, <2>1
<1>12. ASSUME RunsOnSampler(queue[s].def), queue[s].def.ev \in Names
       PROVE  \E r \in Rows : r < s /\ queue[r].name = queue[s].def.ev /\ RunsOnSampler(queue[r].def)
  <2>1. queue[s].def.ev # "config"
    BY <1>12 DEF TaskQueueAssumption
  <2>2. PICK j \in Named(ts, k, queue[s].def.ev) : RunsOnSampler(ts[j].def)
    BY <1>4, <1>7, <1>12, <2>1 DEF ValidTask
  <2>3. j \in 1 .. k - 1 /\ ts[j].name = queue[s].def.ev
    BY DEF Named
  <2> QED BY <1>3, <1>5, <1>8, <2>2, <2>3
<1>13. ASSUME RunsOnSampler(queue[s].def), queue[s].def.ev \notin Names \cup {"config"}
       PROVE  RootEvaluator \/ \E r \in Rows : r < s /\ RunsOnSampler(queue[r].def)
  <2>1. RootEvaluator \/ \E j \in 1 .. k - 1 : RunsOnSampler(ts[j].def)
    BY <1>4, <1>7, <1>13 DEF ValidTask
  <2> QED BY <1>3, <1>5, <1>8, <2>1
<1> QED BY <1>9, <1>10, <1>11, <1>12, <1>13

-----------------------------------------------------------------------------
(* Stage snapshots.                                                        *)

\* The last stage before a row is one of those with the highest number.
LEMMA BeforeIs ==
  ASSUME stages \in Seq(Snapshot), NEW s \in Nat, \E i \in 1 .. Len(stages) : stages[i].seq < s
  PROVE  \E i \in 1 .. Len(stages) :
           /\ Before(s) = stages[i] /\ stages[i].seq < s
           /\ \A j \in 1 .. Len(stages) : stages[j].seq < s => stages[j].seq <= stages[i].seq
<1> DEFINE C == {i \in 1 .. Len(stages) : stages[i].seq < s}
           P(i) == \A j \in C : stages[j].seq < stages[i].seq \/ (stages[j].seq = stages[i].seq /\ j <= i)
<1>0. Len(stages) \in Nat /\ \A i \in 1 .. Len(stages) : stages[i] \in Snapshot
  OBVIOUS
<1>1. \A i \in 1 .. Len(stages) : i \in Nat /\ stages[i].seq \in Nat
  BY <1>0 DEF Snapshot
<1>2. \E i \in C : \A j \in C : stages[j].seq <= stages[i].seq
  <2> DEFINE D == {s - stages[i].seq : i \in C}
  <2>0. \A i \in C : s - stages[i].seq \in Nat
    BY <1>1
  <2>1. D \in SUBSET Nat /\ D # {}
    BY <2>0
  <2>2. PICK d \in D : \A e \in D : d <= e
    BY <2>1, Least
  <2>3. PICK i \in C : d = s - stages[i].seq
    OBVIOUS
  <2>4. \A j \in C : s - stages[i].seq <= s - stages[j].seq
    BY <2>2, <2>3
  <2>5. \A j \in C : stages[j].seq \in Nat /\ stages[i].seq \in Nat
    BY <1>1
  <2>6. \A j \in C : stages[j].seq <= stages[i].seq
    BY <2>4, <2>5
  <2> QED BY <2>6
<1>3. PICK m \in C : \A j \in C : stages[j].seq <= stages[m].seq
  BY <1>2
<1>4. \E i \in C : stages[i].seq = stages[m].seq /\ \A j \in C : stages[j].seq = stages[m].seq => j <= i
  <2> DEFINE D == {Len(stages) - i : i \in {i \in C : stages[i].seq = stages[m].seq}}
  <2>0. \A i \in C : Len(stages) - i \in Nat /\ i \in Nat
    BY <1>0
  <2>1. D \in SUBSET Nat /\ D # {}
    BY <1>3, <2>0
  <2>2. PICK d \in D : \A e \in D : d <= e
    BY <2>1, Least
  <2>3. PICK i \in C : stages[i].seq = stages[m].seq /\ d = Len(stages) - i
    OBVIOUS
  <2>4. \A j \in C : stages[j].seq = stages[m].seq => Len(stages) - i <= Len(stages) - j
    BY <2>2, <2>3
  <2>5. \A j \in C : stages[j].seq = stages[m].seq => j <= i
    BY <1>0, <2>0, <2>4
  <2> QED BY <2>3, <2>5
<1>5. \E i \in C : P(i)
  <2>1. PICK i \in C : stages[i].seq = stages[m].seq /\ \A j \in C : stages[j].seq = stages[m].seq => j <= i
    BY <1>4
  <2>2. \A j \in C : stages[j].seq \in Nat /\ stages[m].seq \in Nat
    BY <1>1
  <2>3. \A j \in C : stages[j].seq < stages[m].seq \/ stages[j].seq = stages[m].seq
    BY <1>3, <2>2
  <2>4. P(i)
    BY <2>1, <2>3
  <2> QED BY <2>4
<1>6. Before(s) = stages[CHOOSE i \in C : P(i)]
  BY DEF Before
<1>7. PICK i \in C : P(i) /\ Before(s) = stages[i]
  BY <1>5, <1>6
<1>8. \A j \in C : stages[j].seq <= stages[i].seq
  BY <1>1, <1>7
<1> QED BY <1>7, <1>8

\* Before a row there is at least the root stage.
LEMMA BeforeFound ==
  ASSUME Typed, StagesOK, NEW s \in Nat, s > 0
  PROVE  /\ Before(s) \in Snapshot /\ Before(s).seq < s /\ StageOK(Before(s))
         /\ \A r \in Nat : r < s /\ Staged(r) => r <= Before(s).seq
         /\ Before(s).seq # 0 => Staged(Before(s).seq)
<1>1. 1 \in 1 .. Len(stages) /\ stages[1].seq < s /\ stages \in Seq(Snapshot)
  BY DEF Typed, Root
<1>2. PICK i \in 1 .. Len(stages) :
        /\ Before(s) = stages[i] /\ stages[i].seq < s
        /\ \A j \in 1 .. Len(stages) : stages[j].seq < s => stages[j].seq <= stages[i].seq
  BY <1>1, BeforeIs
<1> QED BY <1>1, <1>2 DEF StagesOK, Staged

\* The stage of a name is found exactly if the task of that name has one.
LEMMA NamedFound ==
  ASSUME TaskQueueAssumption, Typed, IdsOK, StagesOK, NEW s \in Seqs, NEW x \in Names, NamedStage(s, x) # None
  PROVE  \E r \in Rows : r < s /\ queue[r].name = x /\ Staged(r)
<1> DEFINE C == {r \in Rows : queue[r].name = x /\ r < s}
           r == CHOOSE r \in C : TRUE
           st == Before(r + 1)
<1>1. C # {} /\ st.task = queue[r].id
  BY DEF NamedStage
<1>2. r \in C
  BY <1>1
<1> HIDE DEF r
<1>3. r \in Rows /\ r \in Nat /\ queue[r].name = x /\ r < s /\ queue[r] \in RowT /\ queue[r].id \in Nat /\ queue[r].id # 0
  <2>1. r \in Rows /\ r \in Nat /\ queue[r].name = x /\ r < s /\ queue[r] \in RowT
    BY <1>2 DEF Rows, Seqs, Typed, QueueT
  <2>2. queue[r].id \in 1 .. MaxSeq + MaxEdits + 1 /\ MaxSeq \in Nat /\ MaxEdits \in Nat
    BY <2>1 DEF RowT, TaskQueueAssumption
  <2> QED BY <2>1, <2>2
<1>4. StageOK(st) /\ st.seq \in Nat /\ (st.seq # 0 => Staged(st.seq))
  BY <1>3, BeforeFound DEF Snapshot
<1>5. st.seq # 0
  BY <1>1, <1>3, <1>4 DEF StageOK, Root
<1>6. st.seq \in Rows /\ queue[st.seq].id = queue[r].id
  BY <1>1, <1>4, <1>5 DEF StageOK
<1>7. st.seq = r
  BY <1>3, <1>6 DEF IdsOK
<1> QED BY <1>3, <1>4, <1>5, <1>7

LEMMA NamedIs ==
  ASSUME TaskQueueAssumption, Typed, IdsOK, StagesOK, QueueValid, NEW s \in Seqs,
         NEW r \in Rows, r < s, Staged(r)
  PROVE  LET st == NamedStage(s, queue[r].name)
         IN st \in Snapshot /\ st # None /\ st.seq = r /\ StageOK(st)
<1> DEFINE x == queue[r].name
           C == {t \in Rows : queue[t].name = x /\ t < s}
           st == Before(r + 1)
<1>1. r \in Nat /\ r > 0 /\ Rows \subseteq Nat
  BY DEF Rows, Seqs
<1>2. \A t \in C : t = r
  <2>1. ASSUME NEW t \in C, t # r PROVE FALSE
    <3>1. t \in Rows /\ queue[t].name = queue[r].name /\ (t < r \/ r < t)
      BY <1>1, <2>1
    <3> QED BY <3>1, Promised
  <2> QED BY <2>1
<1>3. r \in C
  OBVIOUS
<1>4. C # {} /\ (CHOOSE t \in C : TRUE) = r
  BY <1>2, <1>3
<1>5. st \in Snapshot /\ StageOK(st) /\ st.seq < r + 1 /\ r <= st.seq
  BY <1>1, BeforeFound
<1>6. st.seq = r
  BY <1>1, <1>5 DEF Snapshot
<1>7. st.task = queue[r].id
  BY <1>1, <1>5, <1>6 DEF StageOK
<1>8. NamedStage(s, x) = st
  BY <1>4, <1>7 DEF NamedStage
<1>9. None \notin Snapshot
  BY DEF TaskQueueAssumption
<1> QED BY <1>5, <1>6, <1>8, <1>9

-----------------------------------------------------------------------------
(* Steps that move tasks from state to state.                              *)

Move(s) ==
  \/ queue'[s].state = queue[s].state
  \/ queue[s].state \in {"pending", "active"} /\ queue'[s].state = "failed"
  \/ queue[s].state = "active" /\ queue'[s].state = "completed" /\ Staged(s)
  \/ queue[s].state = "pending" /\ queue'[s].state = "active" /\ Active = {} /\ s = First(Pending)

Moved ==
  /\ queue' = [s \in Seqs |-> queue'[s]]
  /\ \A s \in Seqs \ Rows : queue'[s] = queue[s]
  /\ \A s \in Rows : /\ queue'[s] \in RowT
                     /\ queue'[s].id = queue[s].id /\ queue'[s].name = queue[s].name
                     /\ queue'[s].def = queue[s].def
                     /\ Move(s)

LEMMA Unmoved ==
  ASSUME Typed, UNCHANGED queue
  PROVE  Moved
BY DEF Typed, QueueT, Moved, Move, Rows

LEMMA RowsTyped ==
  ASSUME TaskQueueAssumption, Typed
  PROVE  /\ \A s \in Rows : s \in Seqs /\ s \in Nat /\ s > 0 /\ queue[s] \in RowT /\ queue[s] # None
         /\ \A row \in RowT : row # None /\ row.id \in Nat /\ row.id > 0 /\ row.name \in Names /\ row.def \in Defs
                              /\ row.state \in States
<1>1. \A row \in RowT : row \in Row /\ row.id \in Nat /\ row.id > 0 /\ row.name \in Names /\ row.def \in Defs
                        /\ row.state \in States
  BY DEF RowT, Row, States, TaskQueueAssumption
<1>2. \A row \in RowT : row # None
  BY <1>1 DEF TaskQueueAssumption
<1>3. \A s \in Rows : s \in Seqs /\ s \in Nat /\ s > 0 /\ queue[s] \in RowT
  BY DEF Rows, Typed, QueueT, Seqs
<1> QED BY <1>1, <1>2, <1>3

\* What is known of a row that was activated stays so.
LEMMA MovedFacts ==
  ASSUME TaskQueueAssumption, Typed, InOrder, OneActive, Moved, UNCHANGED stages
  PROVE  /\ Rows' = Rows /\ queue' \in QueueT /\ HistoryKept
         /\ \A s : Staged(s)' <=> Staged(s)
         /\ \A s \in Rows : queue[s].state # "pending" => queue'[s].state # "pending"
         /\ \A s \in Rows : Done(s) => Done(s)'
         /\ \A s : Started(s) => Started(s)'
         /\ \A s \in Rows : Sourced(s) => Sourced(s)'
<1>1. Rows' = Rows
  <2>1. \A s \in Seqs : queue'[s] # None <=> queue[s] # None
    BY RowsTyped DEF Moved, Rows
  <2> QED BY <2>1 DEF Rows
<1>2. queue' \in QueueT
  <2>1. \A s \in Seqs : queue'[s] \in {None} \cup RowT
    BY DEF Moved, Rows
  <2> QED BY <2>1 DEF Moved, QueueT
<1>3. \A s \in Rows : queue[s].state \in {"completed", "failed"} => queue'[s].state = queue[s].state
  BY DEF Moved, Move
<1>4. \A s \in Rows : queue[s].state # "pending" => queue'[s].state # "pending"
  BY DEF Moved, Move
<1>5. HistoryKept
  <2>1. \A s \in Rows : queue'[s] # None
    BY RowsTyped DEF Moved
  <2> QED BY <1>3, <2>1 DEF HistoryKept, Moved
<1>6. \A s : Staged(s)' <=> Staged(s)
  BY DEF Staged
<1>7. \A s \in Rows : Done(s) => Done(s)'
  BY <1>1, <1>3 DEF Done
<1>8. \A s : Started(s) => Started(s)'
  BY <1>1, <1>4, <1>7 DEF Started
<1>9. \A s \in Rows : Sourced(s) => Sourced(s)'
  <2>1. \A s \in Rows : queue'[s].name = queue[s].name /\ queue'[s].def = queue[s].def
    BY DEF Moved
  <2> QED BY <1>1, <1>6, <2>1 DEF Sourced
<1> QED BY <1>1, <1>2, <1>4, <1>5, <1>6, <1>7, <1>8, <1>9

\* The rows and stages stay as they have to be.
LEMMA MovedRows ==
  ASSUME TaskQueueAssumption, QueueInv, Moved, UNCHANGED stages
  PROVE  QueueValid' /\ OneActive' /\ InOrder' /\ StagesOK' /\ CompletedStaged'
<1>1. /\ Typed /\ InOrder /\ OneActive /\ Rows' = Rows /\ queue' \in QueueT
      /\ \A s : Staged(s)' <=> Staged(s)
      /\ \A s \in Rows : Done(s) => Done(s)'
      /\ \A s \in Rows : queue'[s].id = queue[s].id /\ queue'[s].name = queue[s].name
                         /\ queue'[s].def = queue[s].def /\ Move(s)
  BY MovedFacts DEF QueueInv, Moved
<1>2. Rows \subseteq Nat /\ Pending \subseteq Rows /\ Pending \in SUBSET Seqs /\ \A s \in Rows : queue[s].state \in States
  BY <1>1, RowsTyped DEF Pending, Rows
<1>3. QueueValid'
  <2>1. RowsOf(queue') = RowsOf(queue) /\ RowsOf(queue) = Rows
    BY <1>1 DEF Rows, RowsOf
  <2>2. Valid(Listed(queue))
    BY DEF QueueInv, QueueValid
  <2>3. Valid(Listed(queue'))
    BY <1>1, <2>1, <2>2, ValidKept
  <2> QED BY <2>3 DEF QueueValid
<1>4. \A s \in Active' : s \in Active \/ (Active = {} /\ s \in Pending /\ s = First(Pending))
  BY <1>1 DEF Active, Pending, Move
<1>5. OneActive'
  BY <1>1, <1>4 DEF OneActive
<1>6. InOrder'
  <2>1. \A s \in Pending' : s \in Pending
    BY <1>1 DEF Pending, Move
  <2>2. \A r \in Rows : queue'[r].state \in {"active", "completed"} =>
          queue[r].state \in {"active", "completed"} \/ (r \in Pending /\ r = First(Pending))
    BY <1>1, <1>2 DEF Pending, Move
  <2>3. ASSUME NEW s \in Pending', NEW r \in Rows, queue'[r].state \in {"active", "completed"} PROVE r < s
    <3>1. CASE queue[r].state \in {"active", "completed"}
      BY <1>1, <2>1, <3>1 DEF InOrder
    <3>2. CASE r \in Pending /\ r = First(Pending)
      <4>1. r <= s
        BY <1>2, <2>1, <3>2, FirstIsLeast
      <4>2. r # s
        BY <2>3 DEF Pending
      <4>3. r \in Nat /\ s \in Nat
        BY <1>2, <2>1
      <4> QED BY <4>1, <4>2, <4>3
    <3> QED BY <2>2, <2>3, <3>1, <3>2
  <2> QED BY <1>1, <2>3 DEF InOrder
<1>7. CompletedStaged'
  BY <1>1 DEF QueueInv, CompletedStaged, Move
<1>8. StagesOK'
  <2> SUFFICES ASSUME NEW i \in 1 .. Len(stages) PROVE StageOK(stages[i])'
    BY DEF StagesOK
  <2> DEFINE st == stages[i]
  <2>1. StageOK(st) /\ st' = st
    BY DEF QueueInv, StagesOK
  <2> HIDE DEF st
  <2>2. st.seq # 0 => st.seq \in Rows /\ queue'[st.seq].state # "pending" /\ Done(st.seq)'
    BY <1>1, <2>1 DEF StageOK, Move
  <2>3. ASSUME ~ st.ev, NEW r \in Rows, r < st.seq, queue'[r].state = "completed"
        PROVE  ~ RunsOnSampler(queue'[r].def)
    <3>1. st.seq # 0
      BY <1>2, <2>1, <2>3, RowsTyped, <1>1
    <3>2. queue[r].state \in {"completed", "failed"}
      BY <2>1, <2>3, <3>1 DEF StageOK, Done
    <3>3. queue[r].state = "completed"
      BY <1>1, <2>3, <3>2 DEF Move
    <3> QED BY <1>1, <2>1, <2>3, <3>3 DEF StageOK
  <2>4. StageOK(st)'
    BY <1>1, <2>1, <2>2, <2>3 DEF StageOK
  <2> QED BY <2>1, <2>4 DEF st
<1> QED BY <1>3, <1>5, <1>6, <1>7, <1>8

\* Control loops and the role keep what they hold, unless the step is theirs.
LEMMA MovedKept ==
  ASSUME TaskQueueAssumption, QueueInv, Moved, UNCHANGED <<stages, editor, ids>>,
         edits' = edits \/ (edits < MaxEdits /\ edits' = edits + 1),
         open' \in BOOLEAN, assigned' \in BOOLEAN,
         ctl' \in [Controllers -> CtlT], lock' \in Controllers \cup {None}, live' \subseteq Controllers,
         role' \in RoleT,
         \A c \in Controllers : ctl'[c] = ctl[c] \/ CtlOK(ctl[c])',
         role' = role \/ RoleOK(role)'
  PROVE  QueueInv' /\ HistoryKept
<1>1. /\ Typed /\ InOrder /\ OneActive /\ Rows' = Rows /\ queue' \in QueueT /\ HistoryKept
      /\ \A s : Staged(s)' <=> Staged(s)
      /\ \A s : Started(s) => Started(s)'
      /\ \A s \in Rows : Sourced(s) => Sourced(s)'
      /\ \A s \in Rows : queue'[s].id = queue[s].id /\ queue'[s].def = queue[s].def
  BY MovedFacts DEF QueueInv, Moved
<1>2. QueueValid' /\ OneActive' /\ InOrder' /\ StagesOK' /\ CompletedStaged'
  BY MovedRows
<1>3. Typed'
  BY <1>1 DEF Typed
<1>4. IdsOK'
  <2>1. IdsOK /\ MaxEdits \in Nat /\ MaxSeq \in Nat
    BY DEF QueueInv, TaskQueueAssumption
  <2>2. Appending' = Appending
    BY DEF Appending
  <2> DEFINE n == Cardinality(Appending)
  <2>3. n' = n
    BY <2>2
  <2>4. ids + n <= MaxSeq + 1 + edits' /\ edits' \in 0 .. MaxEdits
    <3>1. CASE edits' = edits
      BY <2>1, <3>1 DEF IdsOK
    <3>2. CASE edits < MaxEdits /\ edits' = edits + 1
      <4>1. Cardinality(Appending) \in Int
        <5>1. IsFiniteSet(Editors) /\ Appending \in SUBSET Editors
          BY DEF Appending, TaskQueueAssumption
        <5> QED BY <5>1, FS_Subset, FS_CardinalityType
      <4> QED BY <2>1, <3>2, <4>1 DEF IdsOK
    <3> QED BY <3>1, <3>2
  <2> HIDE DEF n
  <2>5. ids' + n' <= MaxSeq + 1 + edits'
    BY <2>3, <2>4
  <2> QED BY <1>1, <2>1, <2>4, <2>5 DEF IdsOK, n
<1>5. \A e \in Editors : EditorOK(editor[e])'
  BY DEF QueueInv, EditorOK, Validated
<1>6. \A c \in Controllers : CtlOK(ctl[c])'
  <2>1. ASSUME NEW c \in Controllers, ctl'[c] = ctl[c] PROVE CtlOK(ctl[c])'
    <3>1. CtlOK(ctl[c])
      BY DEF QueueInv
    <3> QED BY <1>1, <2>1, <3>1 DEF CtlOK, Started
  <2> QED BY <2>1
<1>7. RoleOK(role)'
  <2>1. ASSUME role' = role PROVE RoleOK(role)'
    <3>1. RoleOK(role)
      BY DEF QueueInv
    <3> QED BY <1>1, <2>1, <3>1 DEF RoleOK, Started
  <2> QED BY <2>1
<1> QED BY <1>1, <1>2, <1>3, <1>4, <1>5, <1>6, <1>7 DEF QueueInv

\* A stage is added for a task that was activated.
LEMMA StageAdded ==
  ASSUME TaskQueueAssumption, QueueInv, NEW st \in Snapshot, StageOK(st), st.seq # 0,
         stages' = Append(stages, st), UNCHANGED <<queue, open, assigned, editor, live, ids, edits>>,
         ctl' \in [Controllers -> CtlT], lock' \in Controllers \cup {None}, role' \in RoleT,
         \A c \in Controllers : ctl'[c] = ctl[c] \/ (Staged(st.seq)' => CtlOK(ctl[c])'),
         role' = role \/ (Staged(st.seq)' => RoleOK(role)')
  PROVE  QueueInv' /\ HistoryKept
<1>1. /\ Typed /\ IdsOK /\ QueueValid /\ OneActive /\ InOrder /\ StagesOK /\ CompletedStaged
      /\ Len(stages) \in Nat
  BY DEF QueueInv, Typed
<1>2. /\ Len(stages') = Len(stages) + 1 /\ stages'[Len(stages) + 1] = st
      /\ \A i \in 1 .. Len(stages) : stages'[i] = stages[i]
      /\ stages' \in Seq(Snapshot)
  BY <1>1 DEF Typed
<1>3. Rows' = Rows /\ Active' = Active /\ Pending' = Pending /\ \A s : Done(s)' <=> Done(s)
  BY DEF Rows, Active, Pending, Done
<1>4. \A s : Staged(s) => Staged(s)'
  <2>1. ASSUME NEW s, NEW i \in 1 .. Len(stages), stages[i].seq = s PROVE Staged(s)'
    BY <1>1, <1>2, <2>1 DEF Staged
  <2> QED BY <2>1 DEF Staged
<1>5. Staged(st.seq)'
  <2>1. Len(stages) + 1 \in 1 .. Len(stages')
    BY <1>1, <1>2
  <2> QED BY <1>2, <2>1 DEF Staged
<1>6. HistoryKept
  BY DEF HistoryKept, Rows
<1>7. Typed'
  BY <1>1, <1>2 DEF Typed
<1>8. IdsOK' /\ QueueValid' /\ OneActive' /\ InOrder'
  <2>1. Appending' = Appending
    BY DEF Appending
  <2>2. IdsOK'
    BY <1>1, <1>3, <2>1 DEF IdsOK
  <2> QED BY <1>1, <1>3, <2>2 DEF QueueValid, OneActive, InOrder
<1>9. CompletedStaged'
  BY <1>1, <1>3, <1>4 DEF CompletedStaged
<1>10. StagesOK'
  <2>1. ASSUME NEW t, StageOK(t) PROVE StageOK(t)'
    BY <1>3, <2>1 DEF StageOK
  <2>2. \A i \in 1 .. Len(stages') : StageOK(stages'[i])
    <3>1. ASSUME NEW i \in 1 .. Len(stages') PROVE StageOK(stages'[i])
      <4>1. i \in 1 .. Len(stages) \/ i = Len(stages) + 1
        BY <1>1, <1>2
      <4> QED BY <1>1, <1>2, <4>1 DEF StagesOK
    <3> QED BY <3>1
  <2>3. ASSUME NEW i \in 1 .. Len(stages') PROVE StageOK(stages[i])'
    <3>1. StageOK(stages'[i])
      BY <2>2
    <3> QED BY <1>3, <3>1 DEF StageOK
  <2> QED BY <2>3 DEF StagesOK
<1>11. \A e \in Editors : EditorOK(editor[e])'
  BY DEF QueueInv, EditorOK, Validated
<1>12. \A s : (Started(s) => Started(s)') /\ (Sourced(s) => Sourced(s)')
  BY <1>3, <1>4 DEF Started, Sourced
<1>13. \A c \in Controllers : CtlOK(ctl[c])'
  <2>1. ASSUME NEW c \in Controllers, ctl'[c] = ctl[c] PROVE CtlOK(ctl[c])'
    <3>1. CtlOK(ctl[c])
      BY DEF QueueInv
    <3> QED BY <1>4, <1>12, <2>1, <3>1 DEF CtlOK
  <2> QED BY <1>5, <2>1
<1>14. RoleOK(role)'
  <2>1. ASSUME role' = role PROVE RoleOK(role)'
    <3>1. RoleOK(role)
      BY DEF QueueInv
    <3> QED BY <1>4, <1>12, <2>1, <3>1 DEF RoleOK
  <2> QED BY <1>5, <2>1
<1> QED BY <1>6, <1>7, <1>8, <1>9, <1>10, <1>11, <1>13, <1>14 DEF QueueInv

-----------------------------------------------------------------------------
(* The steps of the control loops.                                         *)

LEMMA Touched ==
  ASSUME TaskQueueAssumption, Typed, NEW s \in Rows, NEW x \in States, queue' = [queue EXCEPT ![s].state = x],
         \/ x = queue[s].state
         \/ queue[s].state \in {"pending", "active"} /\ x = "failed"
         \/ queue[s].state = "active" /\ x = "completed" /\ Staged(s)
         \/ queue[s].state = "pending" /\ x = "active" /\ Active = {} /\ s = First(Pending)
  PROVE  Moved /\ queue'[s].state = x /\ \A r \in Seqs : r # s => queue'[r] = queue[r]
<1> DEFINE row == [queue[s] EXCEPT !.state = x]
<1>1. /\ s \in Seqs /\ queue[s] \in RowT /\ \A r \in Rows : r \in Seqs /\ queue[r] \in RowT
      /\ queue = [r \in Seqs |-> queue[r]]
  BY RowsTyped DEF Typed, QueueT
<1>2. /\ row \in RowT /\ row.state = x /\ row.id = queue[s].id /\ row.name = queue[s].name
      /\ row.def = queue[s].def
  BY <1>1 DEF RowT
<1> HIDE DEF row
<1>3. queue' = [queue EXCEPT ![s] = row]
  BY DEF row
<1>4. queue'[s] = row /\ queue' = [r \in Seqs |-> queue'[r]] /\ \A r \in Seqs : r # s => queue'[r] = queue[r]
  BY <1>1, <1>3
<1>5. Moved
  <2>1. ASSUME NEW r \in Rows
        PROVE  /\ queue'[r] \in RowT /\ queue'[r].id = queue[r].id /\ queue'[r].name = queue[r].name
               /\ queue'[r].def = queue[r].def /\ Move(r)
    <3>1. CASE r = s
      BY <1>2, <1>4, <3>1 DEF Move
    <3>2. CASE r # s
      BY <1>1, <1>4, <3>2 DEF Move
    <3> QED BY <3>1, <3>2
  <2> QED BY <1>4, <2>1 DEF Moved
<1> QED BY <1>2, <1>4, <1>5

\* The row that is active first is started.
LEMMA ActiveStarted ==
  ASSUME TaskQueueAssumption, QueueInv, Active # {}
  PROVE  First(Active) \in Active /\ Started(First(Active))
<1>1. Typed /\ InOrder /\ OneActive /\ Active \subseteq Rows
  BY DEF QueueInv, Active
<1>2. Active \in SUBSET Seqs /\ \A r \in Rows : r \in Nat /\ queue[r].state \in States
  BY <1>1, RowsTyped
<1>3. First(Active) \in Active
  BY <1>2, FirstIsLeast
<1>4. ASSUME NEW r \in Rows, r < First(Active) PROVE queue[r].state \in {"completed", "failed"}
  <2>1. r \notin Pending
    BY <1>1, <1>2, <1>3, <1>4 DEF InOrder, Active
  <2>2. r \notin Active
    BY <1>1, <1>2, <1>3, <1>4 DEF OneActive
  <2> QED BY <1>2, <2>1, <2>2 DEF Pending, Active, States
<1>5. First(Active) \in Rows /\ queue[First(Active)].state # "pending"
  BY <1>3 DEF Active
<1> QED BY <1>3, <1>4, <1>5 DEF Started, Done

LEMMA CtlSet ==
  ASSUME Typed, NEW c \in Controllers, NEW k \in CtlT, ctl' = [ctl EXCEPT ![c] = k]
  PROVE  /\ ctl' \in [Controllers -> CtlT] /\ ctl'[c] = k
         /\ \A d \in Controllers : d # c => ctl'[d] = ctl[d]
BY DEF Typed

LEMMA TickEnded ==
  ASSUME TaskQueueAssumption, Typed, NEW c \in Controllers, EndTick(c)
  PROVE  /\ ctl' \in [Controllers -> CtlT] /\ lock' \in Controllers \cup {None}
         /\ \A d \in Controllers : ctl'[d] = ctl[d] \/ CtlOK(ctl[d])'
<1>1. IdleCtl \in CtlT /\ IdleCtl.pc = "idle"
  BY DEF IdleCtl, CtlT, TaskQueueAssumption
<1>2. ctl' = [ctl EXCEPT ![c] = IdleCtl]
  BY DEF EndTick
<1>3. /\ ctl' \in [Controllers -> CtlT] /\ ctl'[c] = IdleCtl
      /\ \A d \in Controllers : d # c => ctl'[d] = ctl[d]
  BY <1>1, <1>2, CtlSet
<1>4. CtlOK(ctl[c])'
  BY <1>1, <1>3 DEF CtlOK
<1>5. lock' \in Controllers \cup {None}
  BY DEF EndTick, Typed
<1> QED BY <1>3, <1>4, <1>5

LEMMA Stepped ==
  ASSUME Typed, NEW c \in Controllers, NEW pc, NEW seq, NEW done, Step(c, pc, seq, done),
         pc \in {"idle", "load", "count", "activate", "apply", "complete", "finish"}, seq \in 0 .. MaxSeq,
         done \in BOOLEAN
  PROVE  /\ ctl' \in [Controllers -> CtlT] /\ lock' \in Controllers \cup {None}
         /\ ctl'[c].pc = pc /\ ctl'[c].seq = seq
         /\ \A d \in Controllers : d # c => ctl'[d] = ctl[d]
         /\ pc \notin {"apply", "complete"} => CtlOK(ctl[c])'
<1> DEFINE k == [pc |-> pc, seq |-> seq, done |-> done]
<1>1. k \in CtlT /\ k.pc = pc /\ k.seq = seq
  BY DEF CtlT
<1>2. ctl' = [ctl EXCEPT ![c] = k] /\ lock' \in Controllers \cup {None}
  BY DEF Step, Typed
<1> HIDE DEF k
<1>3. ctl' \in [Controllers -> CtlT] /\ ctl'[c] = k /\ \A d \in Controllers : d # c => ctl'[d] = ctl[d]
  BY <1>1, <1>2, CtlSet
<1> QED BY <1>1, <1>2, <1>3 DEF CtlOK

LEMMA ControlKept ==
  ASSUME TaskQueueAssumption, QueueInv, NEW c \in Controllers,
         BeginTick(c) \/ LoadActive(c) \/ Count(c) \/ FinishRun(c) \/ TickFails(c) \/ LockLost(c)
  PROVE  QueueInv' /\ HistoryKept
<1>1. Typed /\ ctl[c] \in CtlT /\ ctl[c].done \in BOOLEAN /\ lock \in Controllers \cup {None} /\ live \subseteq Controllers
      /\ role \in RoleT /\ open \in BOOLEAN /\ assigned \in BOOLEAN /\ ctl \in [Controllers -> CtlT]
      /\ MaxSeq \in Nat
  BY DEF QueueInv, Typed, CtlT, TaskQueueAssumption
<1>2. UNCHANGED <<queue, stages, editor, ids, role, open, edits>>
  BY DEF BeginTick, LoadActive, Count, FinishRun, TickFails, LockLost
<1>3. Moved
  BY <1>1, <1>2, Unmoved
<1>4. 0 \in 0 .. MaxSeq
  BY <1>1
<1>5. CASE BeginTick(c)
  <2>1. ctl' = [ctl EXCEPT ![c] = [ctl[c] EXCEPT !.pc = "load"]] /\ lock' = c /\ UNCHANGED <<assigned, live>>
    BY <1>5 DEF BeginTick
  <2> DEFINE k == [ctl[c] EXCEPT !.pc = "load"]
  <2>2. k \in CtlT /\ k.pc = "load"
    BY <1>1 DEF CtlT
  <2> HIDE DEF k
  <2>3. ctl' = [ctl EXCEPT ![c] = k]
    BY <2>1 DEF k
  <2>4. /\ ctl' \in [Controllers -> CtlT] /\ ctl'[c] = k
        /\ \A d \in Controllers : d # c => ctl'[d] = ctl[d]
    BY <1>1, <2>2, <2>3, CtlSet
  <2>5. CtlOK(ctl[c])'
    BY <2>2, <2>4 DEF CtlOK
  <2> QED BY <1>1, <1>2, <1>3, <2>1, <2>4, <2>5, MovedKept
<1>6. CASE LoadActive(c)
  <2>1. UNCHANGED <<assigned, live>>
    BY <1>6 DEF LoadActive
  <2>2. CASE EndTick(c)
    BY <1>1, <1>2, <1>3, <2>1, <2>2, TickEnded, MovedKept
  <2>3. CASE Step(c, "count", 0, FALSE)
    BY <1>1, <1>2, <1>3, <1>4, <2>1, <2>3, Stepped, MovedKept
  <2>4. CASE /\ Active # {} /\ RunsInControlPlane(queue[First(Active)].def)
             /\ Step(c, "apply", First(Active), FALSE)
    <3>1. Started(First(Active)) /\ First(Active) \in Seqs
      BY <2>4, ActiveStarted DEF Active, Rows
    <3>2. First(Active) \in 0 .. MaxSeq
      BY <1>1, <3>1 DEF Seqs
    <3>3. /\ ctl' \in [Controllers -> CtlT] /\ lock' \in Controllers \cup {None}
          /\ ctl'[c].pc = "apply" /\ ctl'[c].seq = First(Active)
          /\ \A d \in Controllers : d # c => ctl'[d] = ctl[d]
      BY <1>1, <2>4, <3>2, Stepped
    <3> DEFINE s == First(Active)
    <3>4. Started(s) /\ RunsInControlPlane(queue[s].def) /\ ctl'[c].seq = s
      BY <2>4, <3>1, <3>3
    <3> HIDE DEF s
    <3>5. CtlOK(ctl[c])'
      BY <1>2, <3>3, <3>4 DEF CtlOK, Started, Done, Rows
    <3> QED BY <1>1, <1>2, <1>3, <2>1, <3>3, <3>5, MovedKept
  <2> QED BY <1>6, <2>2, <2>3, <2>4 DEF LoadActive
<1>7. CASE Count(c)
  <2>1. UNCHANGED <<assigned, live>>
    BY <1>7 DEF Count
  <2>2. CASE EndTick(c)
    BY <1>1, <1>2, <1>3, <2>1, <2>2, TickEnded, MovedKept
  <2>3. CASE Step(c, "activate", 0, ctl[c].done)
    BY <1>1, <1>2, <1>3, <1>4, <2>1, <2>3, Stepped, MovedKept
  <2> QED BY <1>7, <2>2, <2>3 DEF Count
<1>8. CASE FinishRun(c) \/ TickFails(c)
  <2>1. EndTick(c) /\ assigned' \in BOOLEAN /\ live' \subseteq Controllers
    BY <1>1, <1>8 DEF FinishRun, TickFails
  <2> QED BY <1>1, <1>2, <1>3, <2>1, TickEnded, MovedKept
<1>9. CASE LockLost(c)
  <2>1. lock' \in Controllers \cup {None} /\ live' \subseteq Controllers /\ UNCHANGED <<ctl, assigned>>
    BY <1>1, <1>9 DEF LockLost
  <2> QED BY <1>1, <1>2, <1>3, <2>1, MovedKept
<1> QED BY <1>5, <1>6, <1>7, <1>8, <1>9

\* The next task is activated: the first that is pending, while none is active.
LEMMA ActivateKept ==
  ASSUME TaskQueueAssumption, QueueInv, NEW c \in Controllers, Activate(c)
  PROVE  QueueInv' /\ HistoryKept
<1>1. /\ Typed /\ InOrder /\ role \in RoleT /\ open \in BOOLEAN /\ assigned \in BOOLEAN /\ live \subseteq Controllers
      /\ MaxSeq \in Nat /\ 0 \in 0 .. MaxSeq
      /\ UNCHANGED <<stages, open, assigned, editor, role, live, ids, edits>>
  BY DEF QueueInv, Typed, TaskQueueAssumption, Activate
<1>2. \A r \in Rows : r \in Seqs /\ r \in Nat /\ queue[r].state \in States
  BY <1>1, RowsTyped
<1>3. CASE Step(c, "finish", 0, FALSE) /\ UNCHANGED queue
  BY <1>1, <1>3, Unmoved, Stepped, MovedKept
<1>4. CASE EndTick(c) /\ UNCHANGED queue
  BY <1>1, <1>4, Unmoved, TickEnded, MovedKept
<1>5. CASE /\ Pending # {} /\ Active = {}
           /\ queue' = [queue EXCEPT ![First(Pending)].state = "active"]
           /\ IF RunsInControlPlane(queue[First(Pending)].def) THEN Step(c, "apply", First(Pending), TRUE)
                                                               ELSE EndTick(c)
  <2> DEFINE s == First(Pending)
  <2>1. s \in Pending /\ \A r \in Pending : s <= r
    <3>1. Pending \in SUBSET Seqs
      BY <1>2 DEF Pending
    <3> QED BY <1>5, <3>1, FirstIsLeast
  <2>2. s \in Rows /\ queue[s].state = "pending" /\ s = First(Pending)
    BY <2>1 DEF Pending
  <2>3. /\ queue' = [queue EXCEPT ![s].state = "active"]
        /\ RunsInControlPlane(queue[s].def) => Step(c, "apply", s, TRUE)
        /\ ~ RunsInControlPlane(queue[s].def) => EndTick(c)
    BY <1>5
  <2> HIDE DEF s
  <2>4. Moved /\ queue'[s].state = "active" /\ \A r \in Seqs : r # s => queue'[r] = queue[r]
    BY <1>1, <1>5, <2>2, <2>3, Touched DEF States
  <2>5. CASE ~ RunsInControlPlane(queue[s].def)
    BY <1>1, <2>3, <2>4, <2>5, TickEnded, MovedKept
  <2>6. CASE RunsInControlPlane(queue[s].def)
    <3>1. s \in 0 .. MaxSeq
      BY <1>1, <1>2, <2>2 DEF Seqs
    <3>2. /\ ctl' \in [Controllers -> CtlT] /\ lock' \in Controllers \cup {None}
          /\ ctl'[c].pc = "apply" /\ ctl'[c].seq = s
          /\ \A d \in Controllers : d # c => ctl'[d] = ctl[d]
      BY <1>1, <2>3, <2>6, <3>1, Stepped
    <3>3. Rows' = Rows /\ queue'[s].def = queue[s].def
      BY <1>1, <2>2, <2>4, MovedFacts DEF QueueInv, Moved
    <3>4. \A r \in Rows : r < s => queue'[r].state \in {"completed", "failed"}
      <4>1. ASSUME NEW r \in Rows, r < s PROVE queue'[r].state \in {"completed", "failed"}
        <5>1. r \notin Pending /\ r \notin Active /\ r # s
          BY <1>2, <1>5, <2>1, <2>2, <4>1
        <5>2. queue[r].state \in {"completed", "failed"}
          BY <1>2, <5>1 DEF Pending, Active, States
        <5> QED BY <1>2, <2>4, <5>1, <5>2
      <4> QED BY <4>1
    <3>5. CtlOK(ctl[c])'
      BY <2>2, <2>4, <2>6, <3>2, <3>3, <3>4 DEF CtlOK, Started, Done
    <3> QED BY <1>1, <2>4, <3>2, <3>5, MovedKept
  <2> QED BY <2>5, <2>6
<1> QED BY <1>3, <1>4, <1>5 DEF Activate, MayActivate

\* The stage of a set_accumulator task takes over the evaluator of the stage before it.
LEMMA SaveSetStageKept ==
  ASSUME TaskQueueAssumption, QueueInv, NEW c \in Controllers, SaveSetStage(c)
  PROVE  QueueInv' /\ HistoryKept
<1> DEFINE s == ctl[c].seq
           old == Before(s)
           st == [old EXCEPT !.seq = s, !.task = queue[s].id, !.ac = TRUE]
<1>1. /\ Typed /\ StagesOK /\ CompletedStaged /\ role \in RoleT /\ ctl[c].pc = "apply"
      /\ stages' = Append(stages, st) /\ Step(c, "complete", s, TRUE)
      /\ UNCHANGED <<queue, open, assigned, editor, role, live, ids, edits>>
  BY DEF QueueInv, Typed, SaveSetStage
<1>2. Started(s) /\ RunsInControlPlane(queue[s].def)
  BY <1>1 DEF QueueInv, CtlOK
<1>3. s \in Rows /\ s \in Nat /\ s > 0 /\ s \in 0 .. MaxSeq /\ queue[s].id \in Nat /\ Rows \subseteq Nat
  <2>1. s \in Rows /\ queue[s] \in RowT /\ Rows \subseteq Nat /\ s > 0 /\ s \in Seqs
    BY <1>1, <1>2, RowsTyped DEF Started
  <2> QED BY <1>1, <2>1, RowsTyped DEF Seqs
<1>4. /\ old \in Snapshot /\ old.seq < s /\ StageOK(old)
      /\ \A r \in Nat : r < s /\ Staged(r) => r <= old.seq
  BY <1>1, <1>3, BeforeFound
<1> HIDE DEF old
<1>5. st \in Snapshot /\ st.seq = s /\ st.task = queue[s].id /\ st.ac = TRUE /\ st.ev = old.ev
  BY <1>3, <1>4 DEF Snapshot
<1> HIDE DEF st
<1>6. ASSUME ~ st.ev, NEW r \in Rows, r < s, queue[r].state = "completed", RunsOnSampler(queue[r].def) PROVE FALSE
  <2>1. Staged(r) /\ r <= old.seq /\ r # 0 /\ old.seq \in Nat
    BY <1>1, <1>3, <1>4, <1>6, RowsTyped DEF CompletedStaged, Snapshot
  <2>2. ~ (r < old.seq)
    BY <1>4, <1>5, <1>6 DEF StageOK
  <2>3. old.seq = r
    BY <1>3, <2>1, <2>2
  <2>4. old.ev
    BY <1>4, <1>6, <2>1, <2>3 DEF StageOK
  <2> QED BY <1>5, <1>6, <2>4
<1>7. ~ st.ev => ~ RootEvaluator
  BY <1>4, <1>5 DEF StageOK
<1>8. StageOK(st) /\ st.seq # 0
  BY <1>2, <1>3, <1>5, <1>6, <1>7 DEF StageOK, Started, RunsOnSampler
<1>9. /\ ctl' \in [Controllers -> CtlT] /\ lock' \in Controllers \cup {None}
      /\ ctl'[c].pc = "complete" /\ ctl'[c].seq = s
      /\ \A d \in Controllers : d # c => ctl'[d] = ctl[d]
  BY <1>1, <1>3, Stepped
<1> HIDE DEF s
<1>10. PICK t \in Snapshot : t = st
  BY <1>5
<1>11. Staged(t.seq)' => CtlOK(ctl[c])'
  BY <1>1, <1>2, <1>5, <1>9, <1>10 DEF CtlOK, Started, Done, Rows, Staged
<1>12. StageOK(t) /\ t.seq # 0 /\ stages' = Append(stages, t)
  BY <1>1, <1>8, <1>10
<1> QED BY <1>1, <1>9, <1>11, <1>12, StageAdded

LEMMA CompleteSetKept ==
  ASSUME TaskQueueAssumption, QueueInv, NEW c \in Controllers, CompleteSet(c)
  PROVE  QueueInv' /\ HistoryKept
<1> DEFINE s == ctl[c].seq
           x == IF queue[s].state = "active" THEN "completed" ELSE queue[s].state
<1>1. /\ Typed /\ role \in RoleT /\ open \in BOOLEAN /\ assigned \in BOOLEAN /\ live \subseteq Controllers
      /\ MaxSeq \in Nat /\ 0 \in 0 .. MaxSeq
  BY DEF QueueInv, Typed, TaskQueueAssumption
<1>7. /\ ctl[c].pc = "complete" /\ Step(c, "count", 0, TRUE)
       /\ UNCHANGED <<stages, open, assigned, editor, role, live, ids, edits>>
  BY DEF CompleteSet
<1>2. Started(s) /\ Staged(s)
  BY <1>7 DEF QueueInv, CtlOK
<1>3. s \in Rows /\ queue[s].state \in States
  BY <1>1, <1>2, RowsTyped DEF Started
<1>4. queue' = [queue EXCEPT ![s].state = x]
  BY DEF CompleteSet
<1>5. x \in States /\ (x = queue[s].state \/ (queue[s].state = "active" /\ x = "completed" /\ Staged(s)))
  BY <1>2, <1>3 DEF States
<1> HIDE DEF s, x
<1>6. Moved
  BY <1>1, <1>3, <1>4, <1>5, Touched
<1> QED BY <1>1, <1>7, <1>6, Stepped, MovedKept

-----------------------------------------------------------------------------
(* The steps of the role.                                                  *)

\* Failing a task that exists.
LEMMA Failed ==
  ASSUME TaskQueueAssumption, Typed, NEW s \in Rows, FailAndPause(s)
  PROVE  Moved /\ assigned' = FALSE
<1> DEFINE x == IF queue[s].state \in {"pending", "active"} THEN "failed" ELSE queue[s].state
<1>1. queue' = [queue EXCEPT ![s].state = x] /\ assigned' = FALSE
  BY DEF FailAndPause
<1>2. queue[s].state \in States
  BY RowsTyped
<1>3. x \in States /\ (x = queue[s].state \/ (queue[s].state \in {"pending", "active"} /\ x = "failed"))
  BY <1>2 DEF States
<1> HIDE DEF x
<1> QED BY <1>1, <1>3, Touched

LEMMA RoleRests ==
  ASSUME TaskQueueAssumption, Typed, role' = IdleRole
  PROVE  role' \in RoleT /\ RoleOK(role)'
<1>1. IdleRole \in RoleT /\ IdleRole.pc = "idle"
  BY DEF IdleRole, RoleT, TaskQueueAssumption
<1> QED BY <1>1 DEF RoleOK

\* What the role gives up it still worked on.
LEMMA RoleFailing ==
  ASSUME Typed, RoleOK(role), role.pc # "idle", role' = [role EXCEPT !.pc = "failing"],
         \A s : Started(s) => Started(s)', queue'[role.seq].def = queue[role.seq].def,
         queue'[role.seq].id = queue[role.seq].id
  PROVE  role' \in RoleT /\ RoleOK(role)'
<1>1. role' \in RoleT /\ role'.pc = "failing" /\ role'.seq = role.seq /\ role'.id = role.id
  BY DEF Typed, RoleT
<1> QED BY <1>1 DEF RoleOK

LEMMA StartRoleKept ==
  ASSUME TaskQueueAssumption, QueueInv, StartRole
  PROVE  QueueInv' /\ HistoryKept
<1> DEFINE s == First(Active)
<1>1. /\ Typed /\ IdsOK /\ StagesOK /\ ctl \in [Controllers -> CtlT] /\ lock \in Controllers \cup {None}
      /\ live \subseteq Controllers /\ role \in RoleT /\ open \in BOOLEAN /\ assigned \in BOOLEAN
  BY DEF QueueInv, Typed
<1>2. /\ Active # {} /\ RunsOnSampler(queue[s].def)
      /\ UNCHANGED <<stages, open, editor, ctl, lock, live, ids, edits>>
  BY DEF StartRole
<1>3. s \in Rows /\ Started(s)
  BY <1>2, ActiveStarted DEF Started
<1>4. s \in Seqs /\ s \in 0 .. MaxSeq /\ queue[s].id \in Nat /\ queue[s].def \in Defs
  BY <1>1, <1>3, RowsTyped DEF Seqs
<1>5. CASE Resolves(s, queue[s].def) /\ role' = [pc |-> "run", seq |-> s, id |-> queue[s].id]
           /\ UNCHANGED <<queue, assigned>>
  <2> HIDE DEF s
  <2>1. Sourced(s)
    <3>1. ASSUME NEW x \in SourceNames(queue[s].def)
          PROVE  \E r \in Rows : r < s /\ queue[r].name = x /\ Staged(r)
      <4>1. x \in Names
        BY DEF SourceNames
      <4>2. NamedStage(s, x) # None
        BY <1>5 DEF Resolves
      <4> QED BY <1>1, <1>4, <4>1, <4>2, NamedFound
    <3> QED BY <3>1 DEF Sourced
  <2>2. role' \in RoleT /\ role'.pc = "run" /\ role'.seq = s /\ role'.id = queue[s].id
    BY <1>4, <1>5 DEF RoleT
  <2>3. RoleOK(role)'
    BY <1>2, <1>3, <1>5, <2>1, <2>2 DEF RoleOK, Started, Done, Rows, Sourced, Staged
  <2>4. Moved
    BY <1>1, <1>5, Unmoved
  <2> QED BY <1>1, <1>2, <1>5, <2>2, <2>3, <2>4, MovedKept
<1>6. CASE FailAndPause(s) /\ UNCHANGED role
  <2>1. Moved /\ assigned' = FALSE
    BY <1>1, <1>3, <1>6, Failed
  <2> QED BY <1>1, <1>2, <1>6, <2>1, MovedKept
<1> QED BY <1>5, <1>6 DEF StartRole

LEMMA FailsKept ==
  ASSUME TaskQueueAssumption, QueueInv, StartFails \/ FailCurrent \/ EvaluatorFails
  PROVE  QueueInv' /\ HistoryKept
<1>1. /\ Typed /\ ctl \in [Controllers -> CtlT] /\ lock \in Controllers \cup {None}
      /\ live \subseteq Controllers /\ role \in RoleT /\ open \in BOOLEAN /\ assigned \in BOOLEAN
      /\ Active \in SUBSET Seqs /\ Pending \in SUBSET Seqs
  BY RowsTyped DEF QueueInv, Typed, Active, Pending
<1>2. UNCHANGED <<stages, open, editor, ctl, lock, live, ids, edits>>
  BY DEF StartFails, FailCurrent, EvaluatorFails
<1>3. Moved /\ assigned' = FALSE
  <2>1. CASE StartFails
    <3> DEFINE S == IF Active # {} THEN Active ELSE {s \in Pending : RunsOnSampler(queue[s].def)}
    <3>1. IF S = {} THEN assigned' = FALSE /\ UNCHANGED queue ELSE FailAndPause(First(S))
      BY <2>1 DEF StartFails
    <3>2. S \in SUBSET Seqs /\ S \subseteq Rows
      BY <1>1 DEF Active, Pending
    <3> HIDE DEF S
    <3>3. CASE S = {}
      BY <1>1, <3>1, <3>3, Unmoved
    <3>4. CASE S # {}
      <4>1. First(S) \in Rows
        BY <3>2, <3>4, FirstIsLeast
      <4> QED BY <1>1, <3>1, <3>4, <4>1, Failed
    <3> QED BY <3>3, <3>4
  <2>2. CASE FailCurrent
    <3>1. CASE Active = {}
      BY <1>1, <2>2, <3>1, Unmoved DEF FailCurrent
    <3>2. CASE Active # {}
      <4>1. First(Active) \in Rows
        BY <1>1, <3>2, FirstIsLeast DEF Active
      <4> QED BY <1>1, <2>2, <3>2, <4>1, Failed DEF FailCurrent
    <3> QED BY <3>1, <3>2
  <2>3. CASE EvaluatorFails
    <3>1. role.seq \in Rows /\ FailAndPause(role.seq)
      BY <2>3 DEF EvaluatorFails, QueueInv, RoleOK, Started
    <3> QED BY <1>1, <3>1, Failed
  <2> QED BY <2>1, <2>2, <2>3
<1>4. role' = role \/ role' = IdleRole
  BY DEF StartFails, FailCurrent, EvaluatorFails
<1>5. role' = role \/ (role' \in RoleT /\ RoleOK(role)')
  BY <1>1, <1>4, RoleRests
<1> QED BY <1>1, <1>2, <1>3, <1>5, MovedKept

\* Steps that leave the queue alone.
LEMMA QuietKept ==
  ASSUME TaskQueueAssumption, QueueInv, Resume \/ Produce \/ Drain \/ RoleFails \/ StopRole
  PROVE  QueueInv' /\ HistoryKept
<1>1. /\ Typed /\ ctl \in [Controllers -> CtlT] /\ lock \in Controllers \cup {None}
      /\ live \subseteq Controllers /\ role \in RoleT /\ open \in BOOLEAN /\ assigned \in BOOLEAN
  BY DEF QueueInv, Typed
<1>2. /\ UNCHANGED <<queue, stages, editor, ctl, lock, live, ids, edits>>
      /\ open' \in BOOLEAN /\ assigned' \in BOOLEAN
  BY <1>1 DEF Resume, Produce, Drain, RoleFails, StopRole
<1>3. Moved
  BY <1>1, <1>2, Unmoved
<1>4. CASE RoleFails
  <2>1. RoleOK(role) /\ role.pc # "idle" /\ role' = [role EXCEPT !.pc = "failing"]
    BY <1>4 DEF QueueInv, RoleFails
  <2>2. \A s : Started(s) => Started(s)'
    BY <1>2 DEF Started, Done, Rows
  <2>3. role' \in RoleT /\ RoleOK(role)'
    BY <1>1, <1>2, <2>1, <2>2, RoleFailing
  <2> QED BY <1>1, <1>2, <1>3, <2>3, MovedKept
<1>5. CASE StopRole
  <2>1. role' \in RoleT /\ RoleOK(role)'
    BY <1>1, <1>5, RoleRests DEF StopRole
  <2> QED BY <1>1, <1>2, <1>3, <2>1, MovedKept
<1>6. CASE Resume \/ Produce \/ Drain
  <2>1. role' = role
    BY <1>6 DEF Resume, Produce, Drain
  <2> QED BY <1>1, <1>2, <1>3, <2>1, MovedKept
<1> QED BY <1>4, <1>5, <1>6

LEMMA CompleteTaskKept ==
  ASSUME TaskQueueAssumption, QueueInv, CompleteTask
  PROVE  QueueInv' /\ HistoryKept
<1> DEFINE s == role.seq
           x == IF queue[s].state = "active" THEN "completed" ELSE queue[s].state
<1>1. /\ Typed /\ InOrder /\ OneActive /\ RoleOK(role) /\ ctl \in [Controllers -> CtlT]
      /\ lock \in Controllers \cup {None} /\ live \subseteq Controllers /\ open \in BOOLEAN /\ assigned \in BOOLEAN
  BY DEF QueueInv, Typed
<1>2. /\ role.pc = "complete" /\ UNCHANGED <<stages, open, assigned, editor, ctl, lock, live, ids, edits>>
      /\ queue' = [queue EXCEPT ![s].state = x]
      /\ role' = IdleRole \/ role' = [role EXCEPT !.pc = "failing"]
  BY DEF CompleteTask
<1>3. s \in Rows /\ Staged(s) /\ queue[s].state \in States
  BY <1>1, <1>2, RowsTyped DEF RoleOK, Started
<1>4. x \in States /\ (x = queue[s].state \/ (queue[s].state = "active" /\ x = "completed" /\ Staged(s)))
  BY <1>3 DEF States
<1> HIDE DEF s, x
<1>5. Moved
  BY <1>1, <1>2, <1>3, <1>4, Touched
<1>6. role' \in RoleT /\ RoleOK(role)'
  <2>1. CASE role' = IdleRole
    BY <1>1, <2>1, RoleRests
  <2>2. CASE role' = [role EXCEPT !.pc = "failing"]
    <3>1. \A t : Started(t) => Started(t)'
      BY <1>1, <1>2, <1>5, MovedFacts
    <3>2. queue'[role.seq].def = queue[role.seq].def /\ queue'[role.seq].id = queue[role.seq].id
      BY <1>3, <1>5 DEF Moved, s
    <3> QED BY <1>1, <1>2, <2>2, <3>1, <3>2, RoleFailing
  <2> QED BY <1>2, <2>1, <2>2
<1> QED BY <1>1, <1>2, <1>5, <1>6, MovedKept

\* The role's stage: its sampler is that of a stage that was found when the role started.
LEMMA SaveStageKept ==
  ASSUME TaskQueueAssumption, QueueInv, SaveStage
  PROVE  QueueInv' /\ HistoryKept
<1> DEFINE s == role.seq
           def == queue[s].def
           sm == Left(s, def)
           st == [seq |-> s, task |-> role.id, ev |-> TRUE, ac |-> TRUE, sm |-> sm]
<1>1. /\ Typed /\ IdsOK /\ StagesOK /\ QueueValid /\ RoleOK(role) /\ role \in RoleT
      /\ ctl \in [Controllers -> CtlT] /\ lock \in Controllers \cup {None}
  BY DEF QueueInv, Typed
<1>2. /\ role.pc = "run" /\ stages' = Append(stages, st) /\ role' = [role EXCEPT !.pc = "complete"]
      /\ UNCHANGED <<queue, open, assigned, editor, ctl, lock, live, ids, edits>>
  BY DEF SaveStage
<1>3. Started(s) /\ RunsOnSampler(def) /\ role.id = queue[s].id /\ Sourced(s)
  BY <1>1, <1>2 DEF RoleOK
<1>4. s \in Rows /\ s \in Seqs /\ s \in Nat /\ s > 0 /\ queue[s].id \in Nat /\ def \in Defs
  BY <1>1, <1>3, RowsTyped DEF Started
<1> HIDE DEF s
<1>5. sm \in {"none", "plain", "grid", "raster"}
  <2>1. /\ WellFormed(def) /\ def.kind \in {"set_accumulator", "sample", "image", "pdf"}
        /\ def.kind # "set_accumulator" /\ def.from \in Names \cup {None}
    BY <1>3, <1>4 DEF TaskQueueAssumption, RunsOnSampler, RunsInControlPlane
  <2>2. CASE def.kind \in {"image", "pdf"} \/ def.sm \in {"plain", "training", "inference", "raster"}
    BY <2>2 DEF Left
  <2>3. CASE def.kind = "sample" /\ def.sm \in {"latest"} \cup Names
    <3>1. def.sm \notin {"plain", "training", "inference", "raster"}
      BY <2>3 DEF TaskQueueAssumption
    <3> DEFINE src == SamplerSource(def)
    <3>2. src \in {"latest"} \cup Names
      BY <2>1, <2>3, <3>1 DEF SamplerSource
    <3>3. src \in Names => src \in SourceNames(def)
      BY DEF SourceNames
    <3>4. sm = Stage(s, src).sm
      BY <2>3, <3>1 DEF Left
    <3> HIDE DEF src
    <3>5. CASE src = "latest"
      <4>1. Stage(s, src) = Before(s)
        BY <3>5 DEF Stage, TaskQueueAssumption
      <4> QED BY <1>1, <1>4, <3>4, <4>1, BeforeFound DEF Snapshot
    <3>6. CASE src \in Names
      <4>1. src # "latest"
        BY <3>6 DEF TaskQueueAssumption
      <4>2. Stage(s, src) = NamedStage(s, src)
        BY <3>6, <4>1 DEF Stage
      <4>3. PICK r \in Rows : r < s /\ queue[r].name = src /\ Staged(r)
        BY <1>3, <3>3, <3>6 DEF Sourced
      <4>4. NamedStage(s, src) \in Snapshot
        BY <1>1, <1>4, <4>3, NamedIs
      <4> QED BY <3>4, <4>2, <4>4 DEF Snapshot
    <3> QED BY <3>2, <3>5, <3>6
  <2> QED BY <2>1, <2>2, <2>3 DEF WellFormed
<1> HIDE DEF sm
<1>6. st \in Snapshot /\ st.seq = s /\ st.task = queue[s].id /\ st.ac = TRUE /\ st.ev = TRUE
  BY <1>3, <1>4, <1>5 DEF Snapshot
<1> HIDE DEF st
<1>7. PICK t \in Snapshot : t = st
  BY <1>6
<1>8. StageOK(t) /\ t.seq # 0 /\ stages' = Append(stages, t)
  BY <1>2, <1>3, <1>4, <1>6, <1>7 DEF StageOK, Started
<1>9. role' \in RoleT /\ role'.pc = "complete" /\ role'.seq = s /\ role'.id = queue[s].id
  BY <1>1, <1>2, <1>3 DEF RoleT, s
<1>10. Staged(t.seq)' => RoleOK(role)'
  BY <1>2, <1>3, <1>6, <1>7, <1>9 DEF RoleOK, Started, Done, Rows, Staged
<1> QED BY <1>1, <1>2, <1>8, <1>9, <1>10, StageAdded

-----------------------------------------------------------------------------
(* The steps of the editors.                                               *)

\* An applied edit touches one place: a new row behind all others, or a pending row.
EditAt(a) ==
  /\ queue' = [s \in Seqs |-> queue'[s]] /\ \A s \in Seqs : s # a => queue'[s] = queue[s]
  /\ \/ /\ a \notin Rows /\ (\A r \in Rows : r < a) /\ queue'[a] \in RowT /\ queue'[a].state = "pending"
        /\ queue'[a].id = ids /\ ids' = ids + 1
     \/ /\ a \in Pending /\ queue'[a] \in RowT /\ queue'[a].state = "pending"
        /\ queue'[a].id = queue[a].id /\ ids' = ids
     \/ a \in Pending /\ queue'[a] = None /\ ids' = ids

LEMMA EditAtFacts ==
  ASSUME TaskQueueAssumption, QueueInv, NEW a \in Seqs, EditAt(a), UNCHANGED stages
  PROVE  /\ queue' \in QueueT /\ HistoryKept
         /\ \A s \in Rows : queue[s].state # "pending" => s \in Rows' /\ queue'[s] = queue[s]
         /\ \A s \in Rows' : queue'[s].state # "pending" => s \in Rows /\ queue'[s] = queue[s]
         /\ \A s \in Rows' : s \in Rows \/ (s = a /\ queue'[s].state = "pending" /\ \A r \in Rows : r < s)
         /\ \A s \in Rows' : queue'[s].state = "pending" =>
              (s \in Rows /\ queue[s].state = "pending") \/ (\A r \in Rows : r < s)
         /\ \A s \in Rows' : queue'[s].id < ids'
         /\ \A r, s \in Rows' : queue'[r].id = queue'[s].id => r = s
<1>1. Typed /\ IdsOK /\ queue \in QueueT /\ ids \in Nat
  BY DEF QueueInv, Typed, IdsOK
<1>2. \A s \in Rows : s \in Seqs /\ queue[s] \in RowT /\ queue[s].id \in Nat /\ queue[s].id < ids
  BY <1>1, RowsTyped DEF IdsOK
<1>3. \A row \in RowT : row # None /\ row.id \in Nat
  BY <1>1, RowsTyped
<1>4. \A s \in Seqs : queue'[s] \in {None} \cup RowT
  BY <1>1, <1>3 DEF EditAt, QueueT
<1>5. queue' \in QueueT
  BY <1>4 DEF EditAt, QueueT
<1>6. \A s \in Rows : queue[s].state # "pending" => s # a /\ s \in Rows' /\ queue'[s] = queue[s]
  BY <1>2, <1>3 DEF EditAt, Rows, Pending
<1>7. \A s \in Rows' : s \in Rows \/ (s = a /\ queue'[s].state = "pending" /\ \A r \in Rows : r < s)
  BY <1>3 DEF EditAt, Rows, Pending
<1>8. \A s \in Rows' : queue'[s].state # "pending" => s # a /\ s \in Rows /\ queue'[s] = queue[s]
  BY <1>3 DEF EditAt, Rows, Pending
<1>9. \A s \in Rows' : queue'[s].state = "pending" =>
        (s \in Rows /\ queue[s].state = "pending") \/ (\A r \in Rows : r < s)
  BY <1>3 DEF EditAt, Rows, Pending
<1>10. \A s \in Rows' : \/ s \in Rows /\ queue'[s].id = queue[s].id
                        \/ s = a /\ queue'[s].id = ids /\ ids' = ids + 1
  BY <1>3 DEF EditAt, Rows, Pending
<1>11. ids' \in Nat /\ ids <= ids'
  BY <1>1 DEF EditAt
<1>12. \A s \in Rows' : queue'[s].id < ids'
  BY <1>1, <1>2, <1>10, <1>11
<1>13. \A r, s \in Rows' : queue'[r].id = queue'[s].id => r = s
  <2>1. ASSUME NEW r \in Rows', NEW s \in Rows', queue'[r].id = queue'[s].id PROVE r = s
    <3>1. CASE r \in Rows /\ queue'[r].id = queue[r].id /\ s \in Rows /\ queue'[s].id = queue[s].id
      BY <1>1, <2>1, <3>1 DEF IdsOK
    <3>2. CASE r = a /\ s = a
      BY <3>2
    <3>3. CASE r \in Rows /\ queue'[r].id = queue[r].id /\ queue'[s].id = ids
      <4>1. queue[r].id \in Nat /\ queue[r].id < ids /\ queue[r].id = ids
        BY <1>2, <2>1, <3>3
      <4> QED BY <1>1, <4>1
    <3>4. CASE s \in Rows /\ queue'[s].id = queue[s].id /\ queue'[r].id = ids
      BY <1>1, <1>2, <2>1, <3>4
    <3> QED BY <1>10, <3>1, <3>2, <3>3, <3>4
  <2> QED BY <2>1
<1>14. HistoryKept
  <2>1. ASSUME NEW s \in Rows, queue[s].state # "pending" PROVE queue'[s] # None /\ queue'[s] = queue[s]
    BY <1>2, <1>3, <1>6, <2>1
  <2> QED BY <2>1 DEF HistoryKept
<1> QED BY <1>5, <1>6, <1>7, <1>8, <1>9, <1>12, <1>13, <1>14

LEMMA EditAtKept ==
  ASSUME TaskQueueAssumption, QueueInv, NEW a \in Seqs, EditAt(a), UNCHANGED stages
  PROVE  /\ OneActive' /\ InOrder' /\ StagesOK' /\ CompletedStaged'
         /\ \A s : Started(s) => Started(s)' /\ queue'[s] = queue[s] /\ (Sourced(s) => Sourced(s)')
<1>1. /\ Typed /\ OneActive /\ InOrder /\ StagesOK /\ CompletedStaged
      /\ \A s : Staged(s)' <=> Staged(s)
  BY DEF QueueInv, Staged
<1>2. \A s \in Rows : queue[s].state # "pending" => s \in Rows' /\ queue'[s] = queue[s]
  BY EditAtFacts
<1>3. \A s \in Rows' : queue'[s].state # "pending" => s \in Rows /\ queue'[s] = queue[s]
  BY EditAtFacts
<1>4. \A s \in Rows' : s \in Rows \/ \A r \in Rows : r < s
  BY EditAtFacts
<1>5. \A s \in Rows' : queue'[s].state = "pending" =>
        (s \in Rows /\ queue[s].state = "pending") \/ (\A r \in Rows : r < s)
  BY EditAtFacts
<1>6. Rows \subseteq Nat
  BY <1>1, RowsTyped
<1>7. Active' = Active
  BY <1>2, <1>3 DEF Active
<1>8. OneActive'
  BY <1>1, <1>7 DEF OneActive
<1>9. InOrder'
  <2>1. ASSUME NEW s \in Rows', queue'[s].state = "pending", NEW r \in Rows',
               queue'[r].state \in {"active", "completed"}
        PROVE  r < s
    <3>1. r \in Rows /\ queue[r].state \in {"active", "completed"}
      BY <1>3, <2>1
    <3>2. CASE \A t \in Rows : t < s
      BY <3>1, <3>2
    <3>3. CASE s \in Rows /\ queue[s].state = "pending"
      BY <1>1, <3>1, <3>3 DEF InOrder, Pending
    <3> QED BY <1>5, <2>1, <3>2, <3>3
  <2> QED BY <2>1 DEF InOrder, Pending
<1>10. CompletedStaged'
  BY <1>1, <1>3 DEF CompletedStaged
<1>11. \A s \in Rows : queue[s].state # "pending" /\ Done(s) => Done(s)'
  <2>1. ASSUME NEW s \in Rows, queue[s].state # "pending", Done(s), NEW r \in Rows', r < s
        PROVE  queue'[r].state \in {"completed", "failed"}
    <3>1. ~ (s < r)
      <4>1. s \in Nat /\ r \in Nat
        BY <1>6, EditAtFacts, <2>1 DEF Rows, Seqs
      <4> QED BY <2>1, <4>1
    <3>2. r \in Rows
      BY <1>4, <3>1
    <3>3. queue[r].state \in {"completed", "failed"}
      BY <2>1, <3>2 DEF Done
    <3> QED BY <1>2, <3>2, <3>3
  <2> QED BY <2>1 DEF Done
<1>12. \A s : Started(s) => Started(s)' /\ queue'[s] = queue[s]
  BY <1>2, <1>11 DEF Started
<1>13. \A s : Started(s) /\ Sourced(s) => Sourced(s)'
  <2>1. ASSUME NEW s, Started(s), Sourced(s), NEW x \in SourceNames(queue[s].def)
        PROVE  \E r \in Rows' : r < s /\ queue'[r].name = x /\ Staged(r)'
    <3>1. PICK r \in Rows : r < s /\ queue[r].name = x /\ Staged(r)
      BY <2>1 DEF Sourced
    <3>2. queue[r].state # "pending"
      BY <2>1, <3>1 DEF Started, Done
    <3> QED BY <1>1, <1>2, <3>1, <3>2
  <2>2. ASSUME NEW s, Started(s), Sourced(s) PROVE Sourced(s)'
    <3>1. queue'[s] = queue[s]
      BY <1>12, <2>2
    <3> QED BY <2>1, <2>2, <3>1 DEF Sourced
  <2> QED BY <2>2
<1>14. StagesOK'
  <2> SUFFICES ASSUME NEW i \in 1 .. Len(stages) PROVE StageOK(stages[i])'
    BY DEF StagesOK
  <2> DEFINE st == stages[i]
  <2>1. StageOK(st) /\ st' = st
    BY <1>1 DEF StagesOK
  <2> HIDE DEF st
  <2>2. st.seq # 0 => /\ st.seq \in Rows' /\ queue'[st.seq] = queue[st.seq] /\ queue'[st.seq].state # "pending"
                      /\ Done(st.seq)'
    BY <1>2, <1>11, <2>1 DEF StageOK
  <2>3. \A r \in Rows' : queue'[r].state = "completed" => r \in Rows /\ queue'[r] = queue[r]
    BY <1>3
  <2>4. StageOK(st)'
    BY <2>1, <2>2, <2>3 DEF StageOK
  <2> QED BY <2>1, <2>4 DEF st
<1> QED BY <1>8, <1>9, <1>10, <1>12, <1>13, <1>14

\* What an editor has read and wants; the count of edits leaves an id for it.
LEMMA EditKept ==
  ASSUME TaskQueueAssumption, QueueInv, NEW e \in Editors, NEW ed, Edit(e, ed),
         ed.kind \in {"append", "replace", "remove"},
         ed.kind # "remove" => ed.name \in Names /\ ed.def \in Defs
  PROVE  QueueInv' /\ HistoryKept
<1>1. /\ Typed /\ IdsOK /\ queue \in QueueT /\ ids \in Nat /\ MaxEdits \in Nat /\ MaxSeq \in Nat
      /\ editor[e] = NoEdit /\ edits < MaxEdits /\ edits' = edits + 1 /\ ed.seen = Listed(queue)
      /\ editor' = [editor EXCEPT ![e] = ed] /\ Valid(Listed(Edited(queue, ed)))
      /\ ed.kind # "append" => ed.at \in Rows
      /\ UNCHANGED <<queue, stages, open, assigned, ctl, lock, role, live, ids>>
  BY DEF QueueInv, Typed, IdsOK, TaskQueueAssumption, Edit
<1>2. editor'[e] = ed /\ (\A d \in Editors : d # e => editor'[d] = editor[d])
      /\ editor' = [d \in Editors |-> editor'[d]]
  BY <1>1 DEF Typed
<1>3. EditorOK(ed)
  <2>1. EditedAs(queue, ed, ids) = Edited(queue, ed)
    BY DEF EditedAs, Edited
  <2>2. ed.kind # "append" => ed.at \in RowsOf(queue)
    BY <1>1 DEF Rows, RowsOf
  <2> QED BY <1>1, <2>1, <2>2 DEF EditorOK, Validated
<1>4. \A d \in Editors : EditorOK(editor[d])'
  <2>1. ASSUME NEW d \in Editors PROVE EditorOK(editor'[d])
    <3>1. CASE d = e
      BY <1>2, <1>3, <3>1
    <3>2. CASE d # e
      BY <1>2, <3>2 DEF QueueInv
    <3> QED BY <3>1, <3>2
  <2> QED BY <2>1 DEF EditorOK, Validated
<1>5. ids + Cardinality(Appending') <= MaxSeq + 1 + edits'
  <2>1. IsFiniteSet(Editors) /\ Appending \in SUBSET Editors /\ Appending' \in SUBSET (Appending \cup {e})
    BY <1>2 DEF Appending, TaskQueueAssumption
  <2>2. IsFiniteSet(Appending) /\ Cardinality(Appending) \in Nat
    BY <2>1, FS_Subset, FS_CardinalityType
  <2>3. /\ IsFiniteSet(Appending \cup {e}) /\ Cardinality(Appending \cup {e}) <= Cardinality(Appending) + 1
        /\ Cardinality(Appending \cup {e}) \in Nat
    <3>1. /\ IsFiniteSet(Appending \cup {e})
          /\ Cardinality(Appending \cup {e}) = Cardinality(Appending) \/
             Cardinality(Appending \cup {e}) = Cardinality(Appending) + 1
      BY <2>2, FS_AddElement
    <3> QED BY <2>2, <3>1
  <2>4. Cardinality(Appending') <= Cardinality(Appending \cup {e}) /\ Cardinality(Appending') \in Nat
    BY <2>1, <2>3, FS_Subset, FS_CardinalityType
  <2>5. ids + Cardinality(Appending) <= MaxSeq + 1 + edits /\ edits \in Nat
    BY <1>1 DEF IdsOK
  <2> DEFINE n == Cardinality(Appending)
             o == Cardinality(Appending')
             m == Cardinality(Appending \cup {e})
  <2>6. n \in Nat /\ o \in Nat /\ m \in Nat /\ o <= m /\ m <= n + 1 /\ ids + n <= MaxSeq + 1 + edits
    BY <2>2, <2>3, <2>4, <2>5
  <2> HIDE DEF n, o, m
  <2>7. ids + o <= MaxSeq + 1 + edits'
    BY <1>1, <2>5, <2>6
  <2> QED BY <2>7 DEF o
<1>6. IdsOK'
  <2>1. edits' \in 0 .. MaxEdits /\ Rows' = Rows
    BY <1>1 DEF IdsOK, Rows
  <2>2. Cardinality(Appending)' = Cardinality(Appending')
    OBVIOUS
  <2> QED BY <1>1, <1>5, <2>1, <2>2 DEF IdsOK
<1>7. Typed'
  BY <1>1, <1>2 DEF Typed
<1>8. Moved /\ HistoryKept /\ Rows' = Rows /\ (\A s : Staged(s)' <=> Staged(s)) /\ (\A s : Started(s) => Started(s)')
      /\ \A s \in Rows : Sourced(s) => Sourced(s)'
  BY <1>1, Unmoved, MovedFacts DEF QueueInv
<1>9. QueueValid' /\ OneActive' /\ InOrder' /\ StagesOK' /\ CompletedStaged'
  BY <1>1, <1>8, MovedRows
<1>10. \A c \in Controllers : CtlOK(ctl[c])'
  <2>1. ASSUME NEW c \in Controllers PROVE CtlOK(ctl[c])'
    <3>1. CtlOK(ctl[c])
      BY DEF QueueInv
    <3> QED BY <1>1, <1>8, <3>1 DEF CtlOK
  <2> QED BY <2>1
<1>11. RoleOK(role)'
  <2>1. RoleOK(role)
    BY DEF QueueInv
  <2> QED BY <1>1, <1>8, <2>1 DEF RoleOK, Started
<1> QED BY <1>4, <1>6, <1>7, <1>8, <1>9, <1>10, <1>11 DEF QueueInv

\* An applied edit makes the queue its editor validated, up to the id of a new row.
LEMMA AppliedValid ==
  ASSUME TaskQueueAssumption, Typed, IdsOK, NEW ed, EditorOK(ed), ed # NoEdit, Unchanged(ed)
  PROVE  Valid(Listed(Edited(queue, ed)))
<1>1. PICK q \in QueueT, n \in Nat :
        ed.seen = Listed(q) /\ Valid(Listed(EditedAs(q, ed, n))) /\ (ed.kind # "append" => ed.at \in RowsOf(q))
  BY DEF EditorOK, Validated
<1>2. Listed(q) = Listed(queue) /\ ed.kind \in {"append", "replace", "remove"} /\ queue \in QueueT
  BY <1>1 DEF Unchanged, EditorOK, Typed
<1>3. /\ RowsOf(q) = RowsOf(queue)
      /\ \A s \in RowsOf(q) : q[s].name = queue[s].name /\ q[s].def = queue[s].def
  <2>1. ASSUME NEW s \in RowsOf(q)
        PROVE  s \in RowsOf(queue) /\ q[s].name = queue[s].name /\ q[s].def = queue[s].def
    BY <1>2, ListedTells
  <2>2. ASSUME NEW s \in RowsOf(queue) PROVE s \in RowsOf(q)
    BY <1>2, ListedTells
  <2> QED BY <2>1, <2>2
<1>4. /\ \A s \in RowsOf(q) : s \in Seqs /\ q[s] \in RowT /\ queue[s] \in RowT
      /\ \A s \in Seqs : q[s] # None <=> queue[s] # None
  BY <1>2, <1>3 DEF RowsOf, QueueT
<1>5. \A row \in RowT : row # None
  BY RowsTyped
<1> DEFINE new == EditedAs(q, ed, n)
           cur == Edited(queue, ed)
<1>6. RowsOf(new) = RowsOf(cur) /\ \A s \in RowsOf(new) : new[s].name = cur[s].name /\ new[s].def = cur[s].def
  <2>0. q = [s \in Seqs |-> q[s]] /\ queue = [s \in Seqs |-> queue[s]]
    BY <1>2 DEF QueueT
  <2>1. CASE ed.kind = "append"
    <3>1. Next1(q) = Next1(queue)
      <4>1. {s \in Seqs : \E r \in Seqs : r >= s /\ q[r] # None} =
            {s \in Seqs : \E r \in Seqs : r >= s /\ queue[r] # None}
        BY <1>4
      <4> QED BY <4>1 DEF Next1
    <3> DEFINE a == Next1(queue)
               x == NewRow(n, ed.name, ed.def)
               y == NewRow(ids, ed.name, ed.def)
    <3>2. new = [q EXCEPT ![a] = x] /\ cur = [queue EXCEPT ![a] = y]
      BY <2>1, <3>1 DEF EditedAs, Edited, Put
    <3>3. x.name = y.name /\ x.def = y.def /\ x # None /\ y # None
      <4>1. ed.name \in Names /\ ed.def \in Defs /\ ids \in Nat
        BY <2>1 DEF EditorOK, IdsOK
      <4>2. x \in Row /\ y \in Row
        BY <4>1 DEF NewRow, Row
      <4>3. x.name = y.name /\ x.def = y.def
        BY DEF NewRow
      <4> QED BY <4>2, <4>3 DEF TaskQueueAssumption
    <3> HIDE DEF a, x, y, new, cur
    <3> QED BY <1>3, <1>4, <2>0, <3>2, <3>3 DEF RowsOf
  <2>2. CASE ed.kind = "replace"
    <3> DEFINE a == ed.at
               x == [q[a] EXCEPT !.name = ed.name, !.def = ed.def]
               y == [queue[a] EXCEPT !.name = ed.name, !.def = ed.def]
    <3>1. a \in RowsOf(q) /\ ed.name \in Names /\ ed.def \in Defs
      BY <1>1, <2>2 DEF EditorOK
    <3>2. new = [q EXCEPT ![a] = x] /\ cur = [queue EXCEPT ![a] = y]
      BY <2>2 DEF EditedAs, Edited, Put
    <3>3. x \in RowT /\ y \in RowT /\ x.name = y.name /\ x.def = y.def
      BY <1>4, <3>1 DEF RowT
    <3>4. x # None /\ y # None
      BY <1>5, <3>3
    <3> HIDE DEF a, x, y, new, cur
    <3> QED BY <1>3, <1>4, <2>0, <3>2, <3>3, <3>4 DEF RowsOf
  <2>3. CASE ed.kind = "remove"
    <3> DEFINE a == ed.at
    <3>1. new = [q EXCEPT ![a] = None] /\ cur = [queue EXCEPT ![a] = None]
      BY <2>3 DEF EditedAs, Edited, Put
    <3> HIDE DEF a, new, cur
    <3> QED BY <1>3, <1>4, <2>0, <3>1 DEF RowsOf
  <2> QED BY <1>2, <2>1, <2>2, <2>3
<1>7. Valid(Listed(new))
  BY <1>1
<1> HIDE DEF new, cur
<1>8. Valid(Listed(cur))
  BY <1>6, <1>7, ValidKept
<1> QED BY <1>8 DEF cur


\* The editor is done, and the id it was granted is used or given up.
LEMMA EditorDone ==
  ASSUME TaskQueueAssumption, QueueInv, NEW e \in Editors, ApplyEdit(e)
  PROVE  /\ editor' = [d \in Editors |-> editor'[d]] /\ \A d \in Editors : EditorOK(editor[d])'
         /\ ids' \in {ids, ids + 1} /\ ids' + Cardinality(Appending)' <= MaxSeq + 1 + edits
         /\ ids' # ids => editor[e].kind = "append"
         /\ editor[e].kind = "append" => ids <= MaxSeq + MaxEdits
<1>1. /\ Typed /\ IdsOK /\ ids \in Nat /\ MaxSeq \in Nat /\ MaxEdits \in Nat /\ edits \in Nat /\ edits <= MaxEdits
      /\ editor' = [editor EXCEPT ![e] = NoEdit]
      /\ ids' = ids \/ (ids' = ids + 1 /\ editor[e].kind = "append")
  BY DEF QueueInv, IdsOK, TaskQueueAssumption, ApplyEdit
<1>2. /\ editor' = [d \in Editors |-> editor'[d]] /\ editor'[e] = NoEdit
      /\ \A d \in Editors : d # e => editor'[d] = editor[d]
  BY <1>1 DEF Typed
<1>3. \A d \in Editors : EditorOK(editor[d])'
  <2>1. \A d \in Editors : EditorOK(editor'[d])
    <3>1. EditorOK(NoEdit)
      BY DEF EditorOK
    <3>2. \A d \in Editors : EditorOK(editor[d])
      BY DEF QueueInv
    <3> QED BY <1>2, <3>1, <3>2
  <2> QED BY <2>1 DEF EditorOK, Validated
<1>4. IsFiniteSet(Appending) /\ Appending' = Appending \ {e}
  <2>1. IsFiniteSet(Editors) /\ Appending \in SUBSET Editors
    BY DEF Appending, TaskQueueAssumption
  <2>2. NoEdit.kind # "append"
    BY DEF NoEdit
  <2>3. Appending' = Appending \ {e}
    BY <1>2, <2>2 DEF Appending
  <2> QED BY <2>1, <2>3, FS_Subset
<1> DEFINE n == Cardinality(Appending)
           o == Cardinality(Appending \ {e})
<1>5. n \in Nat /\ o \in Nat /\ (e \in Appending => n = o + 1) /\ (e \notin Appending => o = n)
  <2>1. n \in Nat
    BY <1>4, FS_CardinalityType
  <2>2. e \notin Appending => Appending \ {e} = Appending
    OBVIOUS
  <2>3. IsFiniteSet(Appending \ {e})
    BY <1>4, FS_Subset
  <2>4. o \in Nat
    BY <2>3, FS_CardinalityType
  <2>5. e \in Appending => o = n - 1
    BY <1>4, FS_RemoveElement
  <2> QED BY <2>1, <2>2, <2>4, <2>5
<1>6. ids + n <= MaxSeq + 1 + edits
  BY <1>1 DEF IdsOK
<1>7. Cardinality(Appending)' = o
  BY <1>4
<1>8. editor[e].kind = "append" => e \in Appending
  BY DEF Appending
<1> HIDE DEF n, o
<1>9. ids' + o <= MaxSeq + 1 + edits
  BY <1>1, <1>5, <1>6, <1>8
<1>10. editor[e].kind = "append" => ids <= MaxSeq + MaxEdits
  BY <1>1, <1>5, <1>6, <1>8
<1> QED BY <1>1, <1>2, <1>3, <1>7, <1>9, <1>10

\* An edit is applied at one place, or behind the last number there is.
LEMMA AppliedAt ==
  ASSUME TaskQueueAssumption, QueueInv, NEW e \in Editors, ApplyEdit(e)
  PROVE  UNCHANGED queue \/ \E a \in Seqs : EditAt(a)
<1> DEFINE ed == editor[e]
<1>1. Typed /\ EditorOK(ed) /\ ed # NoEdit /\ ids \in Nat /\ MaxSeq \in Nat /\ MaxEdits \in Nat /\ ids > MaxSeq
  BY DEF QueueInv, IdsOK, ApplyEdit, TaskQueueAssumption
<1>2. queue = [s \in Seqs |-> queue[s]] /\ \A s \in Rows : s \in Seqs /\ queue[s] \in RowT
  BY <1>1, RowsTyped DEF Typed, QueueT
<1>3. /\ ed.kind = "append" => ids \in 1 .. MaxSeq + MaxEdits + 1
      /\ ed.kind \in {"append", "replace", "remove"}
      /\ ed.kind # "remove" => ed.name \in Names /\ ed.def \in Defs
  <2>1. ed.kind = "append" => ids <= MaxSeq + MaxEdits
    BY EditorDone
  <2> HIDE DEF ed
  <2> QED BY <1>1, <2>1 DEF EditorOK
<1>4. SUFFICES ASSUME queue' # queue PROVE \E a \in Seqs : EditAt(a)
  OBVIOUS
<1>5. /\ Unchanged(ed) /\ StillPending(ed) /\ queue' = Edited(queue, ed)
      /\ ids' = ids + (IF ed.kind = "append" THEN 1 ELSE 0)
  BY <1>4 DEF ApplyEdit
<1> HIDE DEF ed
<1>6. CASE ed.kind = "append"
  <2> DEFINE a == Next1(queue)
             x == NewRow(ids, ed.name, ed.def)
  <2>1. queue' = [queue EXCEPT ![a] = x] /\ ids' = ids + 1
    BY <1>5, <1>6 DEF Edited, Put
  <2>2. x \in RowT /\ x.state = "pending" /\ x.id = ids
    BY <1>3, <1>6 DEF NewRow, RowT, States
  <2>3. \A r \in Rows : r \in Nat /\ r < a /\ a \in Nat
    BY <1>1, RowsTyped, NextIsBehind DEF Rows, RowsOf
  <2>4. a \notin Rows
    BY <2>3
  <2> HIDE DEF a, x
  <2>5. a \in Seqs
    <3>1. ASSUME a \notin Seqs PROVE FALSE
      <4>1. queue' = queue
        BY <1>2, <2>1, <3>1
      <4> QED BY <1>4, <4>1
    <3> QED BY <3>1
  <2>6. queue' = [s \in Seqs |-> queue'[s]] /\ queue'[a] = x /\ \A s \in Seqs : s # a => queue'[s] = queue[s]
    BY <1>2, <2>1, <2>5
  <2> QED BY <2>1, <2>2, <2>3, <2>4, <2>5, <2>6 DEF EditAt
<1>7. CASE ed.kind = "replace"
  <2> DEFINE a == ed.at
             x == [queue[a] EXCEPT !.name = ed.name, !.def = ed.def]
  <2>1. queue' = [queue EXCEPT ![a] = x] /\ ids' = ids
    BY <1>1, <1>5, <1>7 DEF Edited, Put
  <2>2. a \in Pending /\ a \in Seqs /\ queue[a] \in RowT /\ queue[a].state = "pending"
    BY <1>2, <1>5, <1>7 DEF StillPending, Pending
  <2>3. x \in RowT /\ x.state = "pending" /\ x.id = queue[a].id
    BY <1>3, <1>7, <2>2 DEF RowT
  <2> HIDE DEF a, x
  <2>4. queue' = [s \in Seqs |-> queue'[s]] /\ queue'[a] = x /\ \A s \in Seqs : s # a => queue'[s] = queue[s]
    BY <1>2, <2>1, <2>2
  <2> QED BY <2>1, <2>2, <2>3, <2>4 DEF EditAt
<1>8. CASE ed.kind = "remove"
  <2> DEFINE a == ed.at
  <2>1. queue' = [queue EXCEPT ![a] = None] /\ ids' = ids
    BY <1>1, <1>5, <1>8 DEF Edited, Put
  <2>2. a \in Pending /\ a \in Seqs
    BY <1>2, <1>5, <1>8 DEF StillPending, Pending
  <2> HIDE DEF a
  <2>3. queue' = [s \in Seqs |-> queue'[s]] /\ queue'[a] = None /\ \A s \in Seqs : s # a => queue'[s] = queue[s]
    BY <1>2, <2>1, <2>2
  <2> QED BY <2>1, <2>2, <2>3 DEF EditAt
<1> QED BY <1>3, <1>6, <1>7, <1>8

LEMMA ApplyEditKept ==
  ASSUME TaskQueueAssumption, QueueInv, NEW e \in Editors, ApplyEdit(e)
  PROVE  QueueInv' /\ HistoryKept
<1>1. /\ Typed /\ IdsOK /\ OneActive /\ InOrder /\ ids \in Nat /\ ids > MaxSeq /\ MaxSeq \in Nat
      /\ UNCHANGED <<stages, open, assigned, ctl, lock, role, live, edits>>
  BY DEF QueueInv, IdsOK, TaskQueueAssumption, ApplyEdit
<1>2. /\ editor' = [d \in Editors |-> editor'[d]] /\ \A d \in Editors : EditorOK(editor[d])'
      /\ ids' \in {ids, ids + 1} /\ ids' + Cardinality(Appending)' <= MaxSeq + 1 + edits
  BY EditorDone
<1>3. QueueValid'
  <2>1. CASE UNCHANGED queue
    BY <2>1 DEF QueueInv, QueueValid
  <2>2. CASE ~ UNCHANGED queue
    <3>1. EditorOK(editor[e]) /\ editor[e] # NoEdit /\ Unchanged(editor[e]) /\ queue' = Edited(queue, editor[e])
      BY <2>2 DEF QueueInv, ApplyEdit
    <3>2. Valid(Listed(queue'))
      BY <1>1, <3>1, AppliedValid
    <3> QED BY <3>2 DEF QueueValid
  <2> QED BY <2>1, <2>2
<1>4. /\ queue' \in QueueT /\ HistoryKept /\ OneActive' /\ InOrder' /\ StagesOK' /\ CompletedStaged'
      /\ \A s : Started(s) => Started(s)' /\ queue'[s] = queue[s] /\ (Sourced(s) => Sourced(s)')
      /\ \A s \in Rows' : queue'[s].id < ids'
      /\ \A r, s \in Rows' : queue'[r].id = queue'[s].id => r = s
  <2>1. CASE UNCHANGED queue
    <3>1. Moved
      BY <1>1, <2>1, Unmoved
    <3>2. /\ queue' \in QueueT /\ HistoryKept /\ Rows' = Rows /\ \A s : Started(s) => Started(s)'
          /\ \A s \in Rows : Sourced(s) => Sourced(s)'
      BY <1>1, <3>1, MovedFacts
    <3>3. OneActive' /\ InOrder' /\ StagesOK' /\ CompletedStaged'
      BY <1>1, <3>1, MovedRows
    <3>4. \A s \in Rows : queue[s].id \in Nat /\ queue[s].id < ids
      BY <1>1, RowsTyped DEF IdsOK
    <3>5. \A s \in Rows : queue[s].id < ids'
      BY <1>1, <1>2, <3>4
    <3>6. \A r, s \in Rows : queue[r].id = queue[s].id => r = s
      BY <1>1 DEF IdsOK
    <3> QED BY <2>1, <3>2, <3>3, <3>5, <3>6 DEF Started
  <2>2. CASE \E a \in Seqs : EditAt(a)
    <3>1. PICK a \in Seqs : EditAt(a)
      BY <2>2
    <3> QED BY <1>1, <3>1, EditAtFacts, EditAtKept
  <2> QED BY <2>1, <2>2, AppliedAt
<1>5. \A s : Staged(s)' <=> Staged(s)
  BY <1>1 DEF Staged
<1>6. Typed'
  BY <1>1, <1>2, <1>4 DEF Typed
<1>7. IdsOK'
  <2>1. ids' \in Nat /\ ids' > MaxSeq /\ edits' \in 0 .. MaxEdits /\ edits' = edits
    BY <1>1, <1>2 DEF IdsOK
  <2> QED BY <1>2, <1>4, <2>1 DEF IdsOK
<1>8. \A c \in Controllers : CtlOK(ctl[c])'
  <2>1. ASSUME NEW c \in Controllers PROVE CtlOK(ctl[c])'
    <3>1. CtlOK(ctl[c]) /\ ctl'[c] = ctl[c]
      BY <1>1 DEF QueueInv
    <3> QED BY <1>4, <1>5, <3>1 DEF CtlOK
  <2> QED BY <2>1
<1>9. RoleOK(role)'
  <2>1. RoleOK(role) /\ role' = role
    BY <1>1 DEF QueueInv
  <2> QED BY <1>4, <1>5, <2>1 DEF RoleOK
<1> QED BY <1>2, <1>3, <1>4, <1>6, <1>7, <1>8, <1>9 DEF QueueInv

LEMMA TuneKept ==
  ASSUME TaskQueueAssumption, QueueInv, NEW s \in Rows, Tune(s)
  PROVE  QueueInv' /\ HistoryKept
<1>1. /\ Typed /\ edits < MaxEdits /\ edits' = edits + 1
      /\ queue' = [queue EXCEPT ![s].tune = ~ queue[s].tune]
      /\ UNCHANGED <<stages, open, assigned, editor, ctl, lock, role, live, ids>>
  BY DEF QueueInv, Tune
<1> DEFINE row == [queue[s] EXCEPT !.tune = ~ queue[s].tune]
<1>2. /\ queue = [r \in Seqs |-> queue[r]] /\ s \in Seqs
      /\ \A r \in Rows : r \in Seqs /\ queue[r] \in RowT
  BY <1>1, RowsTyped DEF Typed, QueueT
<1>3. /\ row \in RowT /\ row.id = queue[s].id /\ row.name = queue[s].name /\ row.def = queue[s].def
      /\ row.state = queue[s].state
  BY <1>2 DEF RowT
<1>4. queue' = [queue EXCEPT ![s] = row]
  BY <1>1
<1> HIDE DEF row
<1>5. queue' = [r \in Seqs |-> queue'[r]] /\ queue'[s] = row /\ \A r \in Seqs : r # s => queue'[r] = queue[r]
  BY <1>2, <1>4
<1>6. Moved
  <2>1. ASSUME NEW r \in Rows
        PROVE  /\ queue'[r] \in RowT /\ queue'[r].id = queue[r].id /\ queue'[r].name = queue[r].name
               /\ queue'[r].def = queue[r].def /\ queue'[r].state = queue[r].state
    <3>1. CASE r = s
      BY <1>3, <1>5, <3>1
    <3>2. CASE r # s
      BY <1>2, <1>5, <3>2
    <3> QED BY <3>1, <3>2
  <2> QED BY <1>5, <2>1 DEF Moved, Move, Rows
<1>7. /\ open \in BOOLEAN /\ assigned \in BOOLEAN /\ ctl \in [Controllers -> CtlT]
      /\ lock \in Controllers \cup {None} /\ live \subseteq Controllers /\ role \in RoleT
  BY <1>1 DEF Typed
<1> QED BY <1>1, <1>6, <1>7, MovedKept

-----------------------------------------------------------------------------
(* Every step, and the initial queue.                                      *)

LEMMA EditStepKept ==
  ASSUME TaskQueueAssumption, QueueInv, EditStep
  PROVE  QueueInv' /\ HistoryKept
<1>1. ASSUME NEW e \in Editors, NEW x \in Names, NEW d \in Defs, Edit(e, Change("append", 0, x, d))
      PROVE  QueueInv' /\ HistoryKept
  <2> DEFINE ed == Change("append", 0, x, d)
  <2>1. ed.kind = "append" /\ ed.name = x /\ ed.def = d
    BY DEF Change
  <2> HIDE DEF ed
  <2>2. Edit(e, ed)
    BY <1>1 DEF ed
  <2> QED BY <2>1, <2>2, EditKept
<1>2. ASSUME NEW e \in Editors, NEW x \in Names, NEW d \in Defs, NEW s \in Rows, Edit(e, Change("replace", s, x, d))
      PROVE  QueueInv' /\ HistoryKept
  <2> DEFINE ed == Change("replace", s, x, d)
  <2>1. ed.kind = "replace" /\ ed.name = x /\ ed.def = d
    BY DEF Change
  <2> HIDE DEF ed
  <2>2. Edit(e, ed)
    BY <1>2 DEF ed
  <2> QED BY <2>1, <2>2, EditKept
<1>3. ASSUME NEW e \in Editors, NEW s \in Rows, Edit(e, Change("remove", s, None, None))
      PROVE  QueueInv' /\ HistoryKept
  <2> DEFINE ed == Change("remove", s, None, None)
  <2>1. ed.kind = "remove"
    BY DEF Change
  <2> HIDE DEF ed
  <2>2. Edit(e, ed)
    BY <1>3 DEF ed
  <2> QED BY <2>1, <2>2, EditKept
<1> QED BY <1>1, <1>2, <1>3, ApplyEditKept, TuneKept DEF EditStep

LEMMA StepKept ==
  ASSUME TaskQueueAssumption, QueueInv, [Next]_vars
  PROVE  QueueInv' /\ HistoryKept
<1>1. CASE EditStep
  BY <1>1, EditStepKept
<1>2. ASSUME NEW c \in Controllers, ControlStep(c) \/ TickFails(c) \/ LockLost(c)
      PROVE  QueueInv' /\ HistoryKept
  <2>1. CASE Activate(c)
    BY <2>1, ActivateKept
  <2>2. CASE SaveSetStage(c)
    BY <2>2, SaveSetStageKept
  <2>3. CASE CompleteSet(c)
    BY <2>3, CompleteSetKept
  <2>4. CASE BeginTick(c) \/ LoadActive(c) \/ Count(c) \/ FinishRun(c) \/ TickFails(c) \/ LockLost(c)
    BY <2>4, ControlKept
  <2> QED BY <1>2, <2>1, <2>2, <2>3, <2>4 DEF ControlStep
<1>3. CASE RoleStep \/ StartFails \/ EvaluatorFails
  BY <1>3, StartRoleKept, SaveStageKept, CompleteTaskKept, FailsKept, QuietKept DEF RoleStep
<1>4. CASE Resume \/ Produce \/ Drain \/ RoleFails
  BY <1>4, QuietKept
<1>5. CASE UNCHANGED vars
  <2>1. /\ Typed /\ UNCHANGED <<queue, stages, open, assigned, editor, ctl, lock, role, live, ids, edits>>
    BY <1>5 DEF vars, QueueInv
  <2>2. /\ open \in BOOLEAN /\ assigned \in BOOLEAN /\ ctl \in [Controllers -> CtlT]
        /\ lock \in Controllers \cup {None} /\ live \subseteq Controllers /\ role \in RoleT
    BY <2>1 DEF Typed
  <2>3. Moved
    BY <2>1, Unmoved
  <2> QED BY <2>1, <2>2, <2>3, MovedKept
<1> QED BY <1>1, <1>2, <1>3, <1>4, <1>5 DEF Next

LEMMA InitKept ==
  ASSUME TaskQueueAssumption, Init
  PROVE  QueueInv
<1>1. /\ MaxSeq \in Nat /\ MaxEdits \in Nat /\ 0 \in 0 .. MaxSeq /\ 0 \in 0 .. MaxEdits
      /\ RootEvaluator \in BOOLEAN /\ IsFiniteSet(Editors)
  BY DEF TaskQueueAssumption
<1>2. /\ queue \in [Seqs -> Starts \cup {None}] /\ InitialQueue(queue)
      /\ stages = <<Root>> /\ open = FALSE /\ assigned = TRUE
      /\ editor = [e \in Editors |-> NoEdit] /\ ctl = [c \in Controllers |-> IdleCtl]
      /\ lock = None /\ live = Controllers /\ role = IdleRole
      /\ ids = MaxSeq + 1 /\ edits = 0
  BY DEF Init
<1>3. \A row \in Starts : row \in RowT /\ row.state = "pending"
  <2>1. ASSUME NEW n \in Seqs, NEW x \in Names, NEW d \in Defs
        PROVE  NewRow(n, x, d) \in RowT /\ NewRow(n, x, d).state = "pending"
    <3>1. n \in 1 .. MaxSeq + MaxEdits + 1
      BY <1>1 DEF Seqs
    <3> QED BY <3>1 DEF NewRow, RowT, States
  <2> QED BY <2>1 DEF Starts
<1>4. queue \in QueueT /\ \A s \in Rows : s \in Seqs /\ queue[s].state = "pending" /\ queue[s].id = s
  <2>1. queue \in QueueT
    BY <1>2, <1>3 DEF QueueT
  <2> QED BY <1>2, <1>3, <2>1 DEF Rows, InitialQueue
<1>5. Root \in Snapshot /\ Root.seq = 0 /\ Root.ev = RootEvaluator
  BY <1>1 DEF Root, Snapshot
<1>6. Len(stages) = 1 /\ stages[1] = Root /\ stages \in Seq(Snapshot)
  BY <1>2, <1>5
<1>7. Typed
  <2>1. IdleCtl \in CtlT /\ IdleRole \in RoleT
    BY <1>1 DEF IdleCtl, IdleRole, CtlT, RoleT
  <2>2. ctl \in [Controllers -> CtlT] /\ role \in RoleT /\ editor = [e \in Editors |-> editor[e]]
    BY <1>2, <2>1
  <2>3. lock \in Controllers \cup {None} /\ live \subseteq Controllers /\ open \in BOOLEAN /\ assigned \in BOOLEAN
    BY <1>2
  <2> QED BY <1>4, <1>6, <2>2, <2>3 DEF Typed
<1>8. IdsOK
  <2>1. Appending = {}
    BY <1>2 DEF Appending, NoEdit
  <2>2. Cardinality(Appending) = 0
    BY <2>1, FS_EmptySet
  <2>3. \A s \in Rows : queue[s].id \in Nat /\ queue[s].id < ids
    BY <1>1, <1>2, <1>4 DEF Seqs
  <2>4. \A r, s \in Rows : queue[r].id = queue[s].id => r = s
    BY <1>4
  <2> QED BY <1>1, <1>2, <2>2, <2>3, <2>4 DEF IdsOK
<1>9. \A e \in Editors : EditorOK(editor[e])
  BY <1>2 DEF EditorOK
<1>10. QueueValid
  BY <1>2 DEF InitialQueue, QueueValid
<1>11. Active = {} /\ OneActive /\ InOrder /\ CompletedStaged
  BY <1>4 DEF Active, OneActive, InOrder, CompletedStaged, Pending
<1>12. StagesOK
  <2>1. StageOK(Root)
    <3>1. \A r \in Rows : ~ (r < 0)
      BY <1>1, <1>4 DEF Seqs
    <3>2. \A r \in Rows : queue[r].state # "completed"
      BY <1>4
    <3> QED BY <1>1, <1>5, <3>2 DEF StageOK
  <2>2. \A i \in 1 .. Len(stages) : stages[i] = Root
    BY <1>6
  <2> QED BY <2>1, <2>2 DEF StagesOK
<1>13. \A c \in Controllers : CtlOK(ctl[c])
  BY <1>2 DEF CtlOK, IdleCtl
<1>14. RoleOK(role)
  BY <1>2 DEF RoleOK, IdleRole
<1> QED BY <1>7, <1>8, <1>9, <1>10, <1>11, <1>12, <1>13, <1>14 DEF QueueInv

\* The queue, its stages and who works on them keep the inductive invariant.
THEOREM Invariance == ASSUME TaskQueueAssumption PROVE Spec => []QueueInv
<1>1. Init => QueueInv
  BY InitKept
<1>2. QueueInv /\ [Next]_vars => QueueInv'
  BY StepKept
<1> QED BY <1>1, <1>2, PTL DEF Spec

-----------------------------------------------------------------------------
(* What the checks ask of the queue, for every value of the constants.     *)

LEMMA Types ==
  ASSUME TaskQueueAssumption, QueueInv
  PROVE  TypeOK
<1>1. /\ Typed /\ StagesOK /\ OneActive /\ MaxSeq \in Nat
      /\ queue \in [Seqs -> {None} \cup [id : 1 .. MaxSeq + MaxEdits + 1, name : Names, def : Defs, tune : BOOLEAN,
                                         state : {"pending", "active", "completed", "failed"}]]
  BY DEF QueueInv, Typed, QueueT, RowT, States, TaskQueueAssumption
<1>2. ASSUME NEW i \in 1 .. Len(stages)
      PROVE  stages[i].sm \in {"none", "plain", "grid", "raster"} /\ stages[i].seq < MaxSeq + 1
  <2>1. stages[i] \in Snapshot /\ StageOK(stages[i])
    BY <1>1 DEF Typed, StagesOK
  <2>2. stages[i].seq = 0 \/ stages[i].seq \in Rows
    BY <2>1 DEF StageOK
  <2>3. stages[i].seq = 0 \/ stages[i].seq \in 1 .. MaxSeq
    BY <2>2 DEF Rows, Seqs
  <2>4. stages[i].sm \in {"none", "plain", "grid", "raster"}
    BY <2>1 DEF Snapshot
  <2> QED BY <1>1, <2>3, <2>4
<1>3. \A c \in Controllers : ctl[c].pc \in {"idle", "load", "count", "activate", "apply", "complete", "finish"}
  BY <1>1 DEF Typed, CtlT
<1>4. role.pc \in {"idle", "run", "complete", "failing"}
  BY <1>1 DEF Typed, RoleT
<1>5. Cardinality(Active) <= 1
  <2>1. CASE Active = {}
    BY <2>1, FS_EmptySet
  <2>2. CASE Active # {}
    <3>1. PICK s \in Active : TRUE
      BY <2>2
    <3>2. Active = {s}
      BY <1>1, <3>1 DEF OneActive
    <3>3. Cardinality({s}) = 1
      BY FS_Singleton
    <3> QED BY <3>2, <3>3
  <2> QED BY <2>1, <2>2
<1>6. {open, assigned} \subseteq BOOLEAN /\ lock \in Controllers \cup {None} /\ live \subseteq Controllers
  BY <1>1 DEF Typed
<1> QED BY <1>1, <1>2, <1>3, <1>4, <1>5, <1>6 DEF TypeOK

\* An earlier task that has run is a source: its stage is found under its name, and the last
\* stage has all that any of them could give.
LEMMA SourcesFound ==
  ASSUME TaskQueueAssumption, QueueInv, NEW s \in Rows,
         \A r \in Rows : r < s => queue[r].state = "completed"
  PROVE  /\ \A r \in Rows : r < s =>
              /\ NamedStage(s, queue[r].name) # None /\ NamedStage(s, queue[r].name).ac
              /\ RunsOnSampler(queue[r].def) => NamedStage(s, queue[r].name).ev /\ Before(s).ev
              /\ Before(s).ac
         /\ RootEvaluator => Before(s).ev
<1>1. /\ Typed /\ IdsOK /\ StagesOK /\ QueueValid /\ s \in Seqs /\ s \in Nat /\ s > 0
      /\ \A r \in Rows : r \in Nat /\ r > 0 /\ (queue[r].state = "completed" => Staged(r))
  BY RowsTyped DEF QueueInv, CompletedStaged
<1> DEFINE b == Before(s)
<1>2. /\ b \in Snapshot /\ StageOK(b)
      /\ \A r \in Nat : r < s /\ Staged(r) => r <= b.seq
  BY <1>1, BeforeFound
<1> HIDE DEF b
<1>3. ASSUME NEW r \in Rows, r < s
      PROVE  /\ NamedStage(s, queue[r].name) # None /\ NamedStage(s, queue[r].name).ac
             /\ RunsOnSampler(queue[r].def) => NamedStage(s, queue[r].name).ev /\ b.ev
             /\ b.ac
  <2>1. Staged(r) /\ r <= b.seq /\ b.seq \in Nat /\ r \in Nat /\ r > 0 /\ queue[r].state = "completed"
    BY <1>1, <1>2, <1>3 DEF Snapshot
  <2>2. PICK st \in Snapshot : st = NamedStage(s, queue[r].name) /\ st # None /\ st.seq = r /\ StageOK(st)
    BY <1>1, <1>3, <2>1, NamedIs
  <2>3. st.ac /\ (RunsOnSampler(queue[r].def) => st.ev)
    BY <2>1, <2>2 DEF StageOK
  <2>4. b.ac
    BY <1>2, <2>1 DEF StageOK
  <2>5. RunsOnSampler(queue[r].def) => b.ev
    <3>1. CASE r = b.seq
      BY <1>2, <2>1, <3>1 DEF StageOK
    <3>2. CASE r < b.seq
      BY <1>2, <2>1, <3>2 DEF StageOK
    <3> QED BY <2>1, <3>1, <3>2
  <2> QED BY <2>2, <2>3, <2>4, <2>5
<1>4. RootEvaluator => b.ev
  BY <1>2 DEF StageOK
<1> QED BY <1>3, <1>4 DEF b

LEMMA SourcesAreKept ==
  ASSUME TaskQueueAssumption, QueueInv
  PROVE  SourcesKept
<1> SUFFICES ASSUME NEW s \in Active, \A r \in Rows : r < s => queue[r].state = "completed",
                    RunsOnSampler(queue[s].def)
             PROVE  /\ \A x \in SourceNames(queue[s].def) : NamedStage(s, x) # None
                    /\ EvaluatorFound(s, queue[s].def) /\ AccumulatorFound(s, queue[s].def)
  BY DEF SourcesKept
<1> DEFINE def == queue[s].def
           b == Before(s)
<1>1. /\ QueueValid /\ Typed /\ s \in Rows /\ def \in Defs
  BY RowsTyped DEF QueueInv, Active
<1>2. /\ \A r \in Rows : r < s =>
           /\ NamedStage(s, queue[r].name) # None /\ NamedStage(s, queue[r].name).ac
           /\ RunsOnSampler(queue[r].def) => NamedStage(s, queue[r].name).ev /\ b.ev
           /\ b.ac
      /\ RootEvaluator => b.ev
  BY <1>1, SourcesFound
<1>3. /\ \A x \in SourceNames(def) : \E r \in Rows : r < s /\ queue[r].name = x
      /\ AccumulatorSource(def) = "latest" => \E r \in Rows : r < s
      /\ RunsOnSampler(def) /\ def.ev \in Names =>
           \E r \in Rows : r < s /\ queue[r].name = def.ev /\ RunsOnSampler(queue[r].def)
      /\ RunsOnSampler(def) /\ def.ev \notin Names \cup {"config"} =>
           RootEvaluator \/ \E r \in Rows : r < s /\ RunsOnSampler(queue[r].def)
  BY <1>1, Promised
<1>4. RunsOnSampler(def)
  OBVIOUS
<1> HIDE DEF def, b
<1>5. /\ "latest" \notin Names /\ "config" \notin Names /\ "plain" \notin Names /\ "training" \notin Names
      /\ "inference" \notin Names /\ "raster" \notin Names
  BY DEF TaskQueueAssumption
<1>6. WellFormed(def) /\ def.kind \in {"set_accumulator", "sample", "image", "pdf"}
  BY <1>1 DEF TaskQueueAssumption
<1>7. \A x \in SourceNames(def) : NamedStage(s, x) # None /\ NamedStage(s, x).ac
  BY <1>2, <1>3
<1>8. EvaluatorFound(s, def)
  <2>1. CASE def.ev \in Names
    <3>1. Stage(s, def.ev) = NamedStage(s, def.ev)
      BY <1>5, <2>1 DEF Stage
    <3>2. NamedStage(s, def.ev) # None /\ NamedStage(s, def.ev).ev
      BY <1>2, <1>3, <1>4, <2>1
    <3> QED BY <3>1, <3>2 DEF EvaluatorFound
  <2>2. CASE def.ev \notin Names \cup {"config"}
    <3>1. b.ev
      BY <1>2, <1>3, <1>4, <2>2
    <3> QED BY <3>1 DEF EvaluatorFound, b
  <2> QED BY <2>1, <2>2 DEF EvaluatorFound
<1>9. AccumulatorFound(s, def)
  <2>1. CASE def.kind = "pdf"
    <3>1. SamplerSource(def) = def.sm /\ AccumulatorSource(def) = def.sm
      BY <1>5, <1>6, <2>1 DEF SamplerSource, AccumulatorSource, WellFormed
    <3>2. \E r \in Rows : r < s
      <4>1. def.sm \in Names => def.sm \in SourceNames(def)
        BY <3>1 DEF SourceNames
      <4> QED BY <1>3, <1>6, <2>1, <3>1, <4>1 DEF WellFormed
    <3>3. b.ac
      BY <1>2, <3>2
    <3> QED BY <2>1, <3>3 DEF AccumulatorFound, b
  <2>2. CASE def.kind = "image"
    BY <1>6, <2>2 DEF AccumulatorFound, WellFormed
  <2>3. CASE def.kind = "sample"
    <3>1. CASE def.ac = "config"
      BY <2>3, <3>1 DEF AccumulatorFound
    <3>2. CASE def.ac = "latest"
      <4>1. AccumulatorSource(def) = "latest"
        BY <2>3, <3>2 DEF AccumulatorSource
      <4>2. Stage(s, def.ac) = b
        BY <3>2, <1>5 DEF Stage, b
      <4>3. b.ac
        BY <1>2, <1>3, <4>1
      <4> QED BY <2>3, <3>2, <4>2, <4>3 DEF AccumulatorFound
    <3>3. CASE def.ac \in Names
      <4>1. def.ac \in SourceNames(def)
        BY <2>3, <3>3 DEF SourceNames
      <4>2. Stage(s, def.ac) = NamedStage(s, def.ac)
        BY <1>5, <3>3 DEF Stage
      <4> QED BY <1>5, <1>7, <2>3, <3>3, <4>1, <4>2 DEF AccumulatorFound
    <3> QED BY <1>6, <2>3, <3>1, <3>2, <3>3 DEF WellFormed
  <2> QED BY <1>4, <1>6, <2>1, <2>2, <2>3 DEF RunsOnSampler, RunsInControlPlane
<1> QED BY <1>7, <1>8, <1>9 DEF def

\* What the rows, stages, control loops and the role hold has the types the code gives it,
\* and at most one task is active.
THEOREM QueueTyped == ASSUME TaskQueueAssumption PROVE Spec => []TypeOK
<1>1. QueueInv => TypeOK
  BY Types
<1> QED BY <1>1, Invariance, PTL

\* However edits of several requests interleave with activation and failure, the queue that
\* results is one the preflight accepts (src/api/runs.rs, apply_task_queue_change).
THEOREM QueueStaysValid == ASSUME TaskQueueAssumption PROVE Spec => []QueueValid
<1>1. QueueInv => QueueValid
  BY DEF QueueInv
<1> QED BY <1>1, Invariance, PTL

\* No pending task is left behind by one that is active or completed, whichever control loops
\* activate tasks (activate_next_run_task).
THEOREM TasksInOrder == ASSUME TaskQueueAssumption PROVE Spec => []InOrder
<1>1. QueueInv => InOrder
  BY DEF QueueInv
<1> QED BY <1>1, Invariance, PTL

\* A completed task has left its stage, also when ticks fail between the stage and the
\* completion (reconcile_control_task, the final checkpoint of a sampler).
THEOREM CompletedLeavesStage == ASSUME TaskQueueAssumption PROVE Spec => []CompletedHasStage
<1>1. ASSUME QueueInv, NEW s \in Rows, queue[s].state = "completed"
      PROVE  \E i \in 1 .. Len(stages) : stages[i].task = queue[s].id
  <2>1. PICK i \in 1 .. Len(stages) : stages[i].seq = s
    BY <1>1 DEF QueueInv, CompletedStaged, Staged
  <2>2. StageOK(stages[i]) /\ s # 0
    BY <1>1, RowsTyped DEF QueueInv, StagesOK
  <2> QED BY <2>1, <2>2 DEF StageOK
<1>2. QueueInv => CompletedHasStage
  BY <1>1 DEF CompletedHasStage
<1> QED BY <1>2, Invariance, PTL

\* When all tasks before an active one were completed, it finds the stages it names, an
\* evaluator and an accumulator, as the preflight promised (resolve_stage_context).
THEOREM PromisesKept == ASSUME TaskQueueAssumption PROVE Spec => []SourcesKept
<1>1. QueueInv => SourcesKept
  BY SourcesAreKept
<1> QED BY <1>1, Invariance, PTL

\* A task that was activated keeps its id, name and definition for good, and one that ended
\* keeps its outcome, whatever editors, control loops and roles do.
THEOREM HistoryStays == ASSUME TaskQueueAssumption PROVE Spec => [][HistoryKept]_vars
<1>1. QueueInv /\ [Next]_vars => [HistoryKept]_vars
  BY StepKept
<1> QED BY <1>1, Invariance, PTL DEF Spec

\* The task queue as a whole (tasks.rs, stage_context.rs, task_control.rs): for any editors, control
\* loops and definitions it stays valid and in order, with the stages and sources it promised.
THEOREM QueueSafe == ASSUME TaskQueueAssumption PROVE Spec => QueueKept
BY QueueTyped, QueueStaysValid, TasksInOrder, CompletedLeavesStage, PromisesKept, HistoryStays, PTL
   DEF QueueKept
=============================================================================
