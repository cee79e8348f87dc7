--------------------------- MODULE AssignmentPlan ---------------------------
(***************************************************************************)
(* How controllers share one worker pool among the runs below them.        *)
(*                                                                         *)
(* A controller task reads the nodes, computes where each node of its pool *)
(* should work (controller_assignment_updates) and publishes the changes   *)
(* in one transaction that checks every changed node against the value it  *)
(* read.  A child may itself be a controller that schedules the nodes      *)
(* placed on it, so two planners move the same nodes, each at its level.   *)
(* Operators assign, clear, pause and resume the pool in between.          *)
(*                                                                         *)
(* Nodes and runs are integers, in the order of their names and ids.       *)
(* Leases and the connection budget are NodeControl's and WorkerLaunch's.  *)
(***************************************************************************)
EXTENDS Integers, Sequences, FiniteSets, SequencesExt

CONSTANTS Workers,     \* the nodes, numbered in name order
          Root,        \* the run that owns the pool
          Children,    \* controller |-> the runs it created (two levels)
          Selections,  \* controller |-> the sequences of children it may select
          MaxOps,      \* bound on operator requests and changes of selection
          None

Controllers == DOMAIN Children

\* A run has one parent, and is selected at most once.
RunAssumption ==
  /\ Workers \subseteq Nat /\ IsFiniteSet(Workers) /\ MaxOps \in Nat
  /\ Root \in Controllers /\ Controllers \ {Root} \subseteq Children[Root]
  /\ \A c \in Controllers : c \notin Children[c]
  /\ \A b, c \in Controllers : b # c => Children[b] \cap Children[c] = {}
  /\ \A c \in Controllers : \A s \in Selections[c] :
       s \in Seq(Children[c]) /\ \A i, j \in DOMAIN s : s[i] = s[j] => i = j

VARIABLES pool,      \* the role in which a node belongs to the pool, or None
          desired,   \* its desired assignment [run, role], or None
          selected,  \* what each controller wants to run, in priority order
          snap,      \* the nodes a controller's tick has read, and its selection
          ops        \* requests so far
vars == <<pool, desired, selected, snap, ops>>

Roles == {"sampler", "evaluator"}
At(r, role) == [run |-> r, role |-> role]

(***************************************************************************)
(* The plan.  d is the assignment of the nodes that were read.             *)
(***************************************************************************)
Nested(c) == Children[c] \cap Controllers

\* worker_pool_branches: every run below c ...
Branches(c) == Children[c] \cup UNION {Children[b] : b \in Nested(c)}

\* ... and the direct child it descends from: a placement at this controller's level.
Level(c, r) ==
  IF \E b \in Nested(c) : r \in Children[b] THEN CHOOSE b \in Nested(c) : r \in Children[b] ELSE r

Reusable(c, d) ==
  {n \in Workers : d[n] # None /\ d[n].run \in {c} \cup Branches(c)}
InRole(c, d, role) == {n \in Reusable(c, d) : d[n].role = role}
InOrder(S) ==
  [i \in 1 .. Cardinality(S) |-> CHOOSE n \in S : Cardinality({m \in S : m < n}) = i - 1]

\* Samplers stay on children that are still selected: the first of each, and all of a controller's.
KeptSamplers(c, s, d) ==
  {n \in InRole(c, d, "sampler") :
     LET r == Level(c, d[n].run) IN
       /\ r \in Range(s)
       /\ \/ r \in Controllers
          \/ \A m \in InRole(c, d, "sampler") : Level(c, d[m].run) = r => n <= m}

\* The runs of s that are in R, in their order.
Among(s, R) ==
  LET at == InOrder({k \in DOMAIN s : s[k] \in R}) IN [i \in DOMAIN at |-> s[at[i]]]

\* Only a nested controller can use a second sampler.
Spare(s) == Among(s, Controllers)

\* The other samplers go to the selected children without one, then around the nested controllers.
SamplerPlaces(c, s, d) ==
  LET kept   == KeptSamplers(c, s, d)
      free   == InOrder(InRole(c, d, "sampler") \ kept)
      need   == Among(s, Range(s) \ {Level(c, d[n].run) : n \in kept})
      nested == Spare(s)
      Place(i) == IF i <= Len(need) THEN need[i]
                  ELSE nested[((i - Len(need) - 1) % Len(nested)) + 1]
      filled == IF nested = <<>> THEN 1 .. (IF Len(free) < Len(need) THEN Len(free) ELSE Len(need))
                ELSE DOMAIN free
  IN  [n \in kept \cup {free[i] : i \in filled} |->
         IF n \in kept THEN Level(c, d[n].run)
         ELSE Place(CHOOSE i \in filled : free[i] = n)]

\* How many of count evaluators the i-th of k active children gets.
Share(count, k, i) == (count \div k) + (IF i <= count % k THEN 1 ELSE 0)

\* Evaluators are spread evenly over the children with a sampler, in the order of their ids.
ActiveOrder(s, places) == InOrder(Range(places))

EvaluatorPlaces(c, s, d, places) ==
  LET evals  == InRole(c, d, "evaluator")
      active == ActiveOrder(s, places)
      need   == [i \in DOMAIN active |-> Share(Cardinality(evals), Len(active), i)]
      On(n, i) == Level(c, d[n].run) = active[i]
      Stays(n, i) == On(n, i) /\ Cardinality({m \in evals : m < n /\ On(m, i)}) < need[i]
      stay   == {n \in evals : \E i \in DOMAIN active : Stays(n, i)}
      left   == [i \in DOMAIN active |-> need[i] - Cardinality({n \in stay : On(n, i)})]
      rest   == InOrder(evals \ stay)
      slots  == FlattenSeq([i \in DOMAIN active |-> [k \in 1 .. left[i] |-> active[i]]])
  IN  IF active = <<>> THEN <<>>
      ELSE [n \in evals |-> IF n \in stay THEN Level(c, d[n].run)
                            ELSE slots[CHOOSE i \in DOMAIN rest : rest[i] = n]]

\* A placement below an unchanged branch is that branch's own business.
Deeper(c, before, after) ==
  IF before.run \in Branches(c) /\ Level(c, before.run) = after THEN before.run ELSE after

\* Nodes that found no place go back to the controller's own run: they stay in the pool.
Waiting(c, role) == At(c, role)

Plan(c, s, d) ==
  LET samplers   == IF s = <<>> THEN <<>> ELSE SamplerPlaces(c, s, d)
      evaluators == IF s = <<>> THEN <<>> ELSE EvaluatorPlaces(c, s, d, samplers)
      Target(n)  == CASE n \in DOMAIN samplers -> At(Deeper(c, d[n], samplers[n]), d[n].role)
                      [] n \in DOMAIN evaluators -> At(Deeper(c, d[n], evaluators[n]), d[n].role)
                      [] OTHER -> Waiting(c, d[n].role)
  IN  [n \in Workers |-> IF n \in Reusable(c, d) THEN Target(n) ELSE d[n]]

(***************************************************************************)
(* The controllers.                                                        *)
(***************************************************************************)
\* A tick reads the branches and the nodes ...
Read(c) ==
  /\ snap[c] = None
  /\ snap' = [snap EXCEPT ![c] = [nodes |-> desired, select |-> selected[c]]]
  /\ UNCHANGED <<pool, desired, selected, ops>>

\* ... and publishes its changes, all of them or, when one node is not as read, none.
AcceptedAny(read, p) == TRUE   \* mutant: the expected assignment is not compared
Accepted(read, p) == \A n \in Workers : p[n] # read[n] => desired[n] = read[n]

Publish(c) ==
  /\ snap[c] # None
  /\ snap' = [snap EXCEPT ![c] = None]
  /\ \E read \in {snap[c].nodes} : \E p \in {Plan(c, snap[c].select, read)} :
       \/ /\ Accepted(read, p)
          /\ desired' = [n \in Workers |-> IF p[n] # read[n] THEN p[n] ELSE desired[n]]
       \/ ~Accepted(read, p) /\ UNCHANGED desired
  /\ UNCHANGED <<pool, selected, ops>>

\* The tick's process dies between the two.
Die(c) ==
  /\ snap[c] # None /\ ops < MaxOps
  /\ snap' = [snap EXCEPT ![c] = None] /\ ops' = ops + 1
  /\ UNCHANGED <<pool, desired, selected>>

\* Another set of children is runnable, or their priorities changed (empty: the task ends).
Reselect(c) ==
  /\ ops < MaxOps /\ ops' = ops + 1
  /\ \E s \in Selections[c] \ {selected[c]} : selected' = [selected EXCEPT ![c] = s]
  /\ UNCHANGED <<pool, desired, snap>>

(***************************************************************************)
(* The operator.                                                           *)
(***************************************************************************)
\* assign_node: always to the root pool; a node of the same pool and role keeps its placement.
AssignNode(n, role) ==
  /\ ops < MaxOps /\ ops' = ops + 1
  /\ pool' = [pool EXCEPT ![n] = role]
  /\ desired' = [desired EXCEPT ![n] =
       IF pool[n] = role /\ desired[n] # None THEN At(desired[n].run, role) ELSE At(Root, role)]
  /\ UNCHANGED <<selected, snap>>

UnassignNode(n) ==
  /\ ops < MaxOps /\ ops' = ops + 1
  /\ pool[n] # None
  /\ pool' = [pool EXCEPT ![n] = None] /\ desired' = [desired EXCEPT ![n] = None]
  /\ UNCHANGED <<selected, snap>>

PausePool ==
  /\ ops < MaxOps /\ ops' = ops + 1
  /\ desired' = [n \in Workers |-> None]
  /\ UNCHANGED <<pool, selected, snap>>

ResumePool ==
  /\ ops < MaxOps /\ ops' = ops + 1
  /\ \E n \in Workers : pool[n] # None /\ desired[n] = None
  /\ desired' = [n \in Workers |-> IF pool[n] # None /\ desired[n] = None
                                   THEN At(Root, pool[n]) ELSE desired[n]]
  /\ UNCHANGED <<pool, selected, snap>>

Init ==
  /\ pool \in [Workers -> Roles]
  /\ desired = [n \in Workers |-> At(Root, pool[n])]
  /\ selected \in [Controllers -> UNION {Selections[c] : c \in Controllers}]
  /\ \A c \in Controllers : selected[c] \in Selections[c]
  /\ snap = [c \in Controllers |-> None]
  /\ ops = 0

Next == \/ \E c \in Controllers : Read(c) \/ Publish(c) \/ Die(c) \/ Reselect(c)
        \/ \E n \in Workers : UnassignNode(n) \/ \E role \in Roles : AssignNode(n, role)
        \/ PausePool \/ ResumePool

Spec == Init /\ [][Next]_vars
(***************************************************************************)
(* Properties                                                              *)
(***************************************************************************)
\* Type of the variables.
Assignments == {None} \cup [run : Controllers \cup UNION {Children[c] : c \in Controllers},
                            role : Roles]
TypeOK ==
  /\ pool \in [Workers -> Roles \cup {None}]
  /\ desired \in [Workers -> Assignments]
  /\ \A c \in Controllers : selected[c] \in Selections[c]
  /\ \A c \in Controllers : snap[c] = None \/ snap[c].nodes \in [Workers -> Assignments]
  /\ ops \in 0 .. MaxOps

\* What update_desired_assignments' "expected" is for: however stale the snapshot a plan was
\* made from, no node that left the pool works for it and no node works in another role than
\* the one the pool has it in.
PoolOwned ==
  \A n \in Workers : desired[n] # None => desired[n].role = pool[n]

Samplers(r) == {n \in Workers : desired[n] = At(r, "sampler")}

\* Two planners and an operator never leave two samplers on one executable run (the second
\* would fight for its current-sampler slot for ever).
OneSampler ==
  \A r \in (UNION {Children[c] : c \in Controllers}) \ Controllers : Cardinality(Samplers(r)) <= 1

\* "Stable distribution depends on membership, not priority": once a plan is in place, neither
\* repeating it nor reordering the same selection moves any node.
MembershipOnly ==
  \A c \in Controllers : \A s \in Selections[c] : \E d \in {Plan(c, s, desired)} :
     \A t \in {u \in Selections[c] : Range(u) = Range(s)} : Plan(c, t, d) = d

\* After a plan the evaluators of the pool are all on children that have a sampler, in
\* numbers that differ by at most one; without such a child they wait on the controller.
Balanced ==
  \A c \in Controllers : \A s \in Selections[c] : \E d \in {Plan(c, s, desired)} :
     LET On(r, role) == {n \in InRole(c, d, role) : Level(c, d[n].run) = r}
         active == {r \in Children[c] : On(r, "sampler") # {}}
     IN  /\ \A r \in Children[c] \ active : On(r, "evaluator") = {}
         /\ active # {} => On(c, "evaluator") = {}
         /\ \A r, q \in active :
              Cardinality(On(r, "evaluator")) <= Cardinality(On(q, "evaluator")) + 1

\* A controller's publication leaves every child it still selects the sampler it had, whatever
\* happened to priorities and to the other children.
SamplerStays ==
  \A c \in Controllers :
    (snap[c] # None /\ snap'[c] = None /\ ops' = ops) =>
      \A r \in Range(snap[c].select) \ Controllers :
         Samplers(r) # {} => Samplers(r)' = Samplers(r)

\* Publishing never loses a node: whatever is not placed stays with the controller.
NeverFreed ==
  \A c \in Controllers :
    (snap[c] # None /\ snap'[c] = None) =>
      \A n \in Workers : desired[n] # None => desired'[n] # None

\* Nested plans as a whole: nodes are of their pool, samplers alone on their run, and publishing
\* neither frees a node nor moves the sampler of a run that stays selected.
PlansAgree == [](PoolOwned /\ OneSampler) /\ [][SamplerStays /\ NeverFreed]_vars
=============================================================================
