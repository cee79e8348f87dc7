----------------------------- MODULE AutoAssign -----------------------------
(***************************************************************************)
(* From a worker group's resources to a role in a run's pool.              *)
(*                                                                         *)
(* normalize turns a group's configuration, with its aliases and           *)
(* shorthands, into one canonical recipe and the capabilities its nodes    *)
(* register with.  auto_assign_run reads the nodes, plans samplers and     *)
(* evaluators over the free ones by capability, and assigns them one call  *)
(* at a time while operators and other runs assign nodes too.              *)
(***************************************************************************)
EXTENDS Integers, Sequences, FiniteSets, FiniteSetsExt, Functions, TLC

CONSTANTS Workers,        \* node names, as numbers in name order
          Recipes,        \* the group configurations nodes are launched with
          SamplerReq, EvaluatorReq,    \* required capabilities of the run's roles
          MaxSamplers, MinEvaluators,  \* the allocation policy of the run's task
          EvaluatorLimit,
          MaxOps,         \* bound on operator requests and crashes
          None

PolicyAssumption == MaxSamplers \in Nat /\ MinEvaluators \in Nat /\ Workers \subseteq Nat

VARIABLES caps,     \* node |-> its registered capabilities, or None: not live
          recipe,   \* node |-> the recipe its launch was stored with
          pool,     \* node |-> [run, role] of its pool, or None
          auto,     \* the assignments an auto-assignment still has to make
          ops
vars == <<caps, recipe, pool, auto, ops>>

(***************************************************************************)
(* Resources.  A configuration gives some keys a value: the CPU aliases, a *)
(* memory limit, and GPUs as a shorthand, as gpus, or as a gres list       *)
(* (here: the numbers of GPUs of its gpu entries).  Other numeric keys     *)
(* become capabilities as they are.                                        *)
(***************************************************************************)
CpuKeys == {"cores", "nr_cores", "cpus", "cpus_per_task", "cpus-per-task"}
MemKeys == {"mem_per_cpu", "mem-per-cpu"}

SumSeq(s) == FoldFunction(+, 0, s)
Given(c, K) == {c[k] : k \in K \cap DOMAIN c}

GpuForms(c) ==
  (IF "gpu" \in DOMAIN c /\ c["gpu"] > 0 THEN {"gpu"} ELSE {})
    \cup (IF "gres" \in DOMAIN c /\ SumSeq(c["gres"]) > 0 THEN {"gres"} ELSE {})
    \cup (IF "gpus" \in DOMAIN c THEN {"gpus"} ELSE {})

Refused(c) ==
  \/ Cardinality(Given(c, CpuKeys)) > 1 \/ 0 \in Given(c, CpuKeys)
  \/ "mem" \in DOMAIN c /\ MemKeys \cap DOMAIN c # {}
  \/ Cardinality(Given(c, MemKeys)) > 1
  \/ "gpus" \in DOMAIN c /\ c["gpus"] = 0
  \/ Cardinality(GpuForms(c)) > 1

GpuCount(c) ==
  IF "gpu" \in DOMAIN c /\ c["gpu"] > 0 THEN c["gpu"]
  ELSE IF "gpus" \in DOMAIN c THEN c["gpus"]
  ELSE IF "gres" \in DOMAIN c THEN SumSeq(c["gres"]) ELSE 0

\* The canonical recipe.
Gres(c) ==
  IF "gpu" \in DOMAIN c /\ c["gpu"] > 0
    THEN ("gres" :> Append(IF "gres" \in DOMAIN c THEN c["gres"] ELSE <<>>, c["gpu"]))
    ELSE Restrict(c, {"gres"} \cap DOMAIN c)

Canonical(c) ==
  Gres(c)
    @@ (IF Given(c, CpuKeys) # {} THEN ("cpus_per_task" :> (CHOOSE n \in Given(c, CpuKeys) : TRUE)) ELSE <<>>)
    @@ (IF Given(c, MemKeys) # {} THEN ("mem_per_cpu" :> (CHOOSE n \in Given(c, MemKeys) : TRUE)) ELSE <<>>)
    @@ (IF GpuCount(c) > 0 /\ "partition" \notin DOMAIN c THEN ("partition" :> "gpu") ELSE <<>>)
    @@ Restrict(c, DOMAIN c \ (CpuKeys \cup MemKeys \cup {"gpu", "gres"}))

Capabilities(c) ==
  LET plain == DOMAIN Canonical(c) \ {"gpus", "cpus_per_task", "gres", "partition"} IN
    Restrict(Canonical(c), plain)
      @@ (IF Given(c, CpuKeys) # {} THEN ("cpus" :> (CHOOSE n \in Given(c, CpuKeys) : TRUE)) ELSE <<>>)
      @@ (IF GpuCount(c) > 0 THEN ("gpu" :> GpuCount(c)) ELSE <<>>)

(***************************************************************************)
(* Roles                                                                   *)
(***************************************************************************)
Satisfies(cap, req) == \A k \in DOMAIN req : k \in DOMAIN cap /\ cap[k] >= req[k]

\* capability_score: what the node has beyond the requirement, GPUs weighing most, then its name.
Weight(k, v) == IF k = "gpu" THEN v * 1000 ELSE v
Score(n, req) ==
  LET cap == caps[n]
      Extra(k) == IF k \in DOMAIN req THEN cap[k] - req[k] ELSE 0
      Other(k) == IF k \in DOMAIN req THEN 0 ELSE Weight(k, cap[k])
  IN  << MapThenSumSet(Extra, DOMAIN cap), MapThenSumSet(Other, DOMAIN cap),
         Cardinality(DOMAIN cap), n >>
Before(a, b) == \E i \in DOMAIN a : a[i] < b[i] /\ \A j \in 1 .. i - 1 : a[j] = b[j]

\* The samplers' order prefers nodes that could not evaluate.
KeyByScore(n) == Score(n, SamplerReq)   \* mutant: the fittest sampler first
SamplerKey(n) ==
  <<IF Satisfies(caps[n], EvaluatorReq) THEN 1 ELSE 0>> \o Score(n, SamplerReq)
EvaluatorKey(n) == Score(n, EvaluatorReq)

\* The first k nodes in the order of their keys.
Take(key, k) ==
  {n \in DOMAIN key : Cardinality({m \in DOMAIN key : Before(key[m], key[n])}) < k}

Fit(S, req) == {n \in S : Satisfies(caps[n], req)}
InPool(role) == {n \in Workers : caps[n] # None /\ pool[n] = [run |-> "own", role |-> role]}
FreeNodes == {n \in Workers : caps[n] # None /\ pool[n] = None}

\* The samplers and evaluators planned for a number of active runs.
Bundle(active) ==
  LET missing  == active - Cardinality(InPool("sampler"))
      samplers == Take([n \in Fit(FreeNodes, SamplerReq) |-> SamplerKey(n)], missing)
      others   == Fit(FreeNodes \ samplers, EvaluatorReq)
  IN  [samplers |-> samplers, evaluators |-> Take([n \in others |-> EvaluatorKey(n)], EvaluatorLimit)]

Complete(active, b) ==
  /\ Cardinality(InPool("sampler")) + Cardinality(b.samplers) >= active
  /\ Cardinality(InPool("evaluator")) + Cardinality(b.evaluators) >= active * MinEvaluators
\* plan_auto_roles: the largest number of active runs whose bundles are complete.
MostActive ==
  LET top == Min({MaxSamplers, Cardinality(InPool("sampler")) + Cardinality(FreeNodes)})
  IN  Max({a \in 0 .. top : Complete(a, Bundle(a))})
AutoRoles == Bundle(MostActive)

(***************************************************************************)
(* Actions                                                                 *)
(***************************************************************************)
Launch(n, r) ==
  /\ caps[n] = None /\ ~Refused(r)
  /\ caps' = [caps EXCEPT ![n] = Capabilities(r)]
  /\ recipe' = [recipe EXCEPT ![n] = Canonical(r)]
  /\ UNCHANGED <<pool, auto, ops>>

\* auto_assign_run reads the nodes and plans: samplers are assigned first.
StartAuto ==
  /\ auto = None
  /\ \E b \in {AutoRoles} :
       /\ b.samplers \cup b.evaluators # {}
       /\ auto' = b
  /\ UNCHANGED <<caps, recipe, pool, ops>>

\* One assign_worker_pool call, in the planned order; nothing says the node is still free.
AssignNext ==
  /\ auto # None /\ auto.samplers \cup auto.evaluators # {}
  /\ LET role == IF auto.samplers # {} THEN "sampler" ELSE "evaluator"
         from == IF auto.samplers # {} THEN auto.samplers ELSE auto.evaluators
         n    == Min(from)
     IN /\ pool' = [pool EXCEPT ![n] = [run |-> "own", role |-> role]]
        /\ auto' = IF role = "sampler" THEN [auto EXCEPT !.samplers = @ \ {n}]
                   ELSE [auto EXCEPT !.evaluators = @ \ {n}]
  /\ UNCHANGED <<caps, recipe, ops>>

EndAuto ==
  /\ auto # None /\ auto.samplers \cup auto.evaluators = {}
  /\ auto' = None
  /\ UNCHANGED <<caps, recipe, pool, ops>>

\* The request is cut off between two assignments.
CutOff ==
  /\ auto # None /\ ops < MaxOps /\ ops' = ops + 1
  /\ auto' = None
  /\ UNCHANGED <<caps, recipe, pool>>

\* An operator gives a node a role, in this run or in another one.
Operator(n, run, role) ==
  /\ ops < MaxOps /\ ops' = ops + 1
  /\ caps[n] # None
  /\ pool' = [pool EXCEPT ![n] = [run |-> run, role |-> role]]
  /\ UNCHANGED <<caps, recipe, auto>>

Unassign(n) ==
  /\ ops < MaxOps /\ ops' = ops + 1
  /\ pool[n] # None /\ pool' = [pool EXCEPT ![n] = None]
  /\ UNCHANGED <<caps, recipe, auto>>

Init ==
  /\ caps = [n \in Workers |-> None] /\ recipe = caps /\ pool = [n \in Workers |-> None]
  /\ auto = None /\ ops = 0

Next ==
  \/ StartAuto \/ AssignNext \/ EndAuto \/ CutOff
  \/ \E n \in Workers :
       \/ Unassign(n)
       \/ \E r \in Recipes : Launch(n, r)
       \/ \E run \in {"own", "other"}, role \in {"sampler", "evaluator"} : Operator(n, run, role)

Spec == Init /\ [][Next]_vars

(***************************************************************************)
(* Properties                                                              *)
(***************************************************************************)
Roles == [run : {"own", "other"}, role : {"sampler", "evaluator"}]

\* Type of the variables.
TypeOK ==
  /\ \A n \in Workers : caps[n] = None \/ (DOMAIN caps[n] \subseteq {"cpus", "gpu", "mem", "mem_per_cpu", "tier"} /\ Range(caps[n]) \subseteq Nat)
  /\ pool \in [Workers -> Roles \cup {None}]
  /\ auto = None \/ (auto.samplers \subseteq Workers /\ auto.evaluators \subseteq Workers)
  /\ ops \in 0 .. MaxOps

\* Every choice of samplers and evaluators among the free nodes.
Splits ==
  {c \in [samplers : SUBSET Fit(FreeNodes, SamplerReq), evaluators : SUBSET Fit(FreeNodes, EvaluatorReq)] :
     c.samplers \cap c.evaluators = {} /\ Cardinality(c.evaluators) <= EvaluatorLimit}

\* plan_auto_roles reserves complete bundles before it consumes flexible nodes: no choice of
\* roles for the free nodes would keep more runs active than its greedy one.
BestBundles ==
  \A a \in MostActive + 1 .. MaxSamplers : ~ \E c \in Splits : Complete(a, c)

\* A stored recipe is canonical: normalizing it again changes neither it nor the
\* capabilities that its nodes were registered with (they drive scheduling and GPU set-up).
CanonicalRecipe ==
  \A n \in Workers : recipe[n] # None =>
     /\ ~Refused(recipe[n])
     /\ Canonical(recipe[n]) = recipe[n]
     /\ Capabilities(recipe[n]) = caps[n]
=============================================================================
