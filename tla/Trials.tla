------------------------------- MODULE Trials -------------------------------
(***************************************************************************)
(* Controllers that run one child per point of a parameter space: scans    *)
(* (src/runners/parameter_scan.rs) and hyperparameter tuning by random,    *)
(* grid or model-based search (src/runners/hyperparameter_tuning.rs), with *)
(* the spaces of src/core/tasks.rs and src/runners/parameter_grid.rs.      *)
(*                                                                         *)
(* A tick observes the children, creates what is missing, places samplers  *)
(* and persists its output, in that order and in separate transactions.    *)
(***************************************************************************)
EXTENDS Integers, Sequences, FiniteSets, FiniteSetsExt

CONSTANTS
  Kinds,      \* controllers: "scan", "grid", "random", "egobox"
  Spaces,     \* parameter spaces: sequences of domains
  MaxInt,     \* largest integer of the code's width
  MaxTrials,  \* max_trials of random and model-based search
  Concurrent, \* max_concurrent_runs / max_concurrent_trials
  Parallel,   \* parallel_candidates
  Initial,    \* initial design of model-based search
  MaxFaults,  \* bound on failures of any kind
  None

TrialsAssumption ==
  /\ Kinds \subseteq {"scan", "grid", "random", "egobox"}
  /\ {MaxInt, MaxTrials, Concurrent, Parallel, Initial} \subseteq Nat \ {0} /\ MaxFaults \in Nat

VARIABLES
  kind, space, draws, \* what the task defines; draws: the seeded random point of each index
  task,   \* active, completed or failed
  kid,    \* the child run of each index, or None
  out,    \* persisted trials: point and status, or None
  placed, \* children that samplers are wanted for
  ctl,    \* the tick: where it is and what it has read
  faults

vars == <<kind, space, draws, task, kid, out, placed, ctl, faults>>
definition == <<kind, space, draws>>
IdleCtl == [pc |-> "idle"]
Fault == faults < MaxFaults /\ faults' = faults + 1

-----------------------------------------------------------------------------
(* Parameter spaces                                                        *)

\* Integer ranges: from min in steps up to max, stopping where the addition would overflow.
RangeValues(d) ==
  LET walk[v \in d.min .. MaxInt] == IF v > d.max THEN <<>>
        ELSE <<v>> \o (IF v + d.step > MaxInt THEN <<>> ELSE walk[v + d.step])
  IN walk[d.min]

DomainValues(d) == IF d.type = "range" THEN RangeValues(d) ELSE d.values

\* hyperparameter_grid_domain_len: the count of the preflight and of random draws.
DomainLen(d) == IF d.type = "range" THEN (d.max - d.min) \div d.step + 1 ELSE Len(d.values)

ProductOf(f, n) == LET prod[k \in 0 .. n] == IF k = 0 THEN 1 ELSE f[k] * prod[k - 1] IN prod[n]
GridLen(s) == ProductOf([k \in 1 .. Len(s) |-> Len(DomainValues(s[k]))], Len(s))

SpacesAssumption == IsFiniteSet(Spaces) /\ \A s \in Spaces : GridLen(s) \in Nat

\* cartesian_grid_point: the digits of the index, the last parameter fastest.
GridPoint(s, i) ==
  LET n(k) == Len(DomainValues(s[k]))
      rest[k \in 1 .. Len(s)] == IF k = Len(s) THEN i ELSE rest[k + 1] \div n(k + 1)
  IN [k \in 1 .. Len(s) |-> DomainValues(s[k])[(rest[k] % n(k)) + 1]]

Values(q) == {q[k] : k \in 1 .. Len(q)}
Points(s) == {p \in [1 .. Len(s) -> UNION {Values(DomainValues(s[k])) : k \in 1 .. Len(s)}] :
                \A k \in 1 .. Len(s) : p[k] \in Values(DomainValues(s[k]))}

Total == IF kind \in {"scan", "grid"} THEN GridLen(space) ELSE MaxTrials
Planned == 0 .. Total - 1
MaxIndex == Max({MaxTrials} \cup {GridLen(s) : s \in Spaces}) - 1
Index == 0 .. MaxIndex

-----------------------------------------------------------------------------
(* The tick                                                                *)

Existing == {i \in Index : kid[i] # None}
Finished(status) == status \in {"completed", "failed"}

\* Candidates of model-based search: what the output remembers, and new indices.
Remembered == {i \in Index : out[i] # None}

\* Mutant: children that are under way take no room.
RoomFresh(running) == Concurrent

Room(running) == Max({Concurrent - running, 0})
Known == {i \in Existing \cap Remembered : ~Finished(out[i].status)}

NewIndices ==
  LET free == Planned \ Existing
      n == Min({Room(Cardinality(Known)), Parallel, Max({Total - Cardinality(Existing), 0})})
  IN {i \in free : Cardinality({j \in free : j <= i}) <= n}

Observations == Cardinality({i \in Remembered : out[i].status = "completed"})

\* random_distinct_point and first_distinct_finite_point: new points while there are any.
Suggested(used) == IF Points(space) \ used = {} THEN Points(space) ELSE Points(space) \ used

\* The points new indices may be given: the seeded draw during the initial design, then
\* suggestions that repeat neither an earlier trial nor each other.
NewPoints ==
  IF Observations <= Initial THEN {[i \in NewIndices |-> draws[i]]}
  ELSE LET used == {out[i].pt : i \in Existing \cap Remembered}
           S(i, f) == Suggested(used \cup {f[j] : j \in {k \in NewIndices : k < i}})
       IN {f \in [NewIndices -> Points(space)] : \A i \in NewIndices : f[i] \in S(i, f)}

Plans ==
  CASE kind \in {"scan", "grid"} -> {[i \in Planned |-> GridPoint(space, i)]}
    [] kind = "random" -> {[i \in Planned |-> draws[i]]}
    [] OTHER -> {[i \in Remembered \cup NewIndices |-> IF i \in NewIndices THEN f[i] ELSE out[i].pt] : f \in NewPoints}

\* A child completed without its measurement is a failed one.
Status(i) ==
  IF kid[i] = None THEN "planned"
  ELSE IF kid[i].state = "completed" /\ ~kid[i].measured THEN "failed" ELSE kid[i].state

\* Children and their results are read for the planned indices.
Observe ==
  /\ task = "active" /\ ctl = IdleCtl
  /\ \E plan \in Plans :
       ctl' = [pc |-> "decide", trials |-> [i \in DOMAIN plan |-> [pt |-> plan[i], status |-> Status(i)]]]
  /\ UNCHANGED <<definition, task, kid, out, placed, faults>>

With(status) == {i \in DOMAIN ctl.trials : ctl.trials[i].status = status}
Persisted == out' = [i \in Index |-> IF i \in DOMAIN ctl.trials THEN ctl.trials[i] ELSE None]

Decide ==
  /\ ctl.pc = "decide"
  /\ \/ /\ With("failed") # {} \/ Cardinality(With("completed")) = Total
        /\ Persisted
        /\ ctl' = [pc |-> "release", to |-> IF With("failed") # {} THEN "failed" ELSE "completed"]
     \/ /\ With("failed") = {} /\ Cardinality(With("completed")) # Total
        /\ ctl' = [pc |-> "create", trials |-> ctl.trials, room |-> Room(Cardinality(With("active"))), made |-> {}]
        /\ UNCHANGED out
  /\ UNCHANGED <<definition, task, kid, placed, faults>>

Missing == {i \in With("planned") : kid[i] = None}

CreateTrial ==
  LET i == Min(Missing) IN
  /\ ctl.pc = "create" /\ ctl.room > 0 /\ Missing # {}
  /\ kid' = [kid EXCEPT ![i] = [state |-> "active", pt |-> ctl.trials[i].pt, measured |-> FALSE]]
  /\ ctl' = [ctl EXCEPT !.room = @ - 1, !.made = @ \cup {i}]
  /\ UNCHANGED <<definition, task, out, placed, faults>>

\* A child that cannot be created fails a tuning task; a scan only fails its tick.
CreateFails ==
  /\ ctl.pc = "create" /\ ctl.room > 0 /\ Missing # {} /\ Fault
  /\ IF kind = "scan" THEN ctl' = IdleCtl /\ UNCHANGED out
     ELSE Persisted /\ ctl' = [pc |-> "release", to |-> "failed"]
  /\ UNCHANGED <<definition, task, kid, placed>>

Place ==
  /\ ctl.pc = "create" /\ (ctl.room = 0 \/ Missing = {})
  /\ placed' = With("active") \cup ctl.made
  /\ ctl' = [ctl EXCEPT !.pc = "publish"]
  /\ UNCHANGED <<definition, task, kid, out, faults>>

PersistOutput ==
  /\ ctl.pc = "publish" /\ Persisted /\ ctl' = IdleCtl
  /\ UNCHANGED <<definition, task, kid, placed, faults>>

\* finish_controller: placements are released, then the task ends.
Release ==
  /\ ctl.pc = "release" /\ placed' = {} /\ ctl' = [ctl EXCEPT !.pc = "finish"]
  /\ UNCHANGED <<definition, task, kid, out, faults>>

Finish ==
  /\ ctl.pc = "finish" /\ task' = ctl.to /\ ctl' = IdleCtl
  /\ UNCHANGED <<definition, kid, out, placed, faults>>

TickFails ==
  /\ ctl # IdleCtl /\ Fault /\ ctl' = IdleCtl
  /\ UNCHANGED <<definition, task, kid, out, placed>>

-----------------------------------------------------------------------------
(* Children                                                                *)

Ended(child, state, measured) == [child EXCEPT !.state = state, !.measured = measured]

ChildCompletes(i) ==
  /\ i \in placed /\ kid[i].state = "active"
  /\ \/ kid' = [kid EXCEPT ![i] = Ended(@, "completed", TRUE)] /\ UNCHANGED faults
     \/ kid' = [kid EXCEPT ![i] = Ended(@, "completed", FALSE)] /\ Fault
  /\ UNCHANGED <<definition, task, out, placed, ctl>>

ChildFails(i) ==
  /\ i \in placed /\ kid[i].state = "active" /\ Fault
  /\ kid' = [kid EXCEPT ![i] = Ended(@, "failed", FALSE)]
  /\ UNCHANGED <<definition, task, out, placed, ctl>>

-----------------------------------------------------------------------------

Init ==
  /\ kind \in Kinds /\ space \in Spaces
  /\ draws \in IF kind \in {"random", "egobox"} THEN [0 .. MaxTrials - 1 -> Points(space)] ELSE {<<>>}
  /\ task = "active" /\ kid = [i \in Index |-> None] /\ out = [i \in Index |-> None]
  /\ placed = {} /\ ctl = IdleCtl /\ faults = 0

TickStep == Observe \/ Decide \/ CreateTrial \/ Place \/ PersistOutput \/ Release \/ Finish
Done == task # "active" /\ UNCHANGED vars

Next == TickStep \/ TickFails \/ CreateFails \/ Done \/ \E i \in Index : ChildCompletes(i) \/ ChildFails(i)

Spec == Init /\ [][Next]_vars

-----------------------------------------------------------------------------
(* Properties                                                              *)

\* Children, their points and the placements stay within the planned trials.
TypeOK ==
  /\ kind \in Kinds /\ space \in Spaces /\ task \in {"active", "completed", "failed"}
  /\ \A i \in Index : kid[i] # None => /\ kid[i].state \in {"active", "completed", "failed"} /\ i < Total
                                       /\ kid[i].pt \in Points(space)
  /\ \A i \in Index : out[i] # None => out[i].status \in {"planned", "active", "completed", "failed"}
  /\ placed \subseteq Existing

\* The preflight's count of a space is the number of its points, and the indices of a
\* grid enumerate each point exactly once.
GridExact ==
  /\ \A k \in 1 .. Len(space) : DomainLen(space[k]) = Len(DomainValues(space[k]))
  /\ kind \in {"scan", "grid"} => {GridPoint(space, i) : i \in Planned} = Points(space)
                                  /\ Cardinality(Points(space)) = Total

\* A tick of model-based search that ends between creating a child and storing its output
\* forgets the child: later ticks read the children of their output alone.
Forgotten ==
  IF kind # "egobox" THEN {}
  ELSE Existing \ (Remembered \cup IF ctl.pc \in {"decide", "create", "publish"} THEN DOMAIN ctl.trials ELSE {})

\* No more children are under way than the task allows, also after ticks that ended between
\* creating a child and recording it, apart from those that model-based search forgot.
Bounded == Cardinality({i \in Existing \ Forgotten : kid[i].state = "active"}) <= Concurrent

\* A completed task has a measured child for every trial.
CompletedWhole ==
  task = "completed" => \A i \in Planned : kid[i] # None /\ kid[i].state = "completed" /\ kid[i].measured

\* Once the initial design is done, a suggestion repeats an earlier trial only when every
\* point of the space has been tried; a forgotten child's point may be suggested again.
SuggestionsNew ==
  kind = "egobox" => \A i \in Existing : i >= Initial + Concurrent + Cardinality(Forgotten) =>
    \/ \A j \in Existing \ Forgotten : j < i => kid[j].pt # kid[i].pt
    \/ {kid[j].pt : j \in Existing} = Points(space)
=============================================================================
