------------------------------ MODULE RunRemoval ------------------------------
(***************************************************************************)
(* Removing a run and its children: the dashboard submits a background     *)
(* operation (server/run_removals.rs) and polls it, the command line calls *)
(* the same PgStore::remove_run directly.  remove_run takes the task       *)
(* control lock, clears the assignments of the tree, waits until no live   *)
(* node is recorded as working on it, and deletes it.  Meanwhile operators *)
(* assign workers without that lock, nodes build and start the role they   *)
(* last read, leases lapse, and the server may be restarted.               *)
(***************************************************************************)
EXTENDS Naturals, FiniteSets

CONSTANTS Nodes, Jobs,  \* removal attempts, in any order
          Cli,            \* those of them made by the command line
          MaxAssigns,     \* bound: operator assignments
          MaxFaults,      \* bound: lapsed leases, panics, restarts, deadlines
          None

RemovalAssumption == /\ Cli \subseteq Jobs /\ MaxAssigns \in Nat /\ MaxFaults \in Nat
                     /\ None \notin Jobs \cup {"running"} /\ "control" \notin Jobs

VARIABLES runs,     \* rows of the tree that exist: "root", "child"
          pool, desired, recorded, lease,    \* the nodes table
          proc,     \* what each node's process does: [at, run]
          lock,     \* holder of the task control lock
          job,      \* progress of each removal
          entries,  \* the operations the server remembers
          held,     \* nodes that were working on the tree when it was cleared
          plan,     \* the run task control is about to place its workers on
          assigns, faults

vars == <<runs, pool, desired, recorded, lease, proc, lock, job, entries, held, plan,
          assigns, faults>>
nodeVars == <<pool, desired, recorded, lease, proc, held, assigns>>
jobVars == <<lock, job, entries, plan>>

TreeRuns == {"root", "child"}
Ended == {"idle", "done"}
Idle == [at |-> "idle", run |-> None]

Init ==
    /\ runs = TreeRuns
    /\ pool = [n \in Nodes |-> None] /\ desired = pool /\ recorded = pool
    /\ lease = [n \in Nodes |-> TRUE]
    /\ proc = [n \in Nodes |-> Idle]
    /\ lock = None /\ plan = None
    /\ job = [j \in Jobs |-> "idle"]
    /\ entries = [j \in Jobs |-> None]
    /\ held = {}
    /\ assigns = 0 /\ faults = 0

Fault == faults < MaxFaults /\ faults' = faults + 1

-----------------------------------------------------------------------------
(* The operation: lock, clear, drain, delete. *)

\* RunRemovals::start returns the operation that is already running for the run.
AlreadyRunning == \E j \in Jobs : entries[j] = "running"

\* Otherwise it remembers a new one and spawns its task, which no request waits for.
NewOperation(j) ==
    /\ job' = [job EXCEPT ![j] = "lock"]
    /\ entries' = [entries EXCEPT ![j] = "running"]

Request(j) ==
    /\ j \notin Cli /\ job[j] = "idle" /\ entries[j] = None
    /\ "root" \in runs                   \* the handler looks the run up first
    /\ ~AlreadyRunning
    /\ NewOperation(j)
    /\ UNCHANGED <<runs, nodeVars, lock, plan, faults>>

CliRequest(j) ==
    /\ j \in Cli /\ job[j] = "idle" /\ "root" \in runs
    /\ job' = [job EXCEPT ![j] = "lock"]
    /\ UNCHANGED <<runs, nodeVars, lock, entries, plan, faults>>

Lock(j) ==
    /\ job[j] = "lock" /\ lock = None
    /\ lock' = j
    /\ job' = [job EXCEPT ![j] = "clear"]
    /\ UNCHANGED <<runs, nodeVars, entries, plan, faults>>

\* clear_desired_assignments_for_run: the tree's assignments and its pool.
Clear(j) ==
    /\ job[j] = "clear"
    /\ LET mine == {n \in Nodes : desired[n] \in TreeRuns \/ pool[n] = "root"}
       IN  /\ desired' = [n \in Nodes |-> IF n \in mine THEN None ELSE desired[n]]
           /\ pool' = [n \in Nodes |-> IF n \in mine THEN None ELSE pool[n]]
    /\ held' = {n \in Nodes : proc[n].at = "running"}
    /\ job' = [job EXCEPT ![j] = "drain"]
    /\ UNCHANGED <<runs, recorded, lease, proc, lock, entries, plan, assigns, faults>>

\* Mutant: only workers of the run itself are waited for.
RootBusy == \E n \in Nodes : recorded[n] = "root" /\ lease[n]
TreeBusy == \E n \in Nodes : recorded[n] \in TreeRuns /\ lease[n]

Drained(j) ==
    /\ job[j] = "drain" /\ ~TreeBusy
    /\ job' = [job EXCEPT ![j] = "delete"]
    /\ UNCHANGED <<runs, nodeVars, lock, entries, plan, faults>>

\* The lock goes with its transaction; the outcome is recorded if the entry is still known.
Finish(j, outcome) ==
    /\ lock' = IF lock = j THEN None ELSE lock
    /\ job' = [job EXCEPT ![j] = "done"]
    /\ entries' = [entries EXCEPT ![j] = IF @ = "running" THEN outcome ELSE @]

\* queries::remove_run: assignments to the tree and the tree, in one transaction; no row
\* deleted is an error.
Gone(f) == [n \in Nodes |-> IF f[n] \in TreeRuns THEN None ELSE f[n]]
DeleteRows == runs' = {}
Delete(j) ==
    /\ job[j] = "delete"
    /\ DeleteRows
    /\ pool' = Gone(pool) /\ desired' = Gone(desired) /\ recorded' = Gone(recorded)
    /\ Finish(j, IF "root" \in runs THEN "completed" ELSE "failed")
    /\ UNCHANGED <<lease, proc, held, plan, assigns, faults>>

\* One deadline, 60 s, for both waits: the run is retained.
Deadline(j) ==
    /\ job[j] \in {"lock", "drain"}
    /\ Finish(j, "failed")
    /\ UNCHANGED <<runs, nodeVars, plan, faults>>

\* A database error, or a panic observed as a failure.
Fails(j) ==
    /\ job[j] \notin Ended
    /\ Fault
    /\ Finish(j, "failed")
    /\ UNCHANGED <<runs, nodeVars, plan>>

\* The server restarts: its operations are forgotten and their tasks die.
ServerRestart ==
    /\ Fault
    /\ LET dead == {j \in Jobs \ Cli : job[j] \notin Ended}
       IN  /\ job' = [j \in Jobs |-> IF j \in dead THEN "done" ELSE job[j]]
           /\ lock' = IF lock \in dead \cup {"control"} THEN None ELSE lock
    /\ entries' = [j \in Jobs |-> None]
    /\ plan' = None
    /\ UNCHANGED <<runs, nodeVars>>

-----------------------------------------------------------------------------
(* Task control, the operator and the nodes. *)

\* A tick of task control reads the tree and places the pool's workers, under the lock.
ControlTick ==
    /\ lock = None /\ "root" \in runs
    /\ lock' = "control" /\ plan' = "child"
    /\ UNCHANGED <<runs, nodeVars, job, entries, faults>>

ControlPlace ==
    /\ lock = "control"
    /\ lock' = None /\ plan' = None
    /\ desired' = [n \in Nodes |-> IF pool[n] = "root" /\ lease[n] /\ plan \in runs
                                   THEN plan ELSE desired[n]]
    /\ UNCHANGED <<runs, pool, recorded, lease, proc, held, job, entries, assigns, faults>>

\* An operator assigns a node to the pool: no lock.
Assign(n) ==
    /\ assigns < MaxAssigns /\ assigns' = assigns + 1
    /\ "root" \in runs /\ lease[n]
    /\ pool' = [pool EXCEPT ![n] = "root"]
    /\ desired' = [desired EXCEPT ![n] = "root"]
    /\ UNCHANGED <<runs, recorded, lease, proc, held, jobVars, faults>>

\* reconcile: the target read now is built, and recorded when the role starts.
Build(n) ==
    /\ proc[n].at = "idle" /\ desired[n] # None
    /\ proc' = [proc EXCEPT ![n] = [at |-> "building", run |-> desired[n]]]
    /\ UNCHANGED <<runs, pool, desired, recorded, lease, held, jobVars, assigns, faults>>

\* set_current_assignment fails for a run that is gone, or a node without a lease.
Start(n) ==
    /\ proc[n].at = "building"
    /\ LET ok == proc[n].run \in runs /\ lease[n]
       IN  /\ proc' = [proc EXCEPT ![n] = IF ok THEN [@ EXCEPT !.at = "running"] ELSE Idle]
           /\ recorded' = [recorded EXCEPT ![n] = IF ok THEN proc[n].run ELSE @]
    /\ UNCHANGED <<runs, pool, desired, lease, held, jobVars, assigns, faults>>

StopRole(n) ==
    /\ proc[n].at = "running" /\ desired[n] # proc[n].run
    /\ proc' = [proc EXCEPT ![n] = Idle]
    /\ recorded' = [recorded EXCEPT ![n] = None]
    /\ held' = held \ {n}
    /\ UNCHANGED <<runs, pool, desired, lease, jobVars, assigns, faults>>

\* A node is partitioned: its lease lapses, its process has not noticed yet.
LeaseLapses(n) ==
    /\ lease[n] /\ Fault
    /\ lease' = [lease EXCEPT ![n] = FALSE]
    /\ UNCHANGED <<runs, pool, desired, recorded, proc, held, jobVars, assigns>>

Next ==
    \/ \E j \in Jobs : \/ Request(j) \/ CliRequest(j) \/ Lock(j) \/ Clear(j)
                       \/ Drained(j) \/ Delete(j) \/ Deadline(j) \/ Fails(j)
    \/ ServerRestart \/ ControlTick \/ ControlPlace
    \/ \E n \in Nodes : Assign(n) \/ Build(n) \/ Start(n) \/ StopRole(n) \/ LeaseLapses(n)

Spec == Init /\ [][Next]_vars
-----------------------------------------------------------------------------
\* Type correctness, and the tree is there whole or not at all.
TypeOK ==
    /\ runs \in {TreeRuns, {}}
    /\ \A n \in Nodes : /\ desired[n] \in runs \cup {None} /\ recorded[n] \in runs \cup {None}
                        /\ pool[n] \in {"root", None}
    /\ lock \in Jobs \cup {"control", None}
    /\ job \in [Jobs -> {"idle", "lock", "clear", "drain", "delete", "done"}]

\* The dashboard never runs two removals of a run at once, however often it is asked.
OneOperation == Cardinality({j \in Jobs \ Cli : job[j] \notin Ended}) <= 1

\* No worker that was running a role of the tree when removal began, and whose node is
\* still alive, is running it when the tree is deleted.
HeldDrained == runs # {} /\ runs' = {} => \A n \in held : ~lease[n]

\* Removal as a whole: one operation at a time, and a tree deleted only when its workers left it.
RemovalDrains == [](TypeOK /\ OneOperation) /\ [][HeldDrained]_vars
=============================================================================
