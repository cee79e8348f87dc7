-------------------------- MODULE OperationsProofs --------------------------
(***************************************************************************)
(* What operators do to a system and what they see of it, for any nodes,   *)
(* requests, commands, tasks and bounds: run removal waits for the workers *)
(* it drains, a deploy cleans up and stops Postgres last, a restore is     *)
(* exact, panels end with the final result of their own task, and a scan   *)
(* or a tuning never watches more children than it may nor completes       *)
(* without them.                                                           *)
(* Each part is an instance whose constants and variables have its own     *)
(* names; a theorem is about one of them.                                  *)
(***************************************************************************)
EXTENDS Integers, Sequences, FiniteSets, FiniteSetTheorems, WellFoundedInduction, TLAPS

CONSTANTS
  Nodes, Jobs, Cli, MaxAssigns, MaxFaults, None, EnsureStarted, SamplerDrain, NodeStop,
  KillFails, Deploys, Commands, StopFails, Faults, Tasks, Target, Kind, Budget,
  Readers, Viewable, Limit, MaxIds, MaxEras, Workers, Root, Children, Selections, MaxOps,
  Kinds, Spaces, MaxInt, MaxTrials, Concurrent, Parallel, Initial

VARIABLES
  runs, pool, desired, recorded, lease, proc, lock, job, entries, held, plan, assigns, faults,
  pc, db, child, signal, elapsed, nodeDeadline, timedOut, node, stopping, asked, deploys, dir,
  up, orphan, exists, schema, rows, backup, cmd, todo, ok, viewed, state, sampler, era, nextId,
  live, stage, checkpoint, measured, closing, req, client, selected, snap, ops, kind, space,
  draws, task, kid, out, placed, ctl

Removal == INSTANCE RunRemoval
Deployment == INSTANCE Deploy
Database == INSTANCE LocalDb
Panels == INSTANCE TaskPanels
Plans == INSTANCE AssignmentPlan
Trial == INSTANCE Trials

\* An instance has its own name for each operator of FiniteSets.
LEMMA RemovalCardinality == ASSUME NEW S PROVE Removal!Cardinality(S) = Cardinality(S)
  BY DEF Removal!Cardinality, Cardinality

LEMMA PanelsCardinality == ASSUME NEW S PROVE Panels!Cardinality(S) = Cardinality(S)
  BY DEF Panels!Cardinality, Cardinality

LEMMA PanelsFinite == ASSUME NEW S PROVE Panels!IsFiniteSet(S) <=> IsFiniteSet(S)
  BY DEF Panels!IsFiniteSet, IsFiniteSet

LEMMA PlansCardinality == ASSUME NEW S PROVE Plans!Cardinality(S) = Cardinality(S)
  BY DEF Plans!Cardinality, Cardinality

LEMMA PlansFinite == ASSUME NEW S PROVE Plans!IsFiniteSet(S) <=> IsFiniteSet(S)
  BY DEF Plans!IsFiniteSet, IsFiniteSet

-----------------------------------------------------------------------------
(* Run removal.                                                            *)

\* What the variables hold between statements.
RemovalTypes ==
  /\ Removal!TypeOK
  /\ desired \in [Nodes -> runs \cup {None}] /\ recorded \in [Nodes -> runs \cup {None}]
  /\ pool \in [Nodes -> {"root", None}] /\ lease \in [Nodes -> BOOLEAN]
  /\ proc \in [Nodes -> [at : {"idle", "building", "running"}, run : Removal!TreeRuns \cup {None}]]
  /\ \A n \in Nodes : proc[n].at # "idle" => proc[n].run \in Removal!TreeRuns
  /\ entries \in [Jobs -> {None, "running", "completed", "failed"}]
  /\ held \subseteq Nodes

\* A running role is on record, and the workers that are waited for are running one.
RoleInv ==
  /\ \A n \in Nodes : runs # {} /\ proc[n].at = "running" => recorded[n] = proc[n].run
  /\ \A n \in held : proc[n].at = "running"

\* Who clears, drains or deletes has the lock; at the deletion the drained workers are gone.
LockInv ==
  /\ \A j \in Jobs : job[j] \in {"clear", "drain", "delete"} => lock = j
  /\ \A j \in Jobs : job[j] = "delete" /\ runs # {} => \A n \in held : ~lease[n]

\* A dashboard removal under way is the one entry that says so.
EntryInv ==
  /\ \A j \in Jobs \ Cli : job[j] \notin Removal!Ended => entries[j] = "running"
  /\ \A i, j \in Jobs : entries[i] = "running" /\ entries[j] = "running" => i = j

RemovalInv == RemovalTypes /\ RoleInv /\ LockInv /\ EntryInv

LEMMA RemovalInit ==
  ASSUME Removal!RemovalAssumption, Removal!Init
  PROVE  RemovalInv
BY DEF Removal!Init, RemovalInv, RemovalTypes, RoleInv, LockInv, EntryInv, Removal!TypeOK,
     Removal!Idle, Removal!RemovalAssumption, Removal!Ended

LEMMA RemovalStep ==
  ASSUME Removal!RemovalAssumption, RemovalInv, [Removal!Next]_Removal!vars
  PROVE  RemovalInv'
<1> USE DEF RemovalInv, Removal!RemovalAssumption
<1>a. Removal!TypeOK
  BY DEF RemovalTypes
<1>1. ASSUME NEW j \in Jobs, Removal!Request(j) PROVE RemovalInv'
  <2> USE <1>1 DEF Removal!Request, Removal!NewOperation, Removal!AlreadyRunning, Removal!nodeVars
  <2>1. RemovalTypes'
    BY DEF RemovalTypes, Removal!TypeOK
  <2>2. RoleInv'
    BY DEF RoleInv
  <2>3. LockInv'
    BY <1>a DEF LockInv, Removal!TypeOK
  <2>4. EntryInv'
    BY <1>a DEF EntryInv, RemovalTypes, Removal!TypeOK, Removal!Ended
  <2> QED BY <2>1, <2>2, <2>3, <2>4
<1>2. ASSUME NEW j \in Jobs, Removal!CliRequest(j) PROVE RemovalInv'
  <2> USE <1>2 DEF Removal!CliRequest, Removal!nodeVars
  <2>1. RemovalTypes'
    BY DEF RemovalTypes, Removal!TypeOK
  <2>2. RoleInv'
    BY DEF RoleInv
  <2>3. LockInv'
    BY <1>a DEF LockInv, Removal!TypeOK
  <2>4. EntryInv'
    BY <1>a DEF EntryInv, RemovalTypes, Removal!TypeOK, Removal!Ended
  <2> QED BY <2>1, <2>2, <2>3, <2>4
<1>3. ASSUME NEW j \in Jobs, Removal!Lock(j) PROVE RemovalInv'
  <2> USE <1>3 DEF Removal!Lock, Removal!nodeVars
  <2>1. RemovalTypes'
    BY DEF RemovalTypes, Removal!TypeOK
  <2>2. RoleInv'
    BY DEF RoleInv
  <2>3. LockInv'
    BY <1>a DEF LockInv, Removal!TypeOK
  <2>4. EntryInv'
    BY <1>a DEF EntryInv, RemovalTypes, Removal!TypeOK, Removal!Ended
  <2> QED BY <2>1, <2>2, <2>3, <2>4
<1>4. ASSUME NEW j \in Jobs, Removal!Clear(j) PROVE RemovalInv'
  <2> USE <1>4 DEF Removal!Clear
  <2>1. RemovalTypes'
    BY DEF RemovalTypes, Removal!TypeOK
  <2>2. RoleInv'
    BY DEF RoleInv
  <2>3. LockInv'
    BY <1>a DEF LockInv, Removal!TypeOK
  <2>4. EntryInv'
    BY <1>a DEF EntryInv, RemovalTypes, Removal!TypeOK, Removal!Ended
  <2> QED BY <2>1, <2>2, <2>3, <2>4
<1>5. ASSUME NEW j \in Jobs, Removal!Drained(j) PROVE RemovalInv'
  <2> USE <1>5 DEF Removal!Drained, Removal!nodeVars
  <2>1. RemovalTypes'
    BY DEF RemovalTypes, Removal!TypeOK
  <2>2. RoleInv'
    BY DEF RoleInv
  <2>3. ASSUME runs # {}, NEW n \in held PROVE ~lease[n]
    BY <2>3, <1>a DEF RoleInv, RemovalTypes, Removal!TreeBusy
  <2>4. LockInv'
    BY <1>a, <2>3 DEF LockInv, Removal!TypeOK
  <2>5. EntryInv'
    BY <1>a DEF EntryInv, RemovalTypes, Removal!TypeOK, Removal!Ended
  <2> QED BY <2>1, <2>2, <2>4, <2>5
<1>6. ASSUME NEW j \in Jobs, Removal!Delete(j) PROVE RemovalInv'
  <2> USE <1>6 DEF Removal!Delete, Removal!DeleteRows, Removal!Finish, Removal!Gone
  <2>1. RemovalTypes'
    BY DEF RemovalTypes, Removal!TypeOK, Removal!TreeRuns
  <2>2. RoleInv'
    BY DEF RoleInv
  <2>3. LockInv'
    BY <1>a DEF LockInv, Removal!TypeOK
  <2>4. EntryInv'
    BY <1>a DEF EntryInv, RemovalTypes, Removal!TypeOK, Removal!Ended
  <2> QED BY <2>1, <2>2, <2>3, <2>4
<1>7. ASSUME NEW j \in Jobs, Removal!Deadline(j) \/ Removal!Fails(j) PROVE RemovalInv'
  <2> USE <1>7 DEF Removal!Deadline, Removal!Fails, Removal!Finish, Removal!nodeVars
  <2>1. RemovalTypes'
    BY DEF RemovalTypes, Removal!TypeOK
  <2>2. RoleInv'
    BY DEF RoleInv
  <2>3. LockInv'
    BY <1>a DEF LockInv, Removal!TypeOK
  <2>4. /\ job' = [job EXCEPT ![j] = "done"]
        /\ entries' = [entries EXCEPT ![j] = IF @ = "running" THEN "failed" ELSE @]
    OBVIOUS
  <2>5. EntryInv'
    BY <1>a, <2>4 DEF EntryInv, RemovalTypes, Removal!TypeOK, Removal!Ended
  <2> QED BY <2>1, <2>2, <2>3, <2>5
<1>8. CASE Removal!ServerRestart
  <2> USE <1>8 DEF Removal!ServerRestart, Removal!nodeVars
  <2>1. RemovalTypes'
    BY DEF RemovalTypes, Removal!TypeOK
  <2>2. RoleInv'
    BY DEF RoleInv
  <2>3. LockInv'
    BY <1>a DEF LockInv, Removal!TypeOK, Removal!Ended
  <2>4. EntryInv'
    BY <1>a DEF EntryInv, RemovalTypes, Removal!TypeOK, Removal!Ended
  <2> QED BY <2>1, <2>2, <2>3, <2>4
<1>9. CASE Removal!ControlTick
  <2> USE <1>9 DEF Removal!ControlTick, Removal!nodeVars
  <2>1. RemovalTypes'
    BY DEF RemovalTypes, Removal!TypeOK
  <2> QED BY <2>1 DEF RoleInv, LockInv, EntryInv
<1>10. CASE Removal!ControlPlace
  <2> USE <1>10 DEF Removal!ControlPlace
  <2>1. RemovalTypes'
    BY DEF RemovalTypes, Removal!TypeOK
  <2> QED BY <2>1 DEF RoleInv, LockInv, EntryInv
<1>11. ASSUME NEW n \in Nodes, Removal!Assign(n) PROVE RemovalInv'
  <2> USE <1>11 DEF Removal!Assign, Removal!jobVars
  <2>1. RemovalTypes'
    BY DEF RemovalTypes, Removal!TypeOK
  <2> QED BY <2>1 DEF RoleInv, LockInv, EntryInv
<1>12. ASSUME NEW n \in Nodes, Removal!Build(n) PROVE RemovalInv'
  <2> USE <1>12 DEF Removal!Build, Removal!jobVars
  <2>1. RemovalTypes'
    BY DEF RemovalTypes, Removal!TypeOK
  <2>2. RoleInv'
    BY DEF RoleInv, RemovalTypes
  <2> QED BY <2>1, <2>2 DEF LockInv, EntryInv
<1>13. ASSUME NEW n \in Nodes, Removal!Start(n) PROVE RemovalInv'
  <2> USE <1>13 DEF Removal!Start, Removal!jobVars, Removal!Idle
  <2>1. RemovalTypes'
    BY DEF RemovalTypes, Removal!TypeOK
  <2>2. RoleInv'
    BY DEF RoleInv, RemovalTypes
  <2> QED BY <2>1, <2>2 DEF LockInv, EntryInv
<1>14. ASSUME NEW n \in Nodes, Removal!StopRole(n) PROVE RemovalInv'
  <2> USE <1>14 DEF Removal!StopRole, Removal!jobVars, Removal!Idle
  <2>1. RemovalTypes'
    BY DEF RemovalTypes, Removal!TypeOK
  <2>2. RoleInv'
    BY DEF RoleInv, RemovalTypes
  <2> QED BY <2>1, <2>2 DEF LockInv, EntryInv
<1>15. ASSUME NEW n \in Nodes, Removal!LeaseLapses(n) PROVE RemovalInv'
  <2> USE <1>15 DEF Removal!LeaseLapses, Removal!jobVars
  <2>1. RemovalTypes'
    BY DEF RemovalTypes, Removal!TypeOK
  <2>2. LockInv'
    BY DEF LockInv, RemovalTypes
  <2> QED BY <2>1, <2>2 DEF RoleInv, EntryInv
<1>16. CASE UNCHANGED Removal!vars
  BY <1>16 DEF Removal!vars, RemovalTypes, Removal!TypeOK, RoleInv, LockInv, EntryInv
<1> QED BY <1>1, <1>2, <1>3, <1>4, <1>5, <1>6, <1>7, <1>8, <1>9, <1>10, <1>11, <1>12, <1>13,
           <1>14, <1>15, <1>16 DEF Removal!Next

\* At most one entry is running, so at most one operation is.
LEMMA SingleOperation ==
  ASSUME EntryInv
  PROVE  Removal!OneOperation
<1> DEFINE S == {j \in Jobs \ Cli : job[j] \notin Removal!Ended}
<1>1. CASE S = {}
  BY <1>1, FS_EmptySet, RemovalCardinality DEF Removal!OneOperation
<1>2. ASSUME NEW j \in S PROVE Removal!OneOperation
  <2>1. S = {j}
    BY DEF EntryInv
  <2> QED BY <2>1, FS_Singleton, RemovalCardinality DEF Removal!OneOperation
<1> QED BY <1>1, <1>2

\* Only Delete removes the tree, and it does so when every held worker has left or lost its lease.
LEMMA HeldStep ==
  ASSUME Removal!RemovalAssumption, RemovalInv, [Removal!Next]_Removal!vars
  PROVE  Removal!HeldDrained
<1>1. SUFFICES ASSUME runs # {}, runs' = {} PROVE \A n \in held : ~lease[n]
  BY DEF Removal!HeldDrained
<1>2. PICK j \in Jobs : Removal!Delete(j)
  BY <1>1 DEF Removal!Next, Removal!vars, Removal!nodeVars, Removal!Request, Removal!CliRequest,
       Removal!Lock, Removal!Clear, Removal!Drained, Removal!Deadline, Removal!Fails,
     Removal!ServerRestart, Removal!ControlTick, Removal!ControlPlace, Removal!Assign,
     Removal!Build, Removal!Start, Removal!StopRole, Removal!LeaseLapses
<1> QED BY <1>1, <1>2 DEF Removal!Delete, RemovalInv, LockInv

\* The invariant the rest follows from: who owns the lock, the entries and the roles of the tree
\* (run_removals.rs).
THEOREM RemovalInvariance == ASSUME Removal!RemovalAssumption PROVE Removal!Spec => []RemovalInv
<1>1. RemovalInv /\ [Removal!Next]_Removal!vars => RemovalInv'
  BY RemovalStep
<1> QED BY RemovalInit, <1>1, PTL DEF Removal!Spec

\* Run removal (run_removals.rs): however requests, command line removals, assignments, role starts,
\* lapsing leases and server restarts interleave, the dashboard runs one removal of a run at a time,
\* and a tree is deleted only when each worker that ran one of its roles has left it or lost its lease.
THEOREM RemovedWhenDrained == ASSUME Removal!RemovalAssumption PROVE Removal!Spec => Removal!RemovalDrains
<1>1. RemovalInv => Removal!TypeOK /\ Removal!OneOperation
  BY SingleOperation DEF RemovalInv, RemovalTypes
<1>2. RemovalInv /\ [Removal!Next]_Removal!vars => [Removal!HeldDrained]_Removal!vars
  BY HeldStep
<1> QED BY <1>1, <1>2, RemovalInvariance, PTL DEF Removal!Spec, Removal!RemovalDrains

-----------------------------------------------------------------------------
(* Deployment.                                                             *)

\* All that is assumed of the drain times, the flags and the number of deploys.
DeployAssumption == Deployment!DrainAssumption /\ Deployment!DeploysAssumption /\ Deployment!FlagAssumption

\* Outside supervision, and once cleanup has passed them, backend and nginx have exited.
ChildrenInv ==
  /\ pc \in {"idle", "database", "backend", "done"} => \A c \in {"backend", "nginx"} : child[c] \in Deployment!Exited
  /\ pc = "stopBackend" => child["nginx"] \in Deployment!Exited
  /\ pc = "stopDatabase" => \A c \in {"backend", "nginx"} : child[c] \in Deployment!Exited

\* A worker that the drain is to judge is stopping and has built what it was building.
AskedInv == \A n \in asked : stopping[n] /\ node[n] \notin {"off", "building"}

\* The node deadline starts before the sampler deadline only when nobody is left to save, and
\* the cleanup goes on, with no deadline passed, only then.
DrainInv ==
  /\ pc \in {"database", "backend", "backendHealth", "nginx", "nginxHealth", "resume", "supervise", "suspend"}
       => nodeDeadline = Deployment!Unset
  /\ pc = "drain" /\ nodeDeadline < SamplerDrain => Deployment!Unsaved = {}
  /\ pc \in {"stopNginx", "stopBackend", "stopDatabase"} /\ ~timedOut => Deployment!Unsaved = {}

LEMMA DeployTypesStep ==
  ASSUME DeployAssumption, Deployment!TypeOK, [Deployment!Next]_Deployment!vars
  PROVE  Deployment!TypeOK'
<1> USE DEF DeployAssumption, Deployment!DrainAssumption, Deployment!DeploysAssumption,
     Deployment!FlagAssumption, Deployment!TypeOK, Deployment!Running, Deployment!Exited,
     Deployment!Unset, Deployment!deployVars, Deployment!drainVars, Deployment!nodeVars
<1>1. CASE Deployment!StartDatabase
  BY <1>1 DEF Deployment!StartDatabase
<1>2. CASE Deployment!StartBackend
  BY <1>2 DEF Deployment!StartBackend
<1>3. CASE Deployment!StartNginx
  BY <1>3 DEF Deployment!StartNginx
<1>4. CASE Deployment!WaitForHealth("backend", "backendHealth", "nginx")
  BY <1>4 DEF Deployment!WaitForHealth
<1>5. CASE Deployment!WaitForHealth("nginx", "nginxHealth", "resume")
  BY <1>5 DEF Deployment!WaitForHealth
<1>6. CASE Deployment!ResumeWorkers
  BY <1>6 DEF Deployment!ResumeWorkers
<1>7. CASE Deployment!Supervise
  BY <1>7 DEF Deployment!Supervise
<1>8. CASE Deployment!SuspendWorkers
  BY <1>8 DEF Deployment!SuspendWorkers, Deployment!Suspended, Deployment!Live
<1>9. CASE Deployment!Poll
  <2> USE <1>9 DEF Deployment!Poll
  <2>1. elapsed + NodeStop \in 0 .. Deployment!Unset
    OBVIOUS
  <2>2. nodeDeadline' \in 0 .. Deployment!Unset /\ pc' \in {"stopNginx", "drain"}
    BY <2>1
  <2>3. timedOut' \in BOOLEAN
    BY DEF Deployment!TimedOutAfter
  <2> QED BY <2>2, <2>3
<1>10. CASE Deployment!Tick
  BY <1>10 DEF Deployment!Tick, Deployment!Waiting
<1>11. CASE Deployment!DrainFails
  BY <1>11 DEF Deployment!DrainFails
<1>12. CASE Deployment!StopNginx
  BY <1>12 DEF Deployment!StopNginx, Deployment!StopChild, Deployment!Terminated
<1>13. CASE Deployment!StopBackend
  BY <1>13 DEF Deployment!StopBackend, Deployment!StopChild, Deployment!Terminated
<1>14. CASE Deployment!StopDatabase
  BY <1>14 DEF Deployment!StopDatabase
<1>15. CASE Deployment!CleanupFailedStart
  BY <1>15 DEF Deployment!CleanupFailedStart, Deployment!Terminated
<1>16. ASSUME NEW n \in Nodes, Deployment!Launch(n) PROVE Deployment!TypeOK'
  BY <1>16 DEF Deployment!Launch
<1>17. ASSUME NEW n \in Nodes, Deployment!BuildSampler(n) PROVE Deployment!TypeOK'
  BY <1>17 DEF Deployment!BuildSampler
<1>18. ASSUME NEW n \in Nodes, Deployment!SamplerStarted(n) PROVE Deployment!TypeOK'
  BY <1>18 DEF Deployment!SamplerStarted
<1>19. ASSUME NEW n \in Nodes, Deployment!BeginStop(n) PROVE Deployment!TypeOK'
  BY <1>19 DEF Deployment!BeginStop
<1>20. ASSUME NEW n \in Nodes, Deployment!EndSaving(n) PROVE Deployment!TypeOK'
  BY <1>20 DEF Deployment!EndSaving
<1>21. CASE Deployment!Begin
  <2> USE <1>21 DEF Deployment!Begin
  <2>1. child' \in [{"backend", "nginx"} -> Deployment!Running \cup Deployment!Exited]
    OBVIOUS
  <2>2. deploys' \in 0 .. Deploys /\ elapsed' \in 0 .. (SamplerDrain + NodeStop) /\ nodeDeadline' \in 0 .. Deployment!Unset
    OBVIOUS
  <2> QED BY <2>1, <2>2
<1>22. CASE Deployment!Return
  BY <1>22 DEF Deployment!Return
<1>23. CASE Deployment!Signal
  BY <1>23 DEF Deployment!Signal
<1>24. CASE Deployment!DashboardShutdown
  BY <1>24 DEF Deployment!DashboardShutdown, Deployment!Suspended
<1>25. CASE Deployment!BackendLeaves
  BY <1>25 DEF Deployment!BackendLeaves
<1>26. ASSUME NEW c \in {"backend", "nginx"}, Deployment!ChildDies(c) PROVE Deployment!TypeOK'
  BY <1>26 DEF Deployment!ChildDies
<1>27. CASE UNCHANGED Deployment!vars
  BY <1>27 DEF Deployment!vars
<1> QED BY <1>1, <1>2, <1>3, <1>4, <1>5, <1>6, <1>7, <1>8, <1>9, <1>10, <1>11, <1>12, <1>13,
     <1>14, <1>15, <1>16, <1>17, <1>18, <1>19, <1>20, <1>21, <1>22, <1>23, <1>24, <1>25, <1>26,
     <1>27 DEF Deployment!Next, Deployment!DeployStep, Deployment!NodeStep

LEMMA ChildrenStep ==
  ASSUME DeployAssumption, KillFails = FALSE, Deployment!TypeOK, ChildrenInv, [Deployment!Next]_Deployment!vars
  PROVE  ChildrenInv'
<1> USE DEF Deployment!TypeOK, ChildrenInv, Deployment!Running, Deployment!Exited,
     Deployment!deployVars, Deployment!drainVars, Deployment!nodeVars
<1>1. CASE Deployment!StartDatabase
  BY <1>1 DEF Deployment!StartDatabase
<1>2. CASE Deployment!StartBackend
  BY <1>2 DEF Deployment!StartBackend
<1>3. CASE Deployment!StartNginx
  BY <1>3 DEF Deployment!StartNginx
<1>4. CASE Deployment!WaitForHealth("backend", "backendHealth", "nginx")
  BY <1>4 DEF Deployment!WaitForHealth
<1>5. CASE Deployment!WaitForHealth("nginx", "nginxHealth", "resume")
  BY <1>5 DEF Deployment!WaitForHealth
<1>6. CASE Deployment!ResumeWorkers
  BY <1>6 DEF Deployment!ResumeWorkers
<1>7. CASE Deployment!Supervise
  BY <1>7 DEF Deployment!Supervise
<1>8. CASE Deployment!SuspendWorkers
  BY <1>8 DEF Deployment!SuspendWorkers, Deployment!Suspended, Deployment!Live
<1>9. CASE Deployment!Poll
  BY <1>9 DEF Deployment!Poll, Deployment!TimedOutAfter, Deployment!Live, Deployment!ActiveSamplers
<1>10. CASE Deployment!Tick
  BY <1>10 DEF Deployment!Tick, Deployment!Waiting
<1>11. CASE Deployment!DrainFails
  BY <1>11 DEF Deployment!DrainFails
<1>12. CASE Deployment!StopNginx
  BY <1>12 DEF Deployment!StopNginx, Deployment!StopChild, Deployment!Terminated
<1>13. CASE Deployment!StopBackend
  BY <1>13 DEF Deployment!StopBackend, Deployment!StopChild, Deployment!Terminated
<1>14. CASE Deployment!StopDatabase
  BY <1>14 DEF Deployment!StopDatabase
<1>15. CASE Deployment!CleanupFailedStart
  BY <1>15 DEF Deployment!CleanupFailedStart, Deployment!Terminated
<1>16. ASSUME NEW n \in Nodes, Deployment!Launch(n) PROVE ChildrenInv'
  BY <1>16 DEF Deployment!Launch
<1>17. ASSUME NEW n \in Nodes, Deployment!BuildSampler(n) PROVE ChildrenInv'
  BY <1>17 DEF Deployment!BuildSampler
<1>18. ASSUME NEW n \in Nodes, Deployment!SamplerStarted(n) PROVE ChildrenInv'
  BY <1>18 DEF Deployment!SamplerStarted
<1>19. ASSUME NEW n \in Nodes, Deployment!BeginStop(n) PROVE ChildrenInv'
  BY <1>19 DEF Deployment!BeginStop
<1>20. ASSUME NEW n \in Nodes, Deployment!EndSaving(n) PROVE ChildrenInv'
  BY <1>20 DEF Deployment!EndSaving
<1>21. CASE Deployment!Begin
  BY <1>21 DEF Deployment!Begin
<1>22. CASE Deployment!Return
  BY <1>22 DEF Deployment!Return
<1>23. CASE Deployment!Signal
  BY <1>23 DEF Deployment!Signal
<1>24. CASE Deployment!DashboardShutdown
  BY <1>24 DEF Deployment!DashboardShutdown, Deployment!Suspended
<1>25. CASE Deployment!BackendLeaves
  BY <1>25 DEF Deployment!BackendLeaves
<1>26. ASSUME NEW c \in {"backend", "nginx"}, Deployment!ChildDies(c) PROVE ChildrenInv'
  BY <1>26 DEF Deployment!ChildDies
<1>27. CASE UNCHANGED Deployment!vars
  BY <1>27 DEF Deployment!vars
<1> QED BY <1>1, <1>2, <1>3, <1>4, <1>5, <1>6, <1>7, <1>8, <1>9, <1>10, <1>11, <1>12, <1>13,
     <1>14, <1>15, <1>16, <1>17, <1>18, <1>19, <1>20, <1>21, <1>22, <1>23, <1>24, <1>25, <1>26,
     <1>27 DEF Deployment!Next, Deployment!DeployStep, Deployment!NodeStep

LEMMA AskedStep ==
  ASSUME DeployAssumption, Deployment!TypeOK, AskedInv, [Deployment!Next]_Deployment!vars
  PROVE  AskedInv'
<1> USE DEF Deployment!TypeOK, AskedInv, Deployment!deployVars, Deployment!drainVars,
     Deployment!nodeVars
<1>1. CASE Deployment!StartDatabase
  BY <1>1 DEF Deployment!StartDatabase
<1>2. CASE Deployment!StartBackend
  BY <1>2 DEF Deployment!StartBackend
<1>3. CASE Deployment!StartNginx
  BY <1>3 DEF Deployment!StartNginx
<1>4. CASE Deployment!WaitForHealth("backend", "backendHealth", "nginx")
  BY <1>4 DEF Deployment!WaitForHealth
<1>5. CASE Deployment!WaitForHealth("nginx", "nginxHealth", "resume")
  BY <1>5 DEF Deployment!WaitForHealth
<1>6. CASE Deployment!ResumeWorkers
  BY <1>6 DEF Deployment!ResumeWorkers
<1>7. CASE Deployment!Supervise
  BY <1>7 DEF Deployment!Supervise
<1>8. CASE Deployment!SuspendWorkers
  BY <1>8 DEF Deployment!SuspendWorkers, Deployment!Suspended, Deployment!Live, Deployment!Building
<1>9. CASE Deployment!Poll
  BY <1>9 DEF Deployment!Poll, Deployment!TimedOutAfter, Deployment!Live, Deployment!ActiveSamplers
<1>10. CASE Deployment!Tick
  BY <1>10 DEF Deployment!Tick, Deployment!Waiting
<1>11. CASE Deployment!DrainFails
  BY <1>11 DEF Deployment!DrainFails
<1>12. CASE Deployment!StopNginx
  BY <1>12 DEF Deployment!StopNginx, Deployment!StopChild, Deployment!Terminated
<1>13. CASE Deployment!StopBackend
  BY <1>13 DEF Deployment!StopBackend, Deployment!StopChild, Deployment!Terminated
<1>14. CASE Deployment!StopDatabase
  BY <1>14 DEF Deployment!StopDatabase
<1>15. CASE Deployment!CleanupFailedStart
  BY <1>15 DEF Deployment!CleanupFailedStart, Deployment!Terminated
<1>16. ASSUME NEW n \in Nodes, Deployment!Launch(n) PROVE AskedInv'
  BY <1>16 DEF Deployment!Launch
<1>17. ASSUME NEW n \in Nodes, Deployment!BuildSampler(n) PROVE AskedInv'
  BY <1>17 DEF Deployment!BuildSampler
<1>18. ASSUME NEW n \in Nodes, Deployment!SamplerStarted(n) PROVE AskedInv'
  BY <1>18 DEF Deployment!SamplerStarted, Deployment!Judged
<1>19. ASSUME NEW n \in Nodes, Deployment!BeginStop(n) PROVE AskedInv'
  BY <1>19 DEF Deployment!BeginStop
<1>20. ASSUME NEW n \in Nodes, Deployment!EndSaving(n) PROVE AskedInv'
  BY <1>20 DEF Deployment!EndSaving
<1>21. CASE Deployment!Begin
  BY <1>21 DEF Deployment!Begin
<1>22. CASE Deployment!Return
  BY <1>22 DEF Deployment!Return
<1>23. CASE Deployment!Signal
  BY <1>23 DEF Deployment!Signal
<1>24. CASE Deployment!DashboardShutdown
  BY <1>24 DEF Deployment!DashboardShutdown, Deployment!Suspended
<1>25. CASE Deployment!BackendLeaves
  BY <1>25 DEF Deployment!BackendLeaves
<1>26. ASSUME NEW c \in {"backend", "nginx"}, Deployment!ChildDies(c) PROVE AskedInv'
  BY <1>26 DEF Deployment!ChildDies
<1>27. CASE UNCHANGED Deployment!vars
  BY <1>27 DEF Deployment!vars
<1> QED BY <1>1, <1>2, <1>3, <1>4, <1>5, <1>6, <1>7, <1>8, <1>9, <1>10, <1>11, <1>12, <1>13,
     <1>14, <1>15, <1>16, <1>17, <1>18, <1>19, <1>20, <1>21, <1>22, <1>23, <1>24, <1>25, <1>26,
     <1>27 DEF Deployment!Next, Deployment!DeployStep, Deployment!NodeStep

LEMMA DrainStep ==
  ASSUME DeployAssumption, Deployment!TypeOK, AskedInv, DrainInv, [Deployment!Next]_Deployment!vars
  PROVE  DrainInv'
<1> USE DEF DeployAssumption, Deployment!DrainAssumption, Deployment!TypeOK, AskedInv, DrainInv,
     Deployment!Unsaved, Deployment!ActiveSamplers, Deployment!Unset, Deployment!deployVars,
     Deployment!drainVars, Deployment!nodeVars
<1>1. CASE Deployment!StartDatabase
  BY <1>1 DEF Deployment!StartDatabase
<1>2. CASE Deployment!StartBackend
  BY <1>2 DEF Deployment!StartBackend
<1>3. CASE Deployment!StartNginx
  BY <1>3 DEF Deployment!StartNginx
<1>4. CASE Deployment!WaitForHealth("backend", "backendHealth", "nginx")
  BY <1>4 DEF Deployment!WaitForHealth
<1>5. CASE Deployment!WaitForHealth("nginx", "nginxHealth", "resume")
  BY <1>5 DEF Deployment!WaitForHealth
<1>6. CASE Deployment!ResumeWorkers
  BY <1>6 DEF Deployment!ResumeWorkers
<1>7. CASE Deployment!Supervise
  BY <1>7 DEF Deployment!Supervise
<1>8. CASE Deployment!SuspendWorkers
  BY <1>8 DEF Deployment!SuspendWorkers, Deployment!Suspended, Deployment!Live, Deployment!Building
<1>9. CASE Deployment!Poll
  BY <1>9 DEF Deployment!Poll, Deployment!TimedOutAfter, Deployment!Live, Deployment!ActiveSamplers
<1>10. CASE Deployment!Tick
  BY <1>10 DEF Deployment!Tick, Deployment!Waiting
<1>11. CASE Deployment!DrainFails
  BY <1>11 DEF Deployment!DrainFails
<1>12. CASE Deployment!StopNginx
  BY <1>12 DEF Deployment!StopNginx, Deployment!StopChild, Deployment!Terminated
<1>13. CASE Deployment!StopBackend
  BY <1>13 DEF Deployment!StopBackend, Deployment!StopChild, Deployment!Terminated
<1>14. CASE Deployment!StopDatabase
  BY <1>14 DEF Deployment!StopDatabase
<1>15. CASE Deployment!CleanupFailedStart
  BY <1>15 DEF Deployment!CleanupFailedStart, Deployment!Terminated
<1>16. ASSUME NEW n \in Nodes, Deployment!Launch(n) PROVE DrainInv'
  BY <1>16 DEF Deployment!Launch
<1>17. ASSUME NEW n \in Nodes, Deployment!BuildSampler(n) PROVE DrainInv'
  BY <1>17 DEF Deployment!BuildSampler
<1>18. ASSUME NEW n \in Nodes, Deployment!SamplerStarted(n) PROVE DrainInv'
  BY <1>18 DEF Deployment!SamplerStarted, Deployment!Judged
<1>19. ASSUME NEW n \in Nodes, Deployment!BeginStop(n) PROVE DrainInv'
  BY <1>19 DEF Deployment!BeginStop
<1>20. ASSUME NEW n \in Nodes, Deployment!EndSaving(n) PROVE DrainInv'
  BY <1>20 DEF Deployment!EndSaving
<1>21. CASE Deployment!Begin
  BY <1>21 DEF Deployment!Begin
<1>22. CASE Deployment!Return
  BY <1>22 DEF Deployment!Return
<1>23. CASE Deployment!Signal
  BY <1>23 DEF Deployment!Signal
<1>24. CASE Deployment!DashboardShutdown
  BY <1>24 DEF Deployment!DashboardShutdown, Deployment!Suspended
<1>25. CASE Deployment!BackendLeaves
  BY <1>25 DEF Deployment!BackendLeaves
<1>26. ASSUME NEW c \in {"backend", "nginx"}, Deployment!ChildDies(c) PROVE DrainInv'
  BY <1>26 DEF Deployment!ChildDies
<1>27. CASE UNCHANGED Deployment!vars
  BY <1>27 DEF Deployment!vars
<1> QED BY <1>1, <1>2, <1>3, <1>4, <1>5, <1>6, <1>7, <1>8, <1>9, <1>10, <1>11, <1>12, <1>13,
     <1>14, <1>15, <1>16, <1>17, <1>18, <1>19, <1>20, <1>21, <1>22, <1>23, <1>24, <1>25, <1>26,
     <1>27 DEF Deployment!Next, Deployment!DeployStep, Deployment!NodeStep

LEMMA DeployInit ==
  ASSUME DeployAssumption, Deployment!Init
  PROVE  Deployment!TypeOK /\ ChildrenInv /\ AskedInv /\ DrainInv
<1> USE DEF DeployAssumption, Deployment!DrainAssumption, Deployment!DeploysAssumption,
     Deployment!FlagAssumption, Deployment!Init
<1>1. db \in BOOLEAN
  OBVIOUS
<1>2. elapsed \in 0 .. (SamplerDrain + NodeStop) /\ nodeDeadline \in 0 .. Deployment!Unset /\ deploys \in 0 .. Deploys
  BY DEF Deployment!Unset
<1>3. child \in [{"backend", "nginx"} -> Deployment!Running \cup Deployment!Exited]
  BY DEF Deployment!Exited
<1>4. Deployment!TypeOK
  BY <1>1, <1>2, <1>3 DEF Deployment!TypeOK
<1> QED BY <1>4 DEF ChildrenInv, AskedInv, DrainInv, Deployment!Exited

\* Postgres is only stopped by the cleanup that drained.
LEMMA StopStep ==
  ASSUME Deployment!TypeOK, DrainInv, [Deployment!Next]_Deployment!vars
  PROVE  Deployment!DrainedBeforeStop
<1>1. SUFFICES ASSUME pc = "stopDatabase", db, ~db' PROVE Deployment!Unsaved = {}
  BY DEF Deployment!DrainedBeforeStop
<1>2. ~timedOut
  BY <1>1 DEF Deployment!Next, Deployment!DeployStep, Deployment!NodeStep, Deployment!vars,
       Deployment!deployVars, Deployment!drainVars, Deployment!nodeVars, Deployment!StartDatabase,
       Deployment!StartBackend,
     Deployment!StartNginx, Deployment!WaitForHealth, Deployment!ResumeWorkers,
     Deployment!Supervise, Deployment!SuspendWorkers, Deployment!Poll, Deployment!Tick,
     Deployment!DrainFails, Deployment!StopNginx,
     Deployment!StopBackend, Deployment!StopChild, Deployment!StopDatabase,
     Deployment!CleanupFailedStart, Deployment!Launch, Deployment!BuildSampler,
     Deployment!SamplerStarted, Deployment!BeginStop,
     Deployment!EndSaving, Deployment!Begin, Deployment!Return, Deployment!Signal,
     Deployment!DashboardShutdown, Deployment!BackendLeaves, Deployment!ChildDies
<1> QED BY <1>1, <1>2 DEF DrainInv

\* Deploy (deploy.rs): however startup fails, children die, signals and suspensions interleave, the
\* supervisor's state is one the code can be in.
THEOREM DeployTyped == ASSUME DeployAssumption PROVE Deployment!Spec => []Deployment!TypeOK
<1>1. Deployment!TypeOK /\ [Deployment!Next]_Deployment!vars => Deployment!TypeOK'
  BY DeployTypesStep
<1> QED BY DeployInit, <1>1, PTL DEF Deployment!Spec

\* Where killing a child works (cleanup_failed_start, cleanup_deploy), a deploy that returned left
\* neither the backend nor nginx behind.
THEOREM PortsFreed == ASSUME DeployAssumption, KillFails = FALSE PROVE Deployment!Spec => []Deployment!NoOrphans
<1>1. Deployment!TypeOK /\ ChildrenInv /\ [Deployment!Next]_Deployment!vars => ChildrenInv'
  BY ChildrenStep
<1>2. Deployment!TypeOK /\ ChildrenInv => Deployment!NoOrphans
  BY DEF Deployment!TypeOK, ChildrenInv, Deployment!NoOrphans
<1> QED BY DeployInit, DeployTyped, <1>1, <1>2, PTL DEF Deployment!Spec

\* Whatever the workers are doing when they are suspended and however long they take, Postgres is
\* never stopped under a suspended sampler that the drain is to judge (cleanup_deploy): one that was
\* recorded at the suspension, or one that was being built and is recorded while the drain waits,
\* before a poll that saw no sampler set a node deadline earlier than the sampler deadline.
THEOREM DatabaseWaits == ASSUME DeployAssumption PROVE Deployment!Spec => [][Deployment!DrainedBeforeStop]_Deployment!vars
<1>1. Deployment!TypeOK /\ AskedInv /\ [Deployment!Next]_Deployment!vars => AskedInv'
  BY AskedStep
<1>2. Deployment!TypeOK /\ AskedInv /\ DrainInv /\ [Deployment!Next]_Deployment!vars => DrainInv'
  BY DrainStep
<1>3. Deployment!TypeOK /\ DrainInv /\ [Deployment!Next]_Deployment!vars => [Deployment!DrainedBeforeStop]_Deployment!vars
  BY StopStep
<1> QED BY DeployInit, DeployTyped, <1>1, <1>2, <1>3, PTL DEF Deployment!Spec

\* The deploy as a whole, where killing a child works.
THEOREM DeployCleans ==
  ASSUME DeployAssumption, KillFails = FALSE
  PROVE  Deployment!Spec => Deployment!DeployCleansUp
BY DeployTyped, PortsFreed, DatabaseWaits, PTL DEF Deployment!DeployCleansUp

-----------------------------------------------------------------------------
(* Local database commands.                                                *)

ExtensionOn == <<"extension">>
MigrateOn == <<"migrate", "extension">>
CreateOn == <<"createdb", "migrate", "extension">>
StartOn == <<"pg_start", "createdb", "migrate", "extension">>
LoadOn == <<"pg_restore", "createdb", "migrate", "extension">>
DropOn == <<"drop_schema", "pg_restore", "createdb", "migrate", "extension">>
EmptyOn == <<"createdb", "drop_schema", "pg_restore", "createdb", "migrate", "extension">>
RestoreOn == <<"pg_start", "createdb", "drop_schema", "pg_restore", "createdb", "migrate", "extension">>
RemoveOn == <<"remove", "initdb", "pg_start", "createdb", "migrate", "extension">>
RemoveOnly == <<"remove">>
ServerOn == <<"pg_start">>
StopOnly == <<"pg_stop">>
DumpOnly == <<"pg_dump">>

\* What a command still runs: a tail of its programs.
Place ==
  \/ cmd = "start" /\ todo \in {Database!StartSteps, StartOn, CreateOn, MigrateOn, ExtensionOn}
  \/ cmd = "cluster" /\ todo \in {Database!ClusterSteps, ServerOn}
  \/ cmd = "stop" /\ todo = StopOnly
  \/ cmd = "delete" /\ todo \in {Database!DeleteSteps, RemoveOnly}
  \/ cmd = "reset" /\ todo \in {Database!ResetSteps, RemoveOn, Database!StartSteps, StartOn, CreateOn, MigrateOn, ExtensionOn}
  \/ cmd = "backup" /\ todo = DumpOnly
  \/ cmd = "restore" /\ todo \in {Database!RestoreSteps, RestoreOn, EmptyOn, DropOn, LoadOn, CreateOn, MigrateOn, ExtensionOn}

LEMMA ExtensionOnIs ==
  /\ ExtensionOn \in Seq(Database!Programs) /\ ExtensionOn # <<>> /\ Len(ExtensionOn) = 1
  /\ Head(ExtensionOn) = "extension" /\ Tail(ExtensionOn) = <<>>
BY DEF ExtensionOn, Database!Programs

LEMMA MigrateOnIs ==
  /\ MigrateOn \in Seq(Database!Programs) /\ MigrateOn # <<>> /\ Len(MigrateOn) = 2
  /\ Head(MigrateOn) = "migrate" /\ Tail(MigrateOn) = ExtensionOn
BY DEF MigrateOn, ExtensionOn, Database!Programs

LEMMA CreateOnIs ==
  /\ CreateOn \in Seq(Database!Programs) /\ CreateOn # <<>> /\ Len(CreateOn) = 3
  /\ Head(CreateOn) = "createdb" /\ Tail(CreateOn) = MigrateOn
BY DEF CreateOn, MigrateOn, Database!Programs

LEMMA StartOnIs ==
  /\ StartOn \in Seq(Database!Programs) /\ StartOn # <<>> /\ Len(StartOn) = 4
  /\ Head(StartOn) = "pg_start" /\ Tail(StartOn) = CreateOn
BY DEF StartOn, CreateOn, Database!Programs

LEMMA StartStepsIs ==
  /\ Database!StartSteps \in Seq(Database!Programs) /\ Database!StartSteps # <<>> /\ Len(Database!StartSteps) = 5
  /\ Head(Database!StartSteps) = "initdb" /\ Tail(Database!StartSteps) = StartOn
BY DEF Database!StartSteps, StartOn, Database!Programs

LEMMA LoadOnIs ==
  /\ LoadOn \in Seq(Database!Programs) /\ LoadOn # <<>> /\ Len(LoadOn) = 4
  /\ Head(LoadOn) = "pg_restore" /\ Tail(LoadOn) = CreateOn
BY DEF LoadOn, CreateOn, Database!Programs

LEMMA DropOnIs ==
  /\ DropOn \in Seq(Database!Programs) /\ DropOn # <<>> /\ Len(DropOn) = 5
  /\ Head(DropOn) = "drop_schema" /\ Tail(DropOn) = LoadOn
BY DEF DropOn, LoadOn, Database!Programs

LEMMA EmptyOnIs ==
  /\ EmptyOn \in Seq(Database!Programs) /\ EmptyOn # <<>> /\ Len(EmptyOn) = 6
  /\ Head(EmptyOn) = "createdb" /\ Tail(EmptyOn) = DropOn
BY DEF EmptyOn, DropOn, Database!Programs

LEMMA RestoreOnIs ==
  /\ RestoreOn \in Seq(Database!Programs) /\ RestoreOn # <<>> /\ Len(RestoreOn) = 7
  /\ Head(RestoreOn) = "pg_start" /\ Tail(RestoreOn) = EmptyOn
BY DEF RestoreOn, EmptyOn, Database!Programs

LEMMA RestoreStepsIs ==
  /\ Database!RestoreSteps \in Seq(Database!Programs) /\ Database!RestoreSteps # <<>> /\ Len(Database!RestoreSteps) = 8
  /\ Head(Database!RestoreSteps) = "initdb" /\ Tail(Database!RestoreSteps) = RestoreOn
BY DEF Database!RestoreSteps, RestoreOn, Database!Programs

LEMMA RemoveOnIs ==
  /\ RemoveOn \in Seq(Database!Programs) /\ RemoveOn # <<>> /\ Len(RemoveOn) = 6
  /\ Head(RemoveOn) = "remove" /\ Tail(RemoveOn) = Database!StartSteps
BY DEF RemoveOn, Database!StartSteps, Database!Programs

LEMMA ResetStepsIs ==
  /\ Database!ResetSteps \in Seq(Database!Programs) /\ Database!ResetSteps # <<>> /\ Len(Database!ResetSteps) = 7
  /\ Head(Database!ResetSteps) = "pg_stop" /\ Tail(Database!ResetSteps) = RemoveOn
BY DEF Database!ResetSteps, RemoveOn, Database!Programs

LEMMA RemoveOnlyIs ==
  /\ RemoveOnly \in Seq(Database!Programs) /\ RemoveOnly # <<>> /\ Len(RemoveOnly) = 1
  /\ Head(RemoveOnly) = "remove" /\ Tail(RemoveOnly) = <<>>
BY DEF RemoveOnly, Database!Programs

LEMMA DeleteStepsIs ==
  /\ Database!DeleteSteps \in Seq(Database!Programs) /\ Database!DeleteSteps # <<>> /\ Len(Database!DeleteSteps) = 2
  /\ Head(Database!DeleteSteps) = "pg_stop" /\ Tail(Database!DeleteSteps) = RemoveOnly
BY DEF Database!DeleteSteps, RemoveOnly, Database!Programs

LEMMA ServerOnIs ==
  /\ ServerOn \in Seq(Database!Programs) /\ ServerOn # <<>> /\ Len(ServerOn) = 1
  /\ Head(ServerOn) = "pg_start" /\ Tail(ServerOn) = <<>>
BY DEF ServerOn, Database!Programs

LEMMA ClusterStepsIs ==
  /\ Database!ClusterSteps \in Seq(Database!Programs) /\ Database!ClusterSteps # <<>> /\ Len(Database!ClusterSteps) = 2
  /\ Head(Database!ClusterSteps) = "initdb" /\ Tail(Database!ClusterSteps) = ServerOn
BY DEF Database!ClusterSteps, ServerOn, Database!Programs

LEMMA StopOnlyIs ==
  /\ StopOnly \in Seq(Database!Programs) /\ StopOnly # <<>> /\ Len(StopOnly) = 1
  /\ Head(StopOnly) = "pg_stop" /\ Tail(StopOnly) = <<>>
BY DEF StopOnly, Database!Programs

LEMMA DumpOnlyIs ==
  /\ DumpOnly \in Seq(Database!Programs) /\ DumpOnly # <<>> /\ Len(DumpOnly) = 1
  /\ Head(DumpOnly) = "pg_dump" /\ Tail(DumpOnly) = <<>>
BY DEF DumpOnly, Database!Programs

\* All that is assumed of the commands and faults.
DbAssumption == Database!CommandsAssumption /\ Database!FaultsAssumption

\* A server runs on a directory that is ready, and a command has a tail of its programs left.
DbInv ==
  /\ Database!TypeOK
  /\ up => dir = "ready"
  /\ todo # <<>> => Place
  /\ cmd = "restore" /\ todo # <<>> => backup # "none"

\* How far a restore has come tells what the database holds.
RestoreInv == cmd = "restore" =>
  /\ todo \in {EmptyOn, DropOn, LoadOn, CreateOn, MigrateOn, ExtensionOn} => up
  /\ todo \in {DropOn, LoadOn, CreateOn, MigrateOn, ExtensionOn} => exists
  /\ todo \in {CreateOn, MigrateOn, ExtensionOn} => rows = "saved" /\ schema \in {"old", "current"}
  /\ todo = ExtensionOn => schema = "current"
  /\ todo = <<>> /\ ok => up /\ exists /\ schema = "current" /\ rows = "saved"

\* Where pg_ctl stop works, nothing is removed under a running server.
RemoveInv ==
  /\ todo = RemoveOnly \/ todo = RemoveOn => ~up
  /\ ~orphan

LEMMA CommandPlaced ==
  ASSUME DbAssumption, NEW c \in Commands, Database!Command(c)
  PROVE  Place' /\ todo' \in Seq(Database!Programs) /\ todo' \notin {RemoveOnly, RemoveOn} /\ todo' # <<>>
         /\ (c = "restore" => todo' = Database!RestoreSteps)
<1>1. c \in {"start", "cluster", "stop", "delete", "reset", "backup", "restore"}
  BY DEF DbAssumption, Database!CommandsAssumption
<1>2. <<"pg_stop">> = StopOnly /\ <<"pg_dump">> = DumpOnly
  BY DEF StopOnly, DumpOnly
<1>3. cmd' = c /\ todo' = Database!StepsOf(c)
  BY DEF Database!Command
<1> QED BY <1>1, <1>2, <1>3, StartStepsIs, ClusterStepsIs, StopOnlyIs, DeleteStepsIs,
     ResetStepsIs, DumpOnlyIs,
           RestoreStepsIs, RemoveOnlyIs, RemoveOnIs DEF Database!StepsOf, Place

LEMMA Moves ==
  ASSUME DbInv, todo # <<>>, Database!Advance
  PROVE  /\ todo' \in Seq(Database!Programs) /\ (todo' # <<>> => Place') /\ ok' \in BOOLEAN /\ cmd' = cmd
         /\ todo' = Tail(todo) /\ cmd # "idle"
<1>1. Place /\ cmd' = cmd /\ todo' = Tail(todo)
  BY DEF DbInv, Database!Advance
<1>2. ok' \in BOOLEAN
  BY DEF Database!Advance
<1>3. todo \in Seq(Database!Programs) /\ todo' \in Seq(Database!Programs) /\ (todo' # <<>> => Place') /\ cmd # "idle"
  <2>1. CASE cmd = "start"
    <3>1. CASE todo = Database!StartSteps
      BY <1>1, <2>1, <3>1, StartStepsIs, StartOnIs DEF Place
    <3>2. CASE todo = StartOn
      BY <1>1, <2>1, <3>2, StartOnIs, CreateOnIs DEF Place
    <3>3. CASE todo = CreateOn
      BY <1>1, <2>1, <3>3, CreateOnIs, MigrateOnIs DEF Place
    <3>4. CASE todo = MigrateOn
      BY <1>1, <2>1, <3>4, MigrateOnIs, ExtensionOnIs DEF Place
    <3>5. CASE todo = ExtensionOn
      BY <1>1, <2>1, <3>5, ExtensionOnIs DEF Place
    <3> QED BY <1>1, <2>1, <3>1, <3>2, <3>3, <3>4, <3>5 DEF Place
  <2>2. CASE cmd = "cluster"
    <3>1. CASE todo = Database!ClusterSteps
      BY <1>1, <2>2, <3>1, ClusterStepsIs, ServerOnIs DEF Place
    <3>2. CASE todo = ServerOn
      BY <1>1, <2>2, <3>2, ServerOnIs DEF Place
    <3> QED BY <1>1, <2>2, <3>1, <3>2 DEF Place
  <2>3. CASE cmd = "stop"
    <3>1. CASE todo = StopOnly
      BY <1>1, <2>3, <3>1, StopOnlyIs DEF Place
    <3> QED BY <1>1, <2>3, <3>1 DEF Place
  <2>4. CASE cmd = "delete"
    <3>1. CASE todo = Database!DeleteSteps
      BY <1>1, <2>4, <3>1, DeleteStepsIs, RemoveOnlyIs DEF Place
    <3>2. CASE todo = RemoveOnly
      BY <1>1, <2>4, <3>2, RemoveOnlyIs DEF Place
    <3> QED BY <1>1, <2>4, <3>1, <3>2 DEF Place
  <2>5. CASE cmd = "reset"
    <3>1. CASE todo = Database!ResetSteps
      BY <1>1, <2>5, <3>1, ResetStepsIs, RemoveOnIs DEF Place
    <3>2. CASE todo = RemoveOn
      BY <1>1, <2>5, <3>2, RemoveOnIs, StartStepsIs DEF Place
    <3>3. CASE todo = Database!StartSteps
      BY <1>1, <2>5, <3>3, StartStepsIs, StartOnIs DEF Place
    <3>4. CASE todo = StartOn
      BY <1>1, <2>5, <3>4, StartOnIs, CreateOnIs DEF Place
    <3>5. CASE todo = CreateOn
      BY <1>1, <2>5, <3>5, CreateOnIs, MigrateOnIs DEF Place
    <3>6. CASE todo = MigrateOn
      BY <1>1, <2>5, <3>6, MigrateOnIs, ExtensionOnIs DEF Place
    <3>7. CASE todo = ExtensionOn
      BY <1>1, <2>5, <3>7, ExtensionOnIs DEF Place
    <3> QED BY <1>1, <2>5, <3>1, <3>2, <3>3, <3>4, <3>5, <3>6, <3>7 DEF Place
  <2>6. CASE cmd = "backup"
    <3>1. CASE todo = DumpOnly
      BY <1>1, <2>6, <3>1, DumpOnlyIs DEF Place
    <3> QED BY <1>1, <2>6, <3>1 DEF Place
  <2>7. CASE cmd = "restore"
    <3>1. CASE todo = Database!RestoreSteps
      BY <1>1, <2>7, <3>1, RestoreStepsIs, RestoreOnIs DEF Place
    <3>2. CASE todo = RestoreOn
      BY <1>1, <2>7, <3>2, RestoreOnIs, EmptyOnIs DEF Place
    <3>3. CASE todo = EmptyOn
      BY <1>1, <2>7, <3>3, EmptyOnIs, DropOnIs DEF Place
    <3>4. CASE todo = DropOn
      BY <1>1, <2>7, <3>4, DropOnIs, LoadOnIs DEF Place
    <3>5. CASE todo = LoadOn
      BY <1>1, <2>7, <3>5, LoadOnIs, CreateOnIs DEF Place
    <3>6. CASE todo = CreateOn
      BY <1>1, <2>7, <3>6, CreateOnIs, MigrateOnIs DEF Place
    <3>7. CASE todo = MigrateOn
      BY <1>1, <2>7, <3>7, MigrateOnIs, ExtensionOnIs DEF Place
    <3>8. CASE todo = ExtensionOn
      BY <1>1, <2>7, <3>8, ExtensionOnIs DEF Place
    <3> QED BY <1>1, <2>7, <3>1, <3>2, <3>3, <3>4, <3>5, <3>6, <3>7, <3>8 DEF Place
  <2> QED BY <1>1, <2>1, <2>2, <2>3, <2>4, <2>5, <2>6, <2>7 DEF Place
<1> QED BY <1>1, <1>2, <1>3

LEMMA RestoreAt ==
  ASSUME Place, cmd = "restore"
  PROVE  \/ todo = Database!RestoreSteps /\ Head(todo) = "initdb" /\ Tail(todo) = RestoreOn /\ Len(todo) = 8
         \/ todo = RestoreOn /\ Head(todo) = "pg_start" /\ Tail(todo) = EmptyOn /\ Len(todo) = 7
         \/ todo = EmptyOn /\ Head(todo) = "createdb" /\ Tail(todo) = DropOn /\ Len(todo) = 6
         \/ todo = DropOn /\ Head(todo) = "drop_schema" /\ Tail(todo) = LoadOn /\ Len(todo) = 5
         \/ todo = LoadOn /\ Head(todo) = "pg_restore" /\ Tail(todo) = CreateOn /\ Len(todo) = 4
         \/ todo = CreateOn /\ Head(todo) = "createdb" /\ Tail(todo) = MigrateOn /\ Len(todo) = 3
         \/ todo = MigrateOn /\ Head(todo) = "migrate" /\ Tail(todo) = ExtensionOn /\ Len(todo) = 2
         \/ todo = ExtensionOn /\ Head(todo) = "extension" /\ Tail(todo) = <<>> /\ Len(todo) = 1
<1>1. CASE todo = Database!RestoreSteps
  BY <1>1, RestoreStepsIs
<1>2. CASE todo = RestoreOn
  BY <1>2, RestoreOnIs
<1>3. CASE todo = EmptyOn
  BY <1>3, EmptyOnIs
<1>4. CASE todo = DropOn
  BY <1>4, DropOnIs
<1>5. CASE todo = LoadOn
  BY <1>5, LoadOnIs
<1>6. CASE todo = CreateOn
  BY <1>6, CreateOnIs
<1>7. CASE todo = MigrateOn
  BY <1>7, MigrateOnIs
<1>8. CASE todo = ExtensionOn
  BY <1>8, ExtensionOnIs
<1> QED BY <1>1, <1>2, <1>3, <1>4, <1>5, <1>6, <1>7, <1>8 DEF Place

LEMMA RemoveAt ==
  ASSUME Place
  PROVE  /\ Head(todo) = "remove" => todo \in {RemoveOnly, RemoveOn}
         /\ Tail(todo) \in {RemoveOnly, RemoveOn} => Head(todo) = "pg_stop"
<1>1. CASE todo = ExtensionOn
  BY <1>1, ExtensionOnIs, RemoveOnlyIs, RemoveOnIs
<1>2. CASE todo = MigrateOn
  BY <1>2, MigrateOnIs, RemoveOnlyIs, RemoveOnIs, ExtensionOnIs
<1>3. CASE todo = CreateOn
  BY <1>3, CreateOnIs, RemoveOnlyIs, RemoveOnIs, MigrateOnIs
<1>4. CASE todo = StartOn
  BY <1>4, StartOnIs, RemoveOnlyIs, RemoveOnIs, CreateOnIs
<1>5. CASE todo = Database!StartSteps
  BY <1>5, StartStepsIs, RemoveOnlyIs, RemoveOnIs, StartOnIs
<1>6. CASE todo = LoadOn
  BY <1>6, LoadOnIs, RemoveOnlyIs, RemoveOnIs, CreateOnIs
<1>7. CASE todo = DropOn
  BY <1>7, DropOnIs, RemoveOnlyIs, RemoveOnIs, LoadOnIs
<1>8. CASE todo = EmptyOn
  BY <1>8, EmptyOnIs, RemoveOnlyIs, RemoveOnIs, DropOnIs
<1>9. CASE todo = RestoreOn
  BY <1>9, RestoreOnIs, RemoveOnlyIs, RemoveOnIs, EmptyOnIs
<1>10. CASE todo = Database!RestoreSteps
  BY <1>10, RestoreStepsIs, RemoveOnlyIs, RemoveOnIs, RestoreOnIs
<1>11. CASE todo = RemoveOn
  BY <1>11, RemoveOnIs, RemoveOnlyIs, RemoveOnIs, StartStepsIs
<1>12. CASE todo = Database!ResetSteps
  BY <1>12, ResetStepsIs, RemoveOnlyIs, RemoveOnIs
<1>13. CASE todo = RemoveOnly
  BY <1>13, RemoveOnlyIs, RemoveOnlyIs, RemoveOnIs
<1>14. CASE todo = Database!DeleteSteps
  BY <1>14, DeleteStepsIs, RemoveOnlyIs, RemoveOnIs
<1>15. CASE todo = ServerOn
  BY <1>15, ServerOnIs, RemoveOnlyIs, RemoveOnIs
<1>16. CASE todo = Database!ClusterSteps
  BY <1>16, ClusterStepsIs, RemoveOnlyIs, RemoveOnIs, ServerOnIs
<1>17. CASE todo = StopOnly
  BY <1>17, StopOnlyIs, RemoveOnlyIs, RemoveOnIs
<1>18. CASE todo = DumpOnly
  BY <1>18, DumpOnlyIs, RemoveOnlyIs, RemoveOnIs
<1> QED BY <1>1, <1>2, <1>3, <1>4, <1>5, <1>6, <1>7, <1>8, <1>9, <1>10, <1>11, <1>12, <1>13,
     <1>14, <1>15, <1>16, <1>17, <1>18 DEF Place

LEMMA StartAt ==
  ASSUME Place, cmd = "start"
  PROVE  Head(todo) \in {"initdb", "pg_start", "createdb", "migrate", "extension"}
BY StartStepsIs, StartOnIs, CreateOnIs, MigrateOnIs, ExtensionOnIs DEF Place

LEMMA LoadAt ==
  ASSUME Place, Head(todo) = "pg_restore"
  PROVE  cmd = "restore"
BY ExtensionOnIs, MigrateOnIs, CreateOnIs, StartOnIs, StartStepsIs, LoadOnIs, DropOnIs, EmptyOnIs,
     RestoreOnIs, RestoreStepsIs, RemoveOnIs, ResetStepsIs, RemoveOnlyIs, DeleteStepsIs,
     ServerOnIs, ClusterStepsIs, StopOnlyIs, DumpOnlyIs DEF Place

LEMMA DbStep ==
  ASSUME DbAssumption, DbInv, [Database!Next]_Database!vars
  PROVE  DbInv'
<1> USE DEF DbInv, Database!TypeOK, Database!files, Database!data, Database!At, Database!Done,
     Database!Aborted
<1>a. /\ Database!AbortEarly => todo' = <<>> /\ todo' \in Seq(Database!Programs) /\ ok' \in BOOLEAN /\ cmd' = cmd
      /\ todo # <<>> => Place /\ (Head(todo) = "pg_restore" => backup # "none")
  <2>0. <<>> \in Seq(Database!Programs)
    OBVIOUS
  <2>1. Database!AbortEarly => todo' = <<>> /\ todo' \in Seq(Database!Programs) /\ ok' \in BOOLEAN /\ cmd' = cmd
    BY <2>0, Zenon DEF Database!AbortEarly
  <2>2. todo # <<>> /\ Head(todo) = "pg_restore" => backup # "none"
    BY LoadAt
  <2> QED BY <2>1, <2>2
<1>b. todo # <<>> /\ Database!Advance
         => /\ todo' \in Seq(Database!Programs) /\ (todo' # <<>> => Place') /\ ok' \in BOOLEAN /\ cmd' = cmd
            /\ (cmd' = "restore" /\ todo' # <<>> => backup # "none")
  BY Moves DEF DbInv
<1>c. faults \in 0 .. Faults /\ (faults < Faults => faults + 1 \in 0 .. Faults)
  BY DEF DbAssumption, Database!FaultsAssumption
<1>1. CASE Database!InitDb
  BY <1>a, <1>b, <1>c, <1>1 DEF Database!InitDb, Database!NeedsInit
<1>2. CASE Database!PgStart
  BY <1>a, <1>b, <1>c, <1>2 DEF Database!PgStart, Database!IsDbRunning
<1>3. CASE Database!PgStop
  BY <1>a, <1>b, <1>c, <1>3 DEF Database!PgStop
<1>4. CASE Database!Remove
  BY <1>a, <1>b, <1>c, <1>4 DEF Database!Remove
<1>5. CASE Database!CreateDb
  BY <1>a, <1>b, <1>c, <1>5 DEF Database!CreateDb
<1>6. CASE Database!Migrate
  BY <1>a, <1>b, <1>c, <1>6 DEF Database!Migrate, Database!DatabaseExists
<1>7. CASE Database!Extension
  BY <1>a, <1>b, <1>c, <1>7 DEF Database!Extension, Database!DatabaseExists
<1>8. CASE Database!DropSchema
  BY <1>a, <1>b, <1>c, <1>8 DEF Database!DropSchema, Database!DatabaseExists
<1>9. CASE Database!PgRestore
  BY <1>a, <1>b, <1>c, <1>9 DEF Database!PgRestore, Database!DatabaseExists
<1>10. CASE Database!PgDump
  BY <1>a, <1>b, <1>c, <1>10 DEF Database!PgDump, Database!DatabaseExists
<1>11. CASE Database!Interrupted
  <2> USE <1>11 DEF Database!Interrupted, Database!NeedsInit
  <2>1. /\ todo' = <<>> /\ todo' \in Seq(Database!Programs) /\ ok' \in BOOLEAN /\ cmd' = cmd /\ backup' = backup
        /\ faults' \in 0 .. Faults
    BY <1>a, <1>c
  <2>2. /\ dir' \in {"absent", "torn", "ready"} /\ up' \in BOOLEAN /\ orphan' \in BOOLEAN /\ exists' \in BOOLEAN
        /\ schema' \in {"bare", "torn", "old", "current"} /\ rows' \in {"none", "live", "saved", "mixed"}
    OBVIOUS
  <2>3. /\ exists' => dir' = "ready"
        /\ ~exists' => schema' = "bare" /\ rows' = "none"
        /\ up' => dir' = "ready"
    OBVIOUS
  <2> QED BY <2>1, <2>2, <2>3
<1>12. CASE Database!Use
  BY <1>12 DEF Database!Use
<1>13. CASE Database!OrphanExits
  <2>1. orphan' \in BOOLEAN /\ UNCHANGED <<dir, up, exists, schema, rows, backup, cmd, todo, ok, faults>>
    BY <1>13 DEF Database!OrphanExits
  <2>2. Place' = Place
    BY <2>1 DEF Place
  <2> QED BY <2>1, <2>2
<1>14. ASSUME NEW c \in Commands, Database!Command(c) PROVE DbInv'
  BY <1>14, CommandPlaced DEF Database!Command
<1>15. CASE UNCHANGED Database!vars
  BY <1>15 DEF Database!vars, Place
<1> QED BY <1>1, <1>2, <1>3, <1>4, <1>5, <1>6, <1>7, <1>8, <1>9, <1>10, <1>11, <1>12, <1>13,
     <1>14, <1>15 DEF Database!Next, Database!Step

LEMMA RestoreStep ==
  ASSUME DbAssumption, DbInv, RestoreInv, [Database!Next]_Database!vars
  PROVE  RestoreInv'
<1> USE DEF RestoreInv
<1>a. todo # <<>> /\ cmd = "restore" => Place /\ backup \in {"old", "current"}
  BY DEF DbInv, Database!TypeOK
<1>1. CASE Database!InitDb
  BY <1>a, <1>1, RestoreAt, RestoreStepsIs, RestoreOnIs, EmptyOnIs, DropOnIs, LoadOnIs,
       CreateOnIs, MigrateOnIs, ExtensionOnIs DEF Database!InitDb, Database!NeedsInit,
       Database!files, Database!data, Database!At, Database!Done, Database!Aborted,
       Database!Advance, Database!AbortEarly
<1>2. CASE Database!PgStart
  BY <1>a, <1>2, RestoreAt, RestoreStepsIs, RestoreOnIs, EmptyOnIs, DropOnIs, LoadOnIs,
       CreateOnIs, MigrateOnIs, ExtensionOnIs DEF Database!PgStart, Database!IsDbRunning,
       Database!files, Database!data, Database!At, Database!Done, Database!Aborted,
       Database!Advance, Database!AbortEarly
<1>3. CASE Database!PgStop
  BY <1>a, <1>3, RestoreAt, RestoreStepsIs, RestoreOnIs, EmptyOnIs, DropOnIs, LoadOnIs,
       CreateOnIs, MigrateOnIs, ExtensionOnIs DEF Database!PgStop, Database!files, Database!data,
       Database!At, Database!Done, Database!Aborted, Database!Advance, Database!AbortEarly
<1>4. CASE Database!Remove
  BY <1>a, <1>4, RestoreAt, RestoreStepsIs, RestoreOnIs, EmptyOnIs, DropOnIs, LoadOnIs,
       CreateOnIs, MigrateOnIs, ExtensionOnIs DEF Database!Remove, Database!files, Database!data,
       Database!At, Database!Done, Database!Aborted, Database!Advance, Database!AbortEarly
<1>5. CASE Database!CreateDb
  BY <1>a, <1>5, RestoreAt, RestoreStepsIs, RestoreOnIs, EmptyOnIs, DropOnIs, LoadOnIs,
       CreateOnIs, MigrateOnIs, ExtensionOnIs DEF Database!CreateDb, Database!files,
       Database!data, Database!At, Database!Done, Database!Aborted, Database!Advance,
       Database!AbortEarly
<1>6. CASE Database!Migrate
  BY <1>a, <1>6, RestoreAt, RestoreStepsIs, RestoreOnIs, EmptyOnIs, DropOnIs, LoadOnIs,
       CreateOnIs, MigrateOnIs, ExtensionOnIs DEF Database!Migrate, Database!DatabaseExists,
       Database!files, Database!data, Database!At, Database!Done, Database!Aborted,
       Database!Advance, Database!AbortEarly
<1>7. CASE Database!Extension
  BY <1>a, <1>7, RestoreAt, RestoreStepsIs, RestoreOnIs, EmptyOnIs, DropOnIs, LoadOnIs,
       CreateOnIs, MigrateOnIs, ExtensionOnIs DEF Database!Extension, Database!DatabaseExists,
       Database!files, Database!data, Database!At, Database!Done, Database!Aborted,
       Database!Advance, Database!AbortEarly
<1>8. CASE Database!DropSchema
  <2>1. cmd = "restore" => todo = DropOn
    BY <1>a, <1>8, RestoreAt DEF Database!DropSchema, Database!At
  <2> QED BY <2>1, <1>8, RestoreStepsIs, RestoreOnIs, EmptyOnIs, DropOnIs, LoadOnIs, CreateOnIs,
       MigrateOnIs, ExtensionOnIs DEF Database!DropSchema, Database!DatabaseExists,
       Database!files, Database!data, Database!At, Database!Done, Database!Aborted,
       Database!Advance, Database!AbortEarly
<1>9. CASE Database!PgRestore
  BY <1>a, <1>9, RestoreAt, RestoreStepsIs, RestoreOnIs, EmptyOnIs, DropOnIs, LoadOnIs,
       CreateOnIs, MigrateOnIs, ExtensionOnIs DEF Database!PgRestore, Database!DatabaseExists,
       Database!files, Database!data, Database!At, Database!Done, Database!Aborted,
       Database!Advance, Database!AbortEarly
<1>10. CASE Database!PgDump
  BY <1>a, <1>10, RestoreAt, RestoreStepsIs, RestoreOnIs, EmptyOnIs, DropOnIs, LoadOnIs,
       CreateOnIs, MigrateOnIs, ExtensionOnIs DEF Database!PgDump, Database!DatabaseExists,
       Database!files, Database!data, Database!At, Database!Done, Database!Aborted,
       Database!Advance, Database!AbortEarly
<1>11. CASE Database!Interrupted
  BY <1>11, RestoreStepsIs, RestoreOnIs, EmptyOnIs, DropOnIs, LoadOnIs, CreateOnIs, MigrateOnIs,
       ExtensionOnIs DEF Database!Interrupted, Database!AbortEarly
<1>12. CASE Database!Use
  BY <1>12 DEF Database!Use
<1>13. CASE Database!OrphanExits
  BY <1>13 DEF Database!OrphanExits, Database!data
<1>14. ASSUME NEW c \in Commands, Database!Command(c) PROVE RestoreInv'
  <2>1. cmd' = c /\ todo' # <<>> /\ (c = "restore" => todo' = Database!RestoreSteps)
    BY <1>14, CommandPlaced DEF Database!Command
  <2>2. Database!RestoreSteps \notin {EmptyOn, DropOn, LoadOn, CreateOn, MigrateOn, ExtensionOn}
    BY RestoreStepsIs, EmptyOnIs, DropOnIs, LoadOnIs, CreateOnIs, MigrateOnIs, ExtensionOnIs
  <2> QED BY <2>1, <2>2
<1>15. CASE UNCHANGED Database!vars
  BY <1>15 DEF Database!vars
<1> QED BY <1>1, <1>2, <1>3, <1>4, <1>5, <1>6, <1>7, <1>8, <1>9, <1>10, <1>11, <1>12, <1>13,
     <1>14, <1>15 DEF Database!Next, Database!Step

LEMMA RemoveStep ==
  ASSUME DbAssumption, ~StopFails, DbInv, RemoveInv, [Database!Next]_Database!vars
  PROVE  RemoveInv'
<1> USE DEF RemoveInv
<1>a. todo # <<>> => Place
  BY DEF DbInv
<1>b. <<>> \notin {RemoveOnly, RemoveOn}
  BY RemoveOnlyIs, RemoveOnIs
<1>1. CASE Database!InitDb
  BY <1>a, <1>b, <1>1, RemoveAt DEF Database!InitDb, Database!NeedsInit, Database!files,
       Database!data, Database!At, Database!Done, Database!Aborted, Database!Advance,
       Database!AbortEarly
<1>2. CASE Database!PgStart
  BY <1>a, <1>b, <1>2, RemoveAt DEF Database!PgStart, Database!IsDbRunning, Database!files,
       Database!data, Database!At, Database!Done, Database!Aborted, Database!Advance,
       Database!AbortEarly
<1>3. CASE Database!PgStop
  BY <1>a, <1>b, <1>3, RemoveAt DEF Database!PgStop, Database!files, Database!data, Database!At,
       Database!Done, Database!Aborted, Database!Advance, Database!AbortEarly
<1>4. CASE Database!Remove
  BY <1>a, <1>b, <1>4, RemoveAt DEF Database!Remove, Database!files, Database!data, Database!At,
       Database!Done, Database!Aborted, Database!Advance, Database!AbortEarly
<1>5. CASE Database!CreateDb
  BY <1>a, <1>b, <1>5, RemoveAt DEF Database!CreateDb, Database!files, Database!data, Database!At,
       Database!Done, Database!Aborted, Database!Advance, Database!AbortEarly
<1>6. CASE Database!Migrate
  BY <1>a, <1>b, <1>6, RemoveAt DEF Database!Migrate, Database!DatabaseExists, Database!files,
       Database!data, Database!At, Database!Done, Database!Aborted, Database!Advance,
       Database!AbortEarly
<1>7. CASE Database!Extension
  BY <1>a, <1>b, <1>7, RemoveAt DEF Database!Extension, Database!DatabaseExists, Database!files,
       Database!data, Database!At, Database!Done, Database!Aborted, Database!Advance,
       Database!AbortEarly
<1>8. CASE Database!DropSchema
  BY <1>a, <1>b, <1>8, RemoveAt DEF Database!DropSchema, Database!DatabaseExists, Database!files,
       Database!data, Database!At, Database!Done, Database!Aborted, Database!Advance,
       Database!AbortEarly
<1>9. CASE Database!PgRestore
  BY <1>a, <1>b, <1>9, RemoveAt DEF Database!PgRestore, Database!DatabaseExists, Database!files,
       Database!data, Database!At, Database!Done, Database!Aborted, Database!Advance,
       Database!AbortEarly
<1>10. CASE Database!PgDump
  BY <1>a, <1>b, <1>10, RemoveAt DEF Database!PgDump, Database!DatabaseExists, Database!files,
       Database!data, Database!At, Database!Done, Database!Aborted, Database!Advance,
       Database!AbortEarly
<1>11. CASE Database!Interrupted
  <2>1. todo' = <<>>
    BY <1>11 DEF Database!Interrupted, Database!AbortEarly
  <2>2. Database!At("remove") => ~up
    BY <1>a, RemoveAt DEF Database!At
  <2>3. ~orphan'
    BY <1>11, <2>2 DEF Database!Interrupted, Database!files
  <2> QED BY <1>b, <2>1, <2>3
<1>12. CASE Database!Use
  BY <1>12 DEF Database!Use, Database!files
<1>13. CASE Database!OrphanExits
  BY <1>13 DEF Database!OrphanExits
<1>14. ASSUME NEW c \in Commands, Database!Command(c) PROVE RemoveInv'
  BY <1>14, CommandPlaced DEF Database!Command, Database!files
<1>15. CASE UNCHANGED Database!vars
  BY <1>15 DEF Database!vars
<1> QED BY <1>1, <1>2, <1>3, <1>4, <1>5, <1>6, <1>7, <1>8, <1>9, <1>10, <1>11, <1>12, <1>13,
     <1>14, <1>15 DEF Database!Next, Database!Step

LEMMA StartStep ==
  ASSUME DbInv, [Database!Next]_Database!vars
  PROVE  Database!StartKeepsRows
<1> SUFFICES ASSUME cmd = "start", todo # <<>>, rows # "none" PROVE rows' = rows
  BY DEF Database!StartKeepsRows
<1>1. Head(todo) \in {"initdb", "pg_start", "createdb", "migrate", "extension"}
  BY StartAt DEF DbInv
<1>2. exists /\ dir = "ready"
  BY DEF DbInv, Database!TypeOK
<1> QED BY <1>1, <1>2 DEF Database!Next, Database!Step, Database!vars, Database!Interrupted,
     Database!Use, Database!OrphanExits, Database!Command, Database!files, Database!data,
     Database!At, Database!NeedsInit,
          Database!InitDb, Database!NeedsInit, Database!PgStart, Database!IsDbRunning,
          Database!PgStop, Database!Remove, Database!CreateDb, Database!Migrate,
          Database!DatabaseExists, Database!Extension, Database!DatabaseExists,
          Database!DropSchema, Database!DatabaseExists, Database!PgRestore,
          Database!DatabaseExists, Database!PgDump, Database!DatabaseExists

LEMMA DbInit ==
  ASSUME DbAssumption, Database!Init
  PROVE  DbInv /\ RestoreInv /\ RemoveInv
<1>1. /\ dir \in {"absent", "torn", "ready"} /\ exists \in BOOLEAN /\ up \in BOOLEAN /\ orphan \in BOOLEAN
      /\ schema \in {"bare", "torn", "old", "current"} /\ rows \in {"none", "live", "saved", "mixed"}
  BY DEF Database!Init
<1>0. <<>> \in Seq(Database!Programs) /\ todo = <<>> /\ ok = FALSE
  BY DEF Database!Init
<1>a. faults \in 0 .. Faults
  BY DEF Database!Init, DbAssumption, Database!FaultsAssumption
<1>2. todo \in Seq(Database!Programs) /\ ok \in BOOLEAN /\ faults \in 0 .. Faults
  BY <1>0, <1>a
<1>3. Database!TypeOK
  BY <1>1, <1>2 DEF Database!Init, Database!TypeOK
<1> QED BY <1>3, RemoveOnlyIs, RemoveOnIs DEF Database!Init, DbInv, RestoreInv, RemoveInv

\* Local database commands (db.rs): whatever program of a command fails, and with whatever command
\* the operator goes on, the cluster is in a state the commands know.
THEOREM DatabaseTyped == ASSUME DbAssumption PROVE Database!Spec => [](Database!TypeOK /\ DbInv)
<1>1. DbInv /\ [Database!Next]_Database!vars => DbInv'
  BY DbStep
<1>2. DbInv => Database!TypeOK
  BY DEF DbInv
<1> QED BY DbInit, <1>1, <1>2, PTL DEF Database!Spec

\* A restore that reports success has the backup's rows, all and only them, under a current schema,
\* after any history of commands cut short (restore_db).
THEOREM RestoredExactly == ASSUME DbAssumption PROVE Database!Spec => []Database!RestoreExact
<1>1. DbInv /\ RestoreInv /\ [Database!Next]_Database!vars => RestoreInv'
  BY RestoreStep
<1>2. RestoreInv => Database!RestoreExact
  BY DEF RestoreInv, Database!RestoreExact, Database!Finished
<1> QED BY DbInit, DatabaseTyped, <1>1, <1>2, PTL DEF Database!Spec

\* No step of a start destroys rows that are there (start_postgres_cluster).
THEOREM RowsKept == ASSUME DbAssumption PROVE Database!Spec => [][Database!StartKeepsRows]_Database!vars
<1>1. DbInv /\ [Database!Next]_Database!vars => [Database!StartKeepsRows]_Database!vars
  BY StartStep
<1> QED BY DatabaseTyped, <1>1, PTL DEF Database!Spec

\* Where pg_ctl stop works, no server is left on a directory that was removed (delete_db).
THEOREM NoOrphan == ASSUME DbAssumption, ~StopFails PROVE Database!Spec => []Database!NoOrphanServer
<1>1. DbInv /\ RemoveInv /\ [Database!Next]_Database!vars => RemoveInv'
  BY RemoveStep
<1>2. RemoveInv => Database!NoOrphanServer
  BY DEF RemoveInv, Database!NoOrphanServer
<1> QED BY DbInit, DatabaseTyped, <1>1, <1>2, PTL DEF Database!Spec

\* The commands as a whole.
THEOREM DatabaseSafe == ASSUME DbAssumption PROVE Database!Spec => Database!DatabaseKept
<1>1. Database!Spec => [](~StopFails => Database!NoOrphanServer)
  <2>1. CASE StopFails
    <3>1. ~StopFails => Database!NoOrphanServer
      BY <2>1
    <3> QED BY <3>1, PTL
  <2>2. CASE ~StopFails
    <3>1. Database!Spec => []Database!NoOrphanServer
      BY <2>2, NoOrphan
    <3> QED BY <3>1, PTL
  <2> QED BY <2>1, <2>2
<1> QED BY <1>1, DatabaseTyped, RestoredExactly, RowsKept, PTL DEF Database!DatabaseKept

-----------------------------------------------------------------------------
(* Task panels and the measurement of a completed task.                    *)

\* States of a task and rows of the history.
States == {"pending", "active", "completed", "failed"}
Rows == [id : Nat \ {0}, pt : Panels!Result]

\* p was published no later than q: fewer samples, or the very same result.
AtMost(p, q) == p.n <= q.n /\ (p.n = q.n => p = q)

\* The newest row of t holds pt.
FinalAt(R, t, pt) == \E r \in R : r.pt = pt /\ pt.task = t /\ \A q \in R : q.pt.task = t => q.id <= r.id

\* What the sampler and the task queue write.
WriterTypes ==
  /\ state \in [Tasks -> States]
  /\ sampler \in [up : BOOLEAN, acc : Panels!Result, pend : Panels!Result \cup {None}]
  /\ era \in [Tasks -> Nat]
  /\ rows \subseteq Rows /\ IsFiniteSet(rows) /\ nextId \in Nat \ {0}
  /\ live \in Panels!Result \cup {None}
  /\ stage \in [Tasks -> Panels!Result \cup {None}] /\ measured \in [Tasks -> Panels!Result \cup {None}]
  /\ checkpoint \in [pt : Panels!Result, rowId : Nat] \cup {None}
  /\ closing \in {"no", "saved", "measured"}

\* Tasks run in order; sampler, pending flush, checkpoint and the statements of complete_task are about
\* the task in hand; a completed task is measured as it was staged; the live result is of the newest task.
QueueInv ==
  /\ \A s, t \in Tasks : s < t /\ state[t] # "pending" => state[s] = "completed"
  /\ sampler.up => state[sampler.acc.task] = "active" /\ checkpoint # None /\ checkpoint.pt.task = sampler.acc.task
  /\ sampler.pend # None => state[sampler.pend.task] \in {"active", "failed"} /\ checkpoint # None
  /\ sampler.pend # None /\ sampler.up => sampler.pend.task = sampler.acc.task /\ AtMost(sampler.pend, sampler.acc)
  /\ checkpoint # None => state[checkpoint.pt.task] \in {"active", "failed"}
  /\ closing # "no" => /\ sampler.up /\ sampler.pend = None /\ live = sampler.acc
                       /\ stage[sampler.acc.task] = sampler.acc
                       /\ closing = "measured" => measured[sampler.acc.task] = sampler.acc
  /\ \A t \in Tasks : state[t] = "completed" => measured[t] = stage[t]
  /\ \A t \in Tasks : stage[t] # None => stage[t].task = t
  /\ live # None => \A t \in Tasks : state[t] # "pending" => t <= live.task

\* Along a task's rows results only grow, up to the sampler's; a completed task's last row is its final one.
RowsInv ==
  /\ \A r \in rows : r.id < nextId
  /\ \A r, q \in rows : r.id = q.id => r = q
  /\ \A r, q \in rows : r.pt.task = q.pt.task /\ r.id <= q.id => AtMost(r.pt, q.pt)
  /\ sampler.up => \A r \in rows : r.pt.task = sampler.acc.task => AtMost(r.pt, sampler.acc)
  /\ sampler.pend # None => \A r \in rows : r.pt.task = sampler.pend.task => AtMost(r.pt, sampler.pend)
  /\ checkpoint # None => /\ checkpoint.rowId < nextId
                          /\ \A r \in rows : r.pt.task = checkpoint.pt.task /\ r.id <= checkpoint.rowId => AtMost(r.pt, checkpoint.pt)
  /\ \A r \in rows : state[r.pt.task] # "pending" /\ (state[r.pt.task] = "active" => checkpoint # None)
  /\ \A t \in Tasks : state[t] = "completed" => FinalAt(rows, t, stage[t])
  /\ closing # "no" => FinalAt(rows, sampler.acc.task, sampler.acc)

WriterInv == WriterTypes /\ QueueInv /\ RowsInv

LEMMA TasksNat == ASSUME Panels!PanelsAssumption PROVE Tasks \subseteq Nat \ {0} /\ (Tasks # {} => 1 \in Tasks)
<1>1. Cardinality(Tasks) \in Nat /\ Tasks = 1 .. Cardinality(Tasks)
  BY FS_CardinalityType, PanelsCardinality, PanelsFinite DEF Panels!PanelsAssumption
<1> QED BY <1>1

LEMMA EmptyResult == ASSUME NEW t \in Tasks PROVE Panels!Empty(t) \in Panels!Result /\ Panels!Empty(t).task = t
BY DEF Panels!Empty, Panels!Result

LEMMA NoneApart == ASSUME Panels!PanelsAssumption PROVE None \notin Panels!Result /\ None \notin Rows /\ None \notin [pt : Panels!Result, rowId : Nat]
BY DEF Panels!PanelsAssumption, Panels!Result, Rows

LEMMA ActivateKeeps == ASSUME Panels!PanelsAssumption, WriterInv, Panels!Activate PROVE WriterInv'
<1> USE DEF Panels!Activate, Panels!readers, Panels!ActiveTasks, Panels!ClearLive
<1>1. PICK t \in Tasks : state[t] = "pending" /\ (\A s \in 1 .. t - 1 : state[s] = "completed") /\ state' = [state EXCEPT ![t] = "active"]
  OBVIOUS
<1>2. Tasks \subseteq Nat \ {0} /\ state \in [Tasks -> States] /\ \A s \in Tasks : s < t => s \in 1 .. t - 1
  BY TasksNat DEF WriterInv, WriterTypes
<1>3. \A s \in Tasks : state[s] \in {"pending", "completed"}
  BY <1>2 DEF States
<1>4. ~sampler.up /\ sampler.pend = None /\ checkpoint = None /\ closing = "no"
  BY <1>3 DEF WriterInv, WriterTypes, QueueInv, Rows, Panels!Result
<1>5. WriterTypes'
  BY <1>1, <1>2 DEF WriterInv, WriterTypes, States
<1>6. QueueInv'
  BY <1>1, <1>2, <1>3, <1>4 DEF WriterInv, QueueInv
<1>7. RowsInv'
  BY <1>1, <1>2, <1>3, <1>4 DEF WriterInv, RowsInv, FinalAt
<1> QED BY <1>5, <1>6, <1>7 DEF WriterInv

LEMMA StartKeeps == ASSUME Panels!PanelsAssumption, WriterInv, Panels!StartSampler PROVE WriterInv'
<1> USE DEF Panels!StartSampler, Panels!readers, Panels!ActiveTasks
<1>1. PICK t \in Tasks : state[t] = "active" /\ checkpoint' = [pt |-> Panels!Empty(t), rowId |-> 0] /\ sampler' = [up |-> TRUE, acc |-> Panels!Empty(t), pend |-> None]
  OBVIOUS
<1>2. Panels!Empty(t) \in Panels!Result /\ Panels!Empty(t).task = t
  BY EmptyResult
<1>3. WriterTypes'
  BY <1>1, <1>2 DEF WriterInv, WriterTypes
<1>4. QueueInv'
  <2>1. checkpoint' # None /\ checkpoint'.pt.task = t /\ sampler'.acc.task = t /\ sampler'.pend = None /\ closing' = "no"
    BY <1>1, <1>2, NoneApart
  <2> QED BY <1>1, <2>1 DEF WriterInv, QueueInv
<1>5. \A r \in rows : r.pt.task # t /\ r.id > 0
  BY <1>1 DEF WriterInv, RowsInv, WriterTypes, Rows
<1>6. RowsInv'
  BY <1>1, <1>2, <1>5 DEF WriterInv, RowsInv, WriterTypes, Rows
<1> QED BY <1>3, <1>4, <1>6 DEF WriterInv

LEMMA Later ==
  ASSUME NEW p \in Panels!Result, NEW e \in Nat
  PROVE  [p EXCEPT !.n = @ + 1, !.era = e] \in Panels!Result
<1>1. p.n + 1 \in Nat
  BY DEF Panels!Result
<1>2. [p EXCEPT !.n = p.n + 1] \in Panels!Result
  BY <1>1 DEF Panels!Result
<1>3. [[p EXCEPT !.n = p.n + 1] EXCEPT !.era = e] \in Panels!Result
  BY <1>2 DEF Panels!Result
<1> QED BY <1>3

LEMMA IngestKeeps == ASSUME Panels!PanelsAssumption, WriterInv, Panels!Ingest PROVE WriterInv'
<1> USE DEF Panels!Ingest, Panels!readers, Panels!ActiveTasks
<1> DEFINE acc == sampler.acc
<1>1. PICK t \in Tasks : state[t] = "active" /\ sampler' = [sampler EXCEPT !.acc.n = @ + 1, !.acc.era = era[t]]
  OBVIOUS
<1>2. acc \in Panels!Result /\ era[t] \in Nat /\ sampler.pend \in Panels!Result \cup {None} /\ sampler \in [up : BOOLEAN, acc : Panels!Result, pend : Panels!Result \cup {None}]
  BY DEF WriterInv, WriterTypes
<1> DEFINE next == [acc EXCEPT !.n = @ + 1, !.era = era[t]]
<1>a. next \in Panels!Result
  <2>1. acc \in Panels!Result /\ era[t] \in Nat
    BY <1>2
  <2> QED BY <2>1, Later
<1>b. sampler' = [sampler EXCEPT !.acc = next]
  BY <1>1
<1>3. /\ sampler'.acc = next /\ sampler'.pend = sampler.pend
      /\ sampler' \in [up : BOOLEAN, acc : Panels!Result, pend : Panels!Result \cup {None}]
  <2> HIDE DEF next
  <2> QED BY <1>2, <1>a, <1>b
<1>4. sampler'.up = sampler.up
  BY <1>1, <1>2
<1>5. sampler'.acc.task = acc.task /\ sampler'.acc.n = acc.n + 1 /\ acc.n \in Nat
  BY <1>2, <1>3 DEF Panels!Result
<1>6. \A p : AtMost(p, acc) /\ p \in Panels!Result => AtMost(p, sampler'.acc)
  BY <1>5 DEF AtMost, Panels!Result
<1>7. WriterTypes'
  BY <1>3 DEF WriterInv, WriterTypes
<1>8. QueueInv'
  BY <1>2, <1>3, <1>4, <1>5, <1>6 DEF WriterInv, QueueInv
<1>9. RowsInv'
  BY <1>2, <1>3, <1>4, <1>5, <1>6 DEF WriterInv, RowsInv, WriterTypes, Rows
<1> QED BY <1>7, <1>8, <1>9 DEF WriterInv

LEMMA FlushKeeps == ASSUME Panels!PanelsAssumption, WriterInv, Panels!StartFlush PROVE WriterInv'
<1> USE DEF Panels!StartFlush, Panels!readers, Panels!ActiveTasks
<1> DEFINE acc == sampler.acc
<1>1. PICK t \in Tasks : state[t] = "active" /\ (\A r \in Panels!RowsOf(t) : r.pt.n < acc.n) /\ sampler' = [sampler EXCEPT !.pend = acc]
  OBVIOUS
<1>2. acc \in Panels!Result /\ sampler.pend = None /\ sampler \in [up : BOOLEAN, acc : Panels!Result, pend : Panels!Result \cup {None}]
  BY DEF WriterInv, WriterTypes
<1>3. sampler'.acc = acc /\ sampler'.pend = acc /\ sampler' \in [up : BOOLEAN, acc : Panels!Result, pend : Panels!Result \cup {None}]
  BY <1>1, <1>2
<1>4. sampler'.up = sampler.up
  BY <1>1, <1>2
<1>5. AtMost(acc, acc)
  BY <1>2 DEF AtMost, Panels!Result
<1>7. WriterTypes'
  BY <1>3 DEF WriterInv, WriterTypes
<1>8. QueueInv'
  BY <1>2, <1>3, <1>4, <1>5 DEF WriterInv, QueueInv
<1>9. RowsInv'
  BY <1>2, <1>3, <1>4 DEF WriterInv, RowsInv
<1> QED BY <1>7, <1>8, <1>9 DEF WriterInv

\* A saved accumulator becomes the newest row of its task.
LEMMA SaveDoes ==
  ASSUME WriterInv, NEW pt \in Panels!Result, Panels!Save(pt), \A r \in rows : r.pt.task = pt.task => AtMost(r.pt, pt)
  PROVE  /\ rows' \subseteq Rows /\ IsFiniteSet(rows') /\ nextId' \in Nat \ {0} /\ live' = pt
         /\ \A r \in rows' : r.id < nextId'
         /\ \A r, q \in rows' : r.id = q.id => r = q
         /\ \A r, q \in rows' : r.pt.task = q.pt.task /\ r.id <= q.id => AtMost(r.pt, q.pt)
         /\ \A r \in rows' : r.pt.task = pt.task => AtMost(r.pt, pt)
         /\ \A r \in rows' : r \in rows \/ (r.id = nextId /\ r.pt = pt)
         /\ FinalAt(rows', pt.task, pt)
         /\ rows \subseteq rows' /\ nextId' = nextId + 1
         /\ \A t, p : t # pt.task /\ FinalAt(rows, t, p) => FinalAt(rows', t, p)
<1> DEFINE new == [id |-> nextId, pt |-> pt]
<1>1. rows \subseteq Rows /\ IsFiniteSet(rows) /\ nextId \in Nat \ {0}
  BY DEF WriterInv, WriterTypes
<1>2. rows' = rows \cup {new} /\ nextId' = nextId + 1 /\ live' = pt /\ new \in Rows /\ new.id = nextId /\ new.pt = pt
  BY <1>1 DEF Panels!Save, Rows
<1> HIDE DEF new
<1>3. \A r \in rows : r.id < nextId /\ r.id \in Nat /\ r.pt \in Panels!Result
  BY <1>1 DEF WriterInv, RowsInv, Rows
<1>4. AtMost(pt, pt)
  BY DEF AtMost, Panels!Result
<1>5. IsFiniteSet(rows')
  BY <1>1, <1>2, FS_AddElement
<1>6. \A r \in rows' : r \in rows \/ r = new
  BY <1>2
<1>7. /\ \A r \in rows' : r.id < nextId'
      /\ \A r, q \in rows' : r.id = q.id => r = q
  BY <1>1, <1>2, <1>3, <1>6 DEF WriterInv, RowsInv
<1>8. \A r, q \in rows' : r.pt.task = q.pt.task /\ r.id <= q.id => AtMost(r.pt, q.pt)
  BY <1>1, <1>2, <1>3, <1>4, <1>6 DEF WriterInv, RowsInv
<1>9. \A r \in rows' : r.pt.task = pt.task => AtMost(r.pt, pt)
  BY <1>2, <1>4, <1>6
<1>10. FinalAt(rows', pt.task, pt)
  BY <1>1, <1>2, <1>3, <1>6 DEF FinalAt
<1>11. ASSUME NEW t, NEW p, t # pt.task, FinalAt(rows, t, p) PROVE FinalAt(rows', t, p)
  BY <1>2, <1>6, <1>11 DEF FinalAt
<1>12. rows' \subseteq Rows /\ nextId' \in Nat \ {0}
  BY <1>1, <1>2
<1> QED BY <1>2, <1>5, <1>6, <1>7, <1>8, <1>9, <1>10, <1>11, <1>12

LEMMA LandKeeps == ASSUME Panels!PanelsAssumption, WriterInv, Panels!LandFlush PROVE WriterInv'
<1> USE DEF Panels!LandFlush, Panels!readers
<1> DEFINE p == sampler.pend
<1>1. /\ p # None /\ p \in Panels!Result /\ Panels!Save(p) /\ \A r \in rows : r.pt.task = p.task => AtMost(r.pt, p)
      /\ sampler \in [up : BOOLEAN, acc : Panels!Result, pend : Panels!Result \cup {None}] /\ sampler' = [sampler EXCEPT !.pend = None]
      /\ UNCHANGED <<state, era, stage, checkpoint, measured, closing>>
  BY DEF WriterInv, WriterTypes, RowsInv
<1>2. /\ rows' \subseteq Rows /\ IsFiniteSet(rows') /\ nextId' \in Nat \ {0} /\ live' = p
      /\ \A r \in rows' : r.id < nextId'
      /\ \A r, q \in rows' : r.id = q.id => r = q
      /\ \A r, q \in rows' : r.pt.task = q.pt.task /\ r.id <= q.id => AtMost(r.pt, q.pt)
      /\ \A r \in rows' : r.pt.task = p.task => AtMost(r.pt, p)
      /\ \A r \in rows' : r \in rows \/ (r.id = nextId /\ r.pt = p)
      /\ nextId' = nextId + 1
      /\ \A t, q : t # p.task /\ FinalAt(rows, t, q) => FinalAt(rows', t, q)
  BY <1>1, SaveDoes
<1>3. sampler' \in [up : BOOLEAN, acc : Panels!Result, pend : Panels!Result \cup {None}] /\ sampler'.acc = sampler.acc /\ sampler'.pend = None
  BY <1>1
<1>4. sampler'.up = sampler.up
  BY <1>1
<1>5. closing = "no" /\ p.task \in Tasks /\ state[p.task] \in {"active", "failed"}
  BY <1>1 DEF WriterInv, QueueInv, WriterTypes, Panels!Result
<1>6. WriterTypes'
  BY <1>1, <1>2, <1>3 DEF WriterInv, WriterTypes
<1>7. QueueInv'
  <2>1. \A t \in Tasks : state[t] # "pending" => t <= p.task
    <3>1. ASSUME NEW t \in Tasks, state[t] # "pending", p.task < t PROVE FALSE
      BY <1>5, <3>1 DEF WriterInv, QueueInv
    <3> QED BY <1>5, <3>1, TasksNat
  <2> QED BY <1>1, <1>2, <1>3, <1>4, <1>5, <2>1 DEF WriterInv, QueueInv
<1>8. RowsInv'
  <2>1. nextId \in Nat /\ rows \subseteq Rows
    BY DEF WriterInv, WriterTypes
  <2>2. sampler.up => \A r \in rows' : r.pt.task = sampler.acc.task => AtMost(r.pt, sampler.acc)
    BY <1>1, <1>2 DEF WriterInv, QueueInv, RowsInv
  <2>3. checkpoint # None => /\ checkpoint.rowId < nextId'
                             /\ \A r \in rows' : r.pt.task = checkpoint.pt.task /\ r.id <= checkpoint.rowId => AtMost(r.pt, checkpoint.pt)
    <3>1. checkpoint # None => checkpoint.rowId \in Nat
      BY DEF WriterInv, WriterTypes
    <3> QED BY <1>2, <2>1, <3>1 DEF WriterInv, RowsInv
  <2>4. \A r \in rows' : state[r.pt.task] # "pending" /\ (state[r.pt.task] = "active" => checkpoint # None)
    <3>1. state[p.task] = "active" => checkpoint # None
      BY <1>1, <1>5 DEF WriterInv, QueueInv, RowsInv
    <3> QED BY <1>2, <1>5, <3>1 DEF WriterInv, RowsInv
  <2>5. \A t \in Tasks : state[t] = "completed" => FinalAt(rows', t, stage[t])
    BY <1>2, <1>5 DEF WriterInv, RowsInv
  <2> QED BY <1>1, <1>2, <1>3, <1>4, <1>5, <2>2, <2>3, <2>4, <2>5 DEF RowsInv
<1> QED BY <1>6, <1>7, <1>8 DEF WriterInv

\* What persist_state writes, whether the sampler pauses or completes its task.
LEMMA PersistDoes ==
  ASSUME Panels!PanelsAssumption, WriterInv, NEW t \in Tasks, state[t] = "active", NEW next, Panels!PersistState(t, next)
  PROVE  /\ t = sampler.acc.task /\ sampler.acc \in Panels!Result /\ sampler.up /\ sampler.pend = None /\ live' = sampler.acc
         /\ rows' \subseteq Rows /\ IsFiniteSet(rows') /\ nextId' \in Nat \ {0}
         /\ \A r \in rows' : r.id < nextId'
         /\ \A r, q \in rows' : r.id = q.id => r = q
         /\ \A r, q \in rows' : r.pt.task = q.pt.task /\ r.id <= q.id => AtMost(r.pt, q.pt)
         /\ \A r \in rows' : r.pt.task = t => AtMost(r.pt, sampler.acc)
         /\ \A r \in rows' : state[r.pt.task] # "pending"
         /\ FinalAt(rows', t, sampler.acc)
         /\ \A s \in Tasks : state[s] = "completed" => FinalAt(rows', s, stage'[s])
         /\ checkpoint' = [pt |-> sampler.acc, rowId |-> nextId] /\ checkpoint' \in [pt : Panels!Result, rowId : Nat]
         /\ checkpoint'.rowId < nextId' /\ checkpoint' # None /\ checkpoint'.pt = sampler.acc
         /\ stage' \in [Tasks -> Panels!Result \cup {None}] /\ stage'[t] = sampler.acc
         /\ \A s \in Tasks : s # t => stage'[s] = stage[s]
         /\ \A s \in Tasks : state[s] # "pending" => s <= t
<1> DEFINE p == sampler.acc
<1>1. /\ p \in Panels!Result /\ sampler.up /\ sampler.pend = None /\ Panels!Save(p) /\ p.task \in Tasks
      /\ stage' = [stage EXCEPT ![t] = p] /\ checkpoint' = [pt |-> p, rowId |-> nextId]
      /\ state \in [Tasks -> States] /\ stage \in [Tasks -> Panels!Result \cup {None}] /\ nextId \in Nat
  BY DEF Panels!PersistState, WriterInv, WriterTypes, Panels!Result
<1>2. Tasks \subseteq Nat
  BY TasksNat
<1>3. \A s \in Tasks : state[s] # "pending" => s <= t
  <2>1. ASSUME NEW s \in Tasks, state[s] # "pending", t < s PROVE FALSE
    BY <2>1 DEF WriterInv, QueueInv
  <2> QED BY <2>1, <1>2
<1>4. t = p.task
  <2>1. state[p.task] = "active"
    BY <1>1 DEF WriterInv, QueueInv
  <2>2. ~(p.task < t)
    BY <1>1, <2>1 DEF WriterInv, QueueInv
  <2>3. p.task <= t
    BY <1>1, <1>3, <2>1
  <2>4. p.task \in Nat /\ t \in Nat
    BY <1>1, <1>2
  <2> QED BY <2>2, <2>3, <2>4
<1>5. \A r \in rows : r.pt.task = p.task => AtMost(r.pt, p)
  BY <1>1 DEF WriterInv, RowsInv
<1>6. /\ rows' \subseteq Rows /\ IsFiniteSet(rows') /\ nextId' \in Nat \ {0} /\ live' = p
      /\ \A r \in rows' : r.id < nextId'
      /\ \A r, q \in rows' : r.id = q.id => r = q
      /\ \A r, q \in rows' : r.pt.task = q.pt.task /\ r.id <= q.id => AtMost(r.pt, q.pt)
      /\ \A r \in rows' : r.pt.task = p.task => AtMost(r.pt, p)
      /\ \A r \in rows' : r \in rows \/ (r.id = nextId /\ r.pt = p)
      /\ FinalAt(rows', p.task, p) /\ nextId' = nextId + 1
      /\ \A s, q : s # p.task /\ FinalAt(rows, s, q) => FinalAt(rows', s, q)
  BY <1>1, <1>5, SaveDoes
<1>7. \A r \in rows' : state[r.pt.task] # "pending"
  BY <1>4, <1>6 DEF WriterInv, RowsInv
<1>8. stage' \in [Tasks -> Panels!Result \cup {None}] /\ stage'[t] = p /\ \A s \in Tasks : s # t => stage'[s] = stage[s]
  BY <1>1
<1>9. \A s \in Tasks : state[s] = "completed" => FinalAt(rows', s, stage'[s])
  BY <1>4, <1>6, <1>8 DEF WriterInv, RowsInv
<1>10. checkpoint' \in [pt : Panels!Result, rowId : Nat] /\ checkpoint' # None /\ checkpoint'.rowId < nextId' /\ checkpoint'.pt = p
  BY <1>1, <1>6, NoneApart
<1> QED BY <1>1, <1>3, <1>4, <1>6, <1>7, <1>8, <1>9, <1>10

LEMMA PersistKeeps == ASSUME Panels!PanelsAssumption, WriterInv, Panels!Pause \/ Panels!CompleteSave PROVE WriterInv'
<1>1. PICK t \in Tasks : state[t] = "active" /\ (Panels!PersistState(t, "no") \/ Panels!PersistState(t, "saved"))
  BY DEF Panels!Pause, Panels!CompleteSave, Panels!CloseOnce, Panels!ActiveTasks
<1> DEFINE p == sampler.acc
<1>2. /\ t = p.task /\ p \in Panels!Result /\ sampler.up /\ sampler.pend = None /\ live' = p
      /\ rows' \subseteq Rows /\ IsFiniteSet(rows') /\ nextId' \in Nat \ {0}
      /\ \A r \in rows' : r.id < nextId'
      /\ \A r, q \in rows' : r.id = q.id => r = q
      /\ \A r, q \in rows' : r.pt.task = q.pt.task /\ r.id <= q.id => AtMost(r.pt, q.pt)
      /\ \A r \in rows' : r.pt.task = t => AtMost(r.pt, p)
      /\ \A r \in rows' : state[r.pt.task] # "pending"
      /\ FinalAt(rows', t, p)
      /\ \A s \in Tasks : state[s] = "completed" => FinalAt(rows', s, stage'[s])
      /\ checkpoint' \in [pt : Panels!Result, rowId : Nat]
      /\ checkpoint'.rowId < nextId' /\ checkpoint' # None /\ checkpoint'.pt = p
      /\ stage' \in [Tasks -> Panels!Result \cup {None}] /\ stage'[t] = p
      /\ \A s \in Tasks : s # t => stage'[s] = stage[s]
      /\ \A s \in Tasks : state[s] # "pending" => s <= t
  BY <1>1, PersistDoes
<1>3. /\ state' = state /\ era' = era /\ measured' = measured
      /\ closing' \in {"no", "saved"}
      /\ sampler \in [up : BOOLEAN, acc : Panels!Result, pend : Panels!Result \cup {None}]
      /\ (closing' # "no" => sampler' = sampler)
      /\ (sampler' = sampler \/ sampler' = [sampler EXCEPT !.up = FALSE])
  BY DEF Panels!Pause, Panels!CompleteSave, Panels!CloseOnce, Panels!PersistState, Panels!readers,
       WriterInv, WriterTypes
<1>4. sampler'.acc = p /\ sampler'.pend = None /\ sampler' \in [up : BOOLEAN, acc : Panels!Result, pend : Panels!Result \cup {None}]
  BY <1>2, <1>3
<1>5. closing' # "no" => sampler'.up
  BY <1>2, <1>3
<1>6. WriterTypes'
  BY <1>2, <1>3, <1>4 DEF WriterInv, WriterTypes
<1>7. QueueInv'
  BY <1>1, <1>2, <1>3, <1>4, <1>5 DEF WriterInv, QueueInv
<1>8. RowsInv'
  BY <1>1, <1>2, <1>3, <1>4, <1>5 DEF RowsInv
<1> QED BY <1>6, <1>7, <1>8 DEF WriterInv

LEMMA MeasureKeeps == ASSUME Panels!PanelsAssumption, WriterInv, Panels!CompleteMeasure PROVE WriterInv'
<1> USE DEF Panels!CompleteMeasure, Panels!readers, Panels!ActiveTasks
<1>1. PICK t \in Tasks : state[t] = "active" /\ measured' = [measured EXCEPT ![t] = Panels!MeasurementAccumulator(t, "active", live)]
  OBVIOUS
<1>2. sampler.acc \in Panels!Result /\ sampler.acc.task \in Tasks /\ sampler.up /\ live = sampler.acc /\ state[sampler.acc.task] = "active"
      /\ stage[sampler.acc.task] = sampler.acc
  BY DEF WriterInv, WriterTypes, QueueInv, Panels!Result
<1>3. t = sampler.acc.task
  <2>1. ~(t < sampler.acc.task) /\ ~(sampler.acc.task < t)
    BY <1>1, <1>2 DEF WriterInv, QueueInv
  <2> QED BY <1>2, <2>1, TasksNat
<1>4. measured' = [measured EXCEPT ![t] = sampler.acc]
  BY <1>1, <1>2, <1>3 DEF Panels!MeasurementAccumulator
<1>5. WriterTypes'
  BY <1>2, <1>4 DEF WriterInv, WriterTypes
<1>6. QueueInv'
  BY <1>1, <1>2, <1>3, <1>4 DEF WriterInv, QueueInv, WriterTypes
<1>7. RowsInv'
  BY DEF WriterInv, RowsInv
<1> QED BY <1>5, <1>6, <1>7 DEF WriterInv

LEMMA CompleteKeeps == ASSUME Panels!PanelsAssumption, WriterInv, Panels!CompleteTask PROVE WriterInv'
<1> USE DEF Panels!CompleteTask, Panels!readers, Panels!ActiveTasks
<1>1. PICK t \in Tasks : state[t] = "active" /\ state' = [state EXCEPT ![t] = "completed"]
  OBVIOUS
<1>2. /\ sampler.acc \in Panels!Result /\ sampler.acc.task \in Tasks /\ sampler.up /\ live = sampler.acc /\ state[sampler.acc.task] = "active"
      /\ stage[sampler.acc.task] = sampler.acc /\ measured[sampler.acc.task] = sampler.acc /\ sampler.pend = None
      /\ FinalAt(rows, sampler.acc.task, sampler.acc) /\ checkpoint # None
      /\ state \in [Tasks -> States] /\ sampler \in [up : BOOLEAN, acc : Panels!Result, pend : Panels!Result \cup {None}]
  BY DEF WriterInv, WriterTypes, QueueInv, RowsInv, Panels!Result
<1>3. t = sampler.acc.task
  <2>1. ~(t < sampler.acc.task) /\ ~(sampler.acc.task < t)
    BY <1>1, <1>2 DEF WriterInv, QueueInv
  <2> QED BY <1>2, <2>1, TasksNat
<1>4. sampler' \in [up : BOOLEAN, acc : Panels!Result, pend : Panels!Result \cup {None}] /\ sampler'.pend = None /\ sampler'.acc = sampler.acc
  BY <1>2
<1>5. ~sampler'.up
  BY <1>2
<1>6. \A s \in Tasks : s # t => state'[s] = state[s] /\ state[s] # "active"
  <2>1. ASSUME NEW s \in Tasks, s # t, state[s] = "active" PROVE FALSE
    <3>1. ~(s < t) /\ ~(t < s)
      BY <1>1, <2>1 DEF WriterInv, QueueInv
    <3> QED BY <2>1, <3>1, TasksNat
  <2> QED BY <1>1, <1>2, <2>1
<1>7. state'[t] = "completed"
  BY <1>1, <1>2
<1>8. WriterTypes'
  BY <1>1, <1>2, <1>4 DEF WriterInv, WriterTypes, States
<1>9. QueueInv'
  BY <1>1, <1>2, <1>3, <1>4, <1>5, <1>6, <1>7 DEF WriterInv, QueueInv
<1>10. RowsInv'
  <2>1. \A r \in rows : r.pt.task \in Tasks
    BY DEF WriterInv, WriterTypes, Rows, Panels!Result
  <2> QED BY <1>1, <1>2, <1>3, <1>4, <1>5, <1>6, <1>7, <2>1 DEF WriterInv, RowsInv
<1> QED BY <1>8, <1>9, <1>10 DEF WriterInv

LEMMA FailKeeps == ASSUME Panels!PanelsAssumption, WriterInv, Panels!FailTask PROVE WriterInv'
<1> USE DEF Panels!FailTask, Panels!readers, Panels!ActiveTasks
<1>1. PICK t \in Tasks : state[t] = "active" /\ state' = [state EXCEPT ![t] = "failed"]
  OBVIOUS
<1>2. state \in [Tasks -> States] /\ sampler \in [up : BOOLEAN, acc : Panels!Result, pend : Panels!Result \cup {None}]
  BY DEF WriterInv, WriterTypes
<1>3. sampler' \in [up : BOOLEAN, acc : Panels!Result, pend : Panels!Result \cup {None}] /\ sampler'.pend = sampler.pend /\ sampler'.acc = sampler.acc
  BY <1>2
<1>4. ~sampler'.up
  BY <1>2
<1>5. \A s \in Tasks : s # t => state'[s] = state[s]
  BY <1>1, <1>2
<1>6. state'[t] = "failed"
  BY <1>1, <1>2
<1>7. WriterTypes'
  BY <1>1, <1>2, <1>3 DEF WriterInv, WriterTypes, States
<1>8. QueueInv'
  <2>1. \A s \in Tasks : state'[s] = "completed" <=> state[s] = "completed"
    BY <1>1, <1>5, <1>6
  <2>2. \A s \in Tasks : state'[s] # "pending" <=> state[s] # "pending"
    BY <1>1, <1>5, <1>6
  <2>3. \A s \in Tasks : state[s] \in {"active", "failed"} => state'[s] \in {"active", "failed"}
    BY <1>1, <1>5, <1>6
  <2>4. (sampler.pend # None => sampler.pend.task \in Tasks) /\ (checkpoint # None => checkpoint.pt.task \in Tasks)
    BY DEF WriterInv, WriterTypes, Panels!Result
  <2> QED BY <1>3, <1>4, <2>1, <2>2, <2>3, <2>4 DEF WriterInv, QueueInv
<1>9. RowsInv'
  <2>1. \A r \in rows : r.pt.task \in Tasks
    BY DEF WriterInv, WriterTypes, Rows, Panels!Result
  <2> QED BY <1>1, <1>2, <1>3, <1>4, <1>5, <1>6, <2>1 DEF WriterInv, RowsInv
<1> QED BY <1>7, <1>8, <1>9 DEF WriterInv

LEMMA CrashKeeps == ASSUME Panels!PanelsAssumption, WriterInv, Panels!Crash PROVE WriterInv'
<1> USE DEF Panels!Crash, Panels!readers
<1>1. sampler \in [up : BOOLEAN, acc : Panels!Result, pend : Panels!Result \cup {None}]
  BY DEF WriterInv, WriterTypes
<1>2. sampler' \in [up : BOOLEAN, acc : Panels!Result, pend : Panels!Result \cup {None}] /\ sampler'.pend = None /\ sampler'.acc = sampler.acc
  BY <1>1
<1>3. ~sampler'.up
  BY <1>1
<1>4. WriterTypes'
  BY <1>2 DEF WriterInv, WriterTypes
<1>5. QueueInv'
  BY <1>2, <1>3 DEF WriterInv, QueueInv
<1>6. RowsInv'
  BY <1>2, <1>3 DEF WriterInv, RowsInv
<1> QED BY <1>4, <1>5, <1>6 DEF WriterInv

LEMMA RestoreKeeps == ASSUME Panels!PanelsAssumption, WriterInv, Panels!Restore PROVE WriterInv'
<1> USE DEF Panels!Restore, Panels!readers, Panels!ActiveTasks
<1> DEFINE p == checkpoint.pt
<1>1. PICK t \in Tasks :
        /\ state[t] = "active" /\ p.task = t
        /\ rows' = {r \in rows : r.pt.task = t => r.id <= checkpoint.rowId}
        /\ era' = [era EXCEPT ![t] = @ + 1]
  OBVIOUS
<1>2. p \in Panels!Result /\ era \in [Tasks -> Nat] /\ rows \subseteq Rows /\ IsFiniteSet(rows) /\ closing = "no" /\ checkpoint # None
  BY DEF WriterInv, WriterTypes, QueueInv
<1>3. rows' \subseteq rows /\ IsFiniteSet(rows')
  BY <1>1, <1>2, FS_Subset
<1>4. live' = p /\ sampler' = [up |-> TRUE, acc |-> p, pend |-> None] /\ UNCHANGED <<state, nextId, stage, checkpoint, measured, closing>>
  OBVIOUS
<1>5. \A r \in rows' : r.pt.task = t => AtMost(r.pt, p)
  BY <1>1, <1>2 DEF WriterInv, RowsInv
<1>6. WriterTypes'
  BY <1>2, <1>3, <1>4 DEF WriterInv, WriterTypes
<1>7. QueueInv'
  <2>1. \A s \in Tasks : state[s] # "pending" => s <= t
    <3>1. ASSUME NEW s \in Tasks, state[s] # "pending", t < s PROVE FALSE
      BY <1>1, <3>1 DEF WriterInv, QueueInv
    <3> QED BY <3>1, TasksNat
  <2> QED BY <1>1, <1>2, <1>4, <2>1 DEF WriterInv, QueueInv
<1>8. RowsInv'
  <2>1. ASSUME NEW s \in Tasks, state[s] = "completed" PROVE FinalAt(rows', s, stage[s])
    <3>1. PICK r \in rows : r.pt = stage[s] /\ stage[s].task = s /\ \A q \in rows : q.pt.task = s => q.id <= r.id
      BY <2>1 DEF WriterInv, RowsInv, FinalAt
    <3>2. s # t /\ r \in rows'
      BY <1>1, <2>1, <3>1
    <3> QED BY <1>3, <3>1, <3>2 DEF FinalAt
  <2> QED BY <1>1, <1>2, <1>3, <1>4, <1>5, <2>1 DEF WriterInv, RowsInv
<1> QED BY <1>6, <1>7, <1>8 DEF WriterInv

LEMMA WriterInit == ASSUME Panels!PanelsAssumption, Panels!Init PROVE WriterInv
<1>1. WriterTypes
  <2>1. Viewable \subseteq Tasks /\ Tasks # {}
    BY DEF Panels!Init, Panels!PanelsAssumption
  <2>2. Panels!Empty(1) \in Panels!Result
    BY <2>1, TasksNat, EmptyResult
  <2> QED BY <2>2, FS_EmptySet DEF Panels!Init, WriterTypes, States
<1>2. QueueInv
  BY DEF Panels!Init, QueueInv
<1>3. RowsInv
  BY DEF Panels!Init, RowsInv
<1> QED BY <1>1, <1>2, <1>3 DEF WriterInv

LEMMA WriterStep == ASSUME Panels!PanelsAssumption, WriterInv, [Panels!Next]_Panels!vars PROVE WriterInv'
<1>1. CASE Panels!SamplerStep \/ Panels!Recovery
  BY <1>1, ActivateKeeps, StartKeeps, IngestKeeps, FlushKeeps, LandKeeps, PersistKeeps,
       MeasureKeeps, CompleteKeeps,
     FailKeeps, CrashKeeps, RestoreKeeps DEF Panels!SamplerStep, Panels!Recovery
<1>2. CASE Panels!PanelStep \/ Panels!ResponseLost \/ Panels!ChildStep \/ Panels!vars' = Panels!vars
  <2>1. state' = state /\ Panels!samplerVars' = Panels!samplerVars
    BY <1>2 DEF Panels!PanelStep, Panels!ResponseLost, Panels!ChildStep, Panels!Poll,
         Panels!ReadLatest, Panels!ReadStage, Panels!ReadLive, Panels!Respond,
         Panels!RespondMismatch,
                Panels!ChildReadTask, Panels!ChildReadResult, Panels!vars, Panels!samplerVars
  <2> QED BY <2>1 DEF Panels!samplerVars, WriterInv, WriterTypes, QueueInv, RowsInv
<1> QED BY <1>1, <1>2 DEF Panels!Next

-----------------------------------------------------------------------------
\* What a request, the browser and a controller hold.
ReaderTypes ==
  /\ viewed \in Tasks
  /\ req \in [pc : {"idle", "latest", "stage", "live", "history"}, state : States, latest : Rows \cup {None},
              stage : Panels!Result \cup {None}, live : Panels!Result \cup {None}]
  /\ child \in [pc : {"idle", "task"}, task : Tasks, state : States, acc : Panels!Result \cup {None}]
  /\ client.points \subseteq Panels!Result /\ \A p, q \in client.points : p.n = q.n => p = q

\* A controller asks only for tasks that have begun.
ChildInv ==
  /\ child.pc = "task" => state[child.task] # "pending" /\ child.acc = None
  /\ Panels!FreshStage

\* What a request has read is about the task it shows.
RequestInv ==
  /\ req.latest # None => req.latest.pt.task = viewed
  /\ req.stage # None => req.stage.task = viewed
  /\ req.live # None => req.state = "active"

\* The final result is what the panels have.
FinalShown == stage[viewed] \in client.points /\ \A p \in Panels!Policies : client.shown[p] = stage[viewed]

\* A task that was read as done stays done, and whoever stopped polling has its final result.
StopInv ==
  /\ req.pc # "idle" /\ req.state \in {"completed", "failed"} => state[viewed] = req.state
  /\ req.pc \in {"stage", "live", "history"} /\ req.state = "completed" => req.latest # None /\ req.latest.pt = stage[viewed]
  /\ req.pc \in {"live", "history"} /\ req.state = "completed" => req.stage = stage[viewed]
  /\ ~client.polling => /\ req.pc = "idle" /\ state[viewed] \in {"completed", "failed"}
                        /\ state[viewed] = "completed" => FinalShown

ReaderInv == ReaderTypes /\ ChildInv /\ RequestInv /\ StopInv

\* What happens to a task that has left the queue: nothing.
LEMMA Settled ==
  ASSUME Panels!PanelsAssumption, WriterInv, Panels!SamplerStep \/ Panels!Recovery, NEW t \in Tasks
  PROVE  /\ state[t] \in {"completed", "failed"} => state'[t] = state[t]
         /\ state[t] = "completed" => stage'[t] = stage[t]
         /\ state[t] # "pending" => state'[t] # "pending"
<1>1. state \in [Tasks -> States]
  BY DEF WriterInv, WriterTypes
<1>2. CASE Panels!Activate
  BY <1>1, <1>2 DEF Panels!Activate
<1>3. CASE Panels!Pause \/ Panels!CompleteSave
  <2>1. PICK s \in Tasks : state[s] = "active" /\ (Panels!PersistState(s, "no") \/ Panels!PersistState(s, "saved")) /\ state' = state
    BY <1>3 DEF Panels!Pause, Panels!CompleteSave, Panels!CloseOnce, Panels!ActiveTasks,
         Panels!readers
  <2>2. \A u \in Tasks : u # s => stage'[u] = stage[u]
    BY <2>1, PersistDoes
  <2> QED BY <2>1, <2>2
<1>4. CASE Panels!CompleteTask \/ Panels!FailTask
  BY <1>1, <1>4 DEF Panels!CompleteTask, Panels!FailTask, Panels!ActiveTasks
<1>5. CASE Panels!StartSampler \/ Panels!Ingest \/ Panels!StartFlush \/ Panels!LandFlush \/ Panels!CompleteMeasure \/ Panels!Recovery
  <2>1. state' = state /\ stage' = stage
    BY <1>5 DEF Panels!StartSampler, Panels!Ingest, Panels!StartFlush, Panels!LandFlush,
         Panels!CompleteMeasure, Panels!Recovery, Panels!Crash, Panels!Restore
  <2> QED BY <2>1
<1> QED BY <1>2, <1>3, <1>4, <1>5 DEF Panels!SamplerStep

LEMMA WriterLeavesReaders ==
  ASSUME Panels!PanelsAssumption, WriterInv, ReaderInv, Panels!SamplerStep \/ Panels!Recovery
  PROVE  ReaderInv'
<1>1. UNCHANGED <<viewed, req, client, child>>
  BY DEF Panels!SamplerStep, Panels!Recovery, Panels!Activate, Panels!StartSampler, Panels!Ingest,
       Panels!StartFlush, Panels!LandFlush, Panels!Pause, Panels!CompleteSave,
       Panels!CompleteMeasure,
         Panels!CompleteTask, Panels!FailTask, Panels!Crash, Panels!Restore, Panels!readers
<1>2. ReaderTypes'
  BY <1>1 DEF ReaderInv, ReaderTypes
<1>3. viewed \in Tasks /\ child.task \in Tasks
  BY DEF ReaderInv, ReaderTypes
<1>4. ChildInv'
  BY <1>1, <1>3, Settled DEF ReaderInv, ChildInv, Panels!FreshStage
<1>5. RequestInv'
  BY <1>1 DEF ReaderInv, RequestInv
<1>6. StopInv'
  <2>1. /\ state[viewed] \in {"completed", "failed"} => state'[viewed] = state[viewed]
        /\ state[viewed] = "completed" => stage'[viewed] = stage[viewed]
    BY <1>3, Settled
  <2>2. req.pc # "idle" /\ req.state = "completed" => state[viewed] = "completed"
    BY DEF ReaderInv, StopInv
  <2>3. ~client.polling /\ state'[viewed] = "completed" => state[viewed] = "completed" /\ FinalShown
    BY <2>1 DEF ReaderInv, StopInv
  <2>4. (~client.polling /\ state'[viewed] = "completed") => FinalShown'
    BY <1>1, <2>1, <2>3 DEF FinalShown
  <2> QED BY <1>1, <2>1, <2>2, <2>4 DEF ReaderInv, StopInv
<1> QED BY <1>2, <1>4, <1>5, <1>6 DEF ReaderInv

\* The newest snapshot of the task on view.
LEMMA LatestIsNewest ==
  ASSUME Panels!PanelsAssumption, WriterInv
  PROVE  LET R == Panels!TaskOutputSnapshots(None, 1) IN
         /\ Panels!Newest(R) \in Panels!RowsOf(viewed) \cup {None}
         /\ \A pt : FinalAt(rows, viewed, pt) => Panels!Newest(R) \in Panels!RowsOf(viewed) /\ Panels!Newest(R).pt = pt
<1> DEFINE R == Panels!TaskOutputSnapshots(None, 1)
           found == Panels!RowsOf(viewed)
           newer(r) == {q \in found : q.id > r.id}
<1>1. found \subseteq rows /\ IsFiniteSet(found) /\ \A r \in found : r \in Rows /\ r.pt.task = viewed
  BY FS_Subset DEF WriterInv, WriterTypes, Panels!RowsOf
<1>2. R = {r \in found : Cardinality(newer(r)) < 1}
  BY PanelsCardinality DEF Panels!TaskOutputSnapshots
<1>3. ASSUME NEW r \in found PROVE Cardinality(newer(r)) < 1 <=> newer(r) = {}
  <2>1. IsFiniteSet(newer(r))
    BY <1>1, FS_Subset
  <2>2. Cardinality(newer(r)) \in Nat /\ (Cardinality(newer(r)) = 0 <=> newer(r) = {})
    BY <2>1, FS_CardinalityType, FS_EmptySet
  <2> QED BY <2>2
<1> HIDE DEF found, R
<1>4. R \subseteq found /\ \A r \in R, q \in found : q.id <= r.id
  <2>1. R \subseteq found
    BY <1>2
  <2>2. ASSUME NEW r \in R, NEW q \in found PROVE q.id <= r.id
    <3>1. newer(r) = {} /\ r \in found
      BY <1>2, <1>3
    <3>2. q.id \in Nat /\ r.id \in Nat
      BY <1>1, <3>1 DEF Rows
    <3> QED BY <3>1, <3>2
  <2> QED BY <2>1, <2>2
<1>5. R # {} => Panels!Newest(R) \in R
  BY <1>4 DEF Panels!Newest
<1>6. R = {} => Panels!Newest(R) = None
  BY DEF Panels!Newest
<1>7. ASSUME NEW pt, FinalAt(rows, viewed, pt) PROVE Panels!Newest(R) \in found /\ Panels!Newest(R).pt = pt
  <2>1. PICK f \in rows : f.pt = pt /\ pt.task = viewed /\ \A q \in rows : q.pt.task = viewed => q.id <= f.id
    BY <1>7 DEF FinalAt
  <2>2. f \in found /\ \A q \in found : q.id <= f.id
    BY <1>1, <2>1 DEF found, Panels!RowsOf
  <2>3. newer(f) = {}
    <3>1. \A q \in found : q.id \in Nat /\ f.id \in Nat
      BY <1>1, <2>2 DEF Rows
    <3> QED BY <2>2, <3>1
  <2>4. f \in R
    BY <1>2, <1>3, <2>2, <2>3
  <2>5. Panels!Newest(R) \in R
    BY <1>5, <2>4
  <2>6. Panels!Newest(R).id <= f.id /\ f.id <= Panels!Newest(R).id /\ Panels!Newest(R) \in found
    BY <1>4, <2>2, <2>4, <2>5
  <2>7. Panels!Newest(R).id \in Nat /\ f.id \in Nat
    BY <1>1, <2>2, <2>6 DEF Rows
  <2>8. Panels!Newest(R) = f
    BY <1>1, <2>1, <2>6, <2>7 DEF WriterInv, RowsInv
  <2> QED BY <2>1, <2>6, <2>8
<1> QED BY <1>4, <1>5, <1>6, <1>7 DEF R, found

LEMMA CurrentIs ==
  ASSUME NEW policy
  PROVE  /\ Panels!CurrentSource(policy) # None =>
              \/ req.latest # None /\ Panels!CurrentSource(policy) = req.latest.pt
              \/ Panels!CurrentSource(policy) = req.stage
              \/ req.state = "active" /\ Panels!CurrentSource(policy) = req.live
         /\ req.state # "active" /\ req.latest # None /\ req.latest.pt = req.stage /\ req.stage # None
              => Panels!CurrentSource(policy) = req.stage
BY DEF Panels!CurrentSource

LEMMA DownsampleKeeps ==
  ASSUME NEW points, NEW level
  PROVE  /\ Panels!Downsample(points, level) \subseteq points
         /\ \A s \in points : (\A p \in points : p.n <= s.n) => s \in Panels!Downsample(points, level)
BY DEF Panels!Downsample, Panels!Kept, Panels!Last

\* The update a response carries, of rows of the task on view.
LEMMA UpdateOf ==
  ASSUME Panels!PanelsAssumption, WriterInv, ReaderInv, NEW now, NEW fetched, fetched \subseteq Panels!RowsOf(viewed), now \in Panels!Result \cup {None}
  PROVE  /\ Panels!HistoryUpdate(now, fetched) \subseteq Panels!Result
         /\ \A p, q \in Panels!HistoryUpdate(now, fetched) : p.n = q.n => p = q
         /\ \A p \in Panels!HistoryUpdate(now, fetched) : p = now \/ p.task = viewed
         /\ now # None /\ FinalAt(rows, viewed, now) =>
              now \in Panels!HistoryUpdate(now, fetched) /\ \A p \in Panels!HistoryUpdate(now, fetched) : p.n <= now.n
<1> DEFINE delta == Panels!SnapshotPoints(fetched)
           update == Panels!HistoryUpdate(now, fetched)
<1>1. fetched \subseteq rows /\ \A r \in fetched : r \in Rows /\ r.pt \in Panels!Result /\ r.pt.task = viewed
  BY DEF Panels!RowsOf, WriterInv, WriterTypes, Rows
<1>2. \A d \in delta : \E r \in fetched : d = r.pt
  BY DEF Panels!SnapshotPoints
<1>3. \A p, q \in delta : p.n = q.n => p = q
  <2>1. SUFFICES ASSUME NEW r \in fetched, NEW s \in fetched, r.pt.n = s.pt.n PROVE r.pt = s.pt
    BY <1>2
  <2>2. r.id <= s.id \/ s.id <= r.id
    BY <1>1 DEF Rows
  <2>3. AtMost(r.pt, s.pt) \/ AtMost(s.pt, r.pt)
    BY <1>1, <2>2 DEF WriterInv, RowsInv
  <2> QED BY <2>1, <2>3 DEF AtMost
<1>4. \A p \in update : p \in delta \/ (p = now /\ now # None /\ \A d \in delta : d.n # p.n)
  BY DEF Panels!HistoryUpdate, Panels!MergePoints
<1>5. update \subseteq Panels!Result
  BY <1>1, <1>2, <1>4
<1>6. \A p, q \in update : p.n = q.n => p = q
  BY <1>3, <1>4
<1>7. \A p \in update : p = now \/ p.task = viewed
  BY <1>1, <1>2, <1>4
<1>8. ASSUME now # None, FinalAt(rows, viewed, now)
      PROVE  now \in update /\ \A p \in update : p.n <= now.n
  <2>1. PICK f \in rows : f.pt = now /\ now.task = viewed /\ \A q \in rows : q.pt.task = viewed => q.id <= f.id
    BY <1>8 DEF FinalAt
  <2>2. \A d \in delta : AtMost(d, now)
    BY <1>1, <1>2, <2>1 DEF WriterInv, RowsInv
  <2>3. now \in Panels!Result
    BY <1>8
  <2>4. \A p \in update : p.n <= now.n
    BY <1>4, <2>2, <2>3 DEF AtMost, Panels!Result
  <2>5. now \in update
    <3>1. CASE \E d \in delta : d.n = now.n
      <4>1. now \in delta
        BY <2>2, <3>1 DEF AtMost
      <4> QED BY <4>1 DEF Panels!HistoryUpdate, Panels!MergePoints
    <3>2. CASE \A d \in delta : d.n # now.n
      BY <1>8, <3>2 DEF Panels!HistoryUpdate, Panels!MergePoints
    <3> QED BY <3>1, <3>2
  <2> QED BY <2>4, <2>5
<1> QED BY <1>5, <1>6, <1>7, <1>8

LEMMA PollKeeps == ASSUME Panels!PanelsAssumption, WriterInv, ReaderInv, Panels!Poll PROVE ReaderInv'
<1>1. /\ req' = [pc |-> "latest", state |-> state[viewed], latest |-> None, stage |-> None, live |-> None]
      /\ client.polling /\ UNCHANGED <<viewed, state, stage, client, child>>
  BY DEF Panels!Poll, Panels!Idle, Panels!samplerVars
<1>2. viewed \in Tasks /\ state[viewed] \in States
  BY DEF ReaderInv, ReaderTypes, WriterInv, WriterTypes
<1>3. ReaderTypes'
  BY <1>1, <1>2 DEF ReaderInv, ReaderTypes
<1>4. ChildInv'
  BY <1>1 DEF ReaderInv, ChildInv, Panels!FreshStage
<1>5. RequestInv'
  BY <1>1 DEF RequestInv
<1>6. StopInv'
  BY <1>1 DEF ReaderInv, StopInv, FinalShown
<1> QED BY <1>3, <1>4, <1>5, <1>6 DEF ReaderInv

LEMMA ReadLatestKeeps == ASSUME Panels!PanelsAssumption, WriterInv, ReaderInv, Panels!ReadLatest PROVE ReaderInv'
<1> DEFINE newest == Panels!Newest(Panels!TaskOutputSnapshots(None, 1))
<1>1. /\ req.pc = "latest" /\ req' = [req EXCEPT !.pc = "stage", !.latest = newest]
      /\ UNCHANGED <<viewed, state, stage, client, child>>
  BY DEF Panels!ReadLatest, Panels!samplerVars
<1>2. newest \in Panels!RowsOf(viewed) \cup {None} /\ \A pt : FinalAt(rows, viewed, pt) => newest \in Panels!RowsOf(viewed) /\ newest.pt = pt
  BY LatestIsNewest
<1> HIDE DEF newest
<1>3. newest # None => newest \in Rows /\ newest.pt.task = viewed
  BY <1>2 DEF Panels!RowsOf, WriterInv, WriterTypes
<1>4. req \in [pc : {"idle", "latest", "stage", "live", "history"}, state : States, latest : Rows \cup {None},
               stage : Panels!Result \cup {None}, live : Panels!Result \cup {None}] /\ viewed \in Tasks
  BY DEF ReaderInv, ReaderTypes
<1>5. req'.pc = "stage" /\ req'.latest = newest /\ req'.state = req.state /\ req'.stage = req.stage /\ req'.live = req.live
  BY <1>1, <1>4
<1>6. ReaderTypes'
  BY <1>1, <1>2, <1>3, <1>4 DEF ReaderInv, ReaderTypes
<1>7. ChildInv'
  BY <1>1 DEF ReaderInv, ChildInv, Panels!FreshStage
<1>8. RequestInv'
  BY <1>1, <1>3, <1>5 DEF ReaderInv, RequestInv
<1>9. req.state = "completed" => newest # None /\ newest.pt = stage[viewed]
  <2>1. req.state = "completed" => FinalAt(rows, viewed, stage[viewed])
    BY <1>1, <1>4 DEF ReaderInv, StopInv, WriterInv, RowsInv
  <2>2. \A r \in Panels!RowsOf(viewed) : r \in Rows
    BY DEF Panels!RowsOf, WriterInv, WriterTypes
  <2> QED BY <1>2, <2>1, <2>2, NoneApart
<1>10. StopInv'
  BY <1>1, <1>5, <1>9 DEF ReaderInv, StopInv, FinalShown
<1> QED BY <1>6, <1>7, <1>8, <1>10 DEF ReaderInv

LEMMA ReadStageKeeps == ASSUME Panels!PanelsAssumption, WriterInv, ReaderInv, Panels!ReadStage PROVE ReaderInv'
<1>1. /\ req.pc = "stage" /\ req' = [req EXCEPT !.pc = "live", !.stage = stage[viewed]]
      /\ UNCHANGED <<viewed, state, stage, client, child>>
  BY DEF Panels!ReadStage, Panels!samplerVars
<1>2. viewed \in Tasks /\ stage[viewed] \in Panels!Result \cup {None} /\ (stage[viewed] # None => stage[viewed].task = viewed)
  BY DEF ReaderInv, ReaderTypes, WriterInv, WriterTypes, QueueInv
<1>4. req \in [pc : {"idle", "latest", "stage", "live", "history"}, state : States, latest : Rows \cup {None},
               stage : Panels!Result \cup {None}, live : Panels!Result \cup {None}]
  BY DEF ReaderInv, ReaderTypes
<1>5. req'.pc = "live" /\ req'.latest = req.latest /\ req'.state = req.state /\ req'.stage = stage[viewed] /\ req'.live = req.live
  BY <1>1, <1>4
<1>6. ReaderTypes'
  BY <1>1, <1>2, <1>4 DEF ReaderInv, ReaderTypes
<1>7. ChildInv'
  BY <1>1 DEF ReaderInv, ChildInv, Panels!FreshStage
<1>8. RequestInv'
  BY <1>1, <1>2, <1>5 DEF ReaderInv, RequestInv
<1>10. StopInv'
  BY <1>1, <1>5 DEF ReaderInv, StopInv, FinalShown
<1> QED BY <1>6, <1>7, <1>8, <1>10 DEF ReaderInv

LEMMA ReadLiveKeeps == ASSUME Panels!PanelsAssumption, WriterInv, ReaderInv, Panels!ReadLive PROVE ReaderInv'
<1> DEFINE read == Panels!LiveFor(req)
<1>1. /\ req.pc = "live" /\ req' = [req EXCEPT !.pc = "history", !.live = read]
      /\ UNCHANGED <<viewed, state, stage, client, child>>
  BY DEF Panels!ReadLive, Panels!samplerVars
<1>2. read \in Panels!Result \cup {None} /\ (read # None => req.state = "active")
  BY DEF Panels!LiveFor, WriterInv, WriterTypes
<1> HIDE DEF read
<1>4. req \in [pc : {"idle", "latest", "stage", "live", "history"}, state : States, latest : Rows \cup {None},
               stage : Panels!Result \cup {None}, live : Panels!Result \cup {None}]
  BY DEF ReaderInv, ReaderTypes
<1>5. req'.pc = "history" /\ req'.latest = req.latest /\ req'.state = req.state /\ req'.stage = req.stage /\ req'.live = read
  BY <1>1, <1>4
<1>6. ReaderTypes'
  BY <1>1, <1>2, <1>4 DEF ReaderInv, ReaderTypes
<1>7. ChildInv'
  BY <1>1 DEF ReaderInv, ChildInv, Panels!FreshStage
<1>8. RequestInv'
  BY <1>1, <1>2, <1>5 DEF ReaderInv, RequestInv
<1>10. StopInv'
  BY <1>1, <1>5 DEF ReaderInv, StopInv, FinalShown
<1> QED BY <1>6, <1>7, <1>8, <1>10 DEF ReaderInv

\* A request that is refused, lost or answered leaves none behind.
LEMMA EndKeeps ==
  ASSUME WriterInv, ReaderInv, req' = Panels!Idle, UNCHANGED <<viewed, state, stage, client, child>>
  PROVE  ReaderInv'
<1>1. req' = [pc |-> "idle", state |-> "pending", latest |-> None, stage |-> None, live |-> None]
  BY DEF Panels!Idle
<1>2. ReaderTypes'
  BY <1>1 DEF ReaderInv, ReaderTypes, States
<1>3. ChildInv'
  BY DEF ReaderInv, ChildInv, Panels!FreshStage
<1>4. RequestInv'
  BY <1>1 DEF RequestInv
<1>5. StopInv'
  BY <1>1 DEF ReaderInv, StopInv, FinalShown
<1> QED BY <1>2, <1>3, <1>4, <1>5 DEF ReaderInv

LEMMA ChildKeeps == ASSUME Panels!PanelsAssumption, WriterInv, ReaderInv, Panels!ChildStep PROVE ReaderInv'
<1>1. UNCHANGED <<viewed, state, stage, live, client, req>>
  BY DEF Panels!ChildStep, Panels!ChildReadTask, Panels!ChildReadResult, Panels!samplerVars
<1>2. child \in [pc : {"idle", "task"}, task : Tasks, state : States, acc : Panels!Result \cup {None}]
  BY DEF ReaderInv, ReaderTypes
<1>3. RequestInv' /\ StopInv'
  BY <1>1 DEF ReaderInv, RequestInv, StopInv, FinalShown
<1>4. CASE Panels!ChildReadTask
  <2>1. PICK t \in Tasks : state[t] \in {"active", "completed"} /\ child' = [pc |-> "task", task |-> t, state |-> state[t], acc |-> None]
    BY <1>4 DEF Panels!ChildReadTask
  <2>2. ReaderTypes'
    BY <1>1, <2>1 DEF ReaderInv, ReaderTypes, States
  <2>3. ChildInv'
    BY <1>1, <2>1 DEF ChildInv, Panels!FreshStage
  <2> QED BY <1>3, <2>2, <2>3 DEF ReaderInv
<1>5. CASE Panels!ChildReadResult
  <2> DEFINE read == IF child.state = "active" THEN live ELSE stage[child.task]
  <2>1. child.pc = "task" /\ child' = [child EXCEPT !.pc = "idle", !.acc = read]
    BY <1>5 DEF Panels!ChildReadResult
  <2>2. read \in Panels!Result \cup {None}
    BY <1>2 DEF WriterInv, WriterTypes
  <2>3. read # None => read.task >= child.task
    <3>1. child.task \in Tasks /\ state[child.task] # "pending" /\ (live # None => live.task \in Tasks)
      BY <1>2, <2>1 DEF ReaderInv, ChildInv, WriterInv, WriterTypes, Panels!Result
    <3> QED BY <1>2, <3>1, TasksNat DEF WriterInv, QueueInv
  <2> HIDE DEF read
  <2>4. child' \in [pc : {"idle", "task"}, task : Tasks, state : States, acc : Panels!Result \cup {None}]
    BY <1>2, <2>1, <2>2
  <2>5. ReaderTypes'
    BY <1>1, <2>4 DEF ReaderInv, ReaderTypes
  <2>6. child'.pc = "idle" /\ child'.acc = read /\ child'.task = child.task
    BY <1>2, <2>1
  <2>7. ChildInv'
    BY <2>3, <2>6 DEF ChildInv, Panels!FreshStage
  <2> QED BY <1>3, <2>5, <2>7 DEF ReaderInv
<1> QED BY <1>4, <1>5 DEF Panels!ChildStep

\* What an answer changes in the browser.
LEMMA Answered ==
  ASSUME Panels!Respond
  PROVE  \E fetched, level :
         LET now  == Panels!CurrentSource(Panels!HistoryPolicy)
             sent == Panels!Downsample(Panels!HistoryUpdate(now, fetched), level)
         IN  /\ fetched \subseteq Panels!RowsOf(viewed)
             /\ client'.points = sent \/ client'.points = Panels!MergePoints(client.points, sent)
             /\ client'.shown = Panels!ShownPanels
             /\ client'.polling <=> req.state \in Panels!Polled
             /\ req.pc = "history" /\ req' = Panels!Idle /\ Panels!AccumulatorMatches(req.live)
             /\ UNCHANGED <<viewed, state, rows, stage, child>>
<1> DEFINE fetched == Panels!TaskOutputSnapshots(Panels!CursorId(client.cursor), Limit)
           update  == Panels!HistoryUpdate(Panels!CurrentSource(Panels!HistoryPolicy), fetched)
           full    == client.cursor = None
           level   == IF full THEN Panels!RequiredLevel[Cardinality(update)] ELSE Panels!CursorLevel(client.cursor)
           sent    == Panels!Downsample(update, level)
           points  == IF full THEN sent ELSE Panels!MergePoints(client.points, sent)
<1>1. /\ req.pc = "history" /\ req' = Panels!Idle /\ Panels!AccumulatorMatches(req.live)
      /\ client' = [cursor |-> Panels!NextCursor(level), points |-> points, shown |-> Panels!ShownPanels, polling |-> Panels!ShouldPoll(req)]
      /\ UNCHANGED <<viewed, state, rows, stage, child>>
  BY PanelsCardinality, Zenon DEF Panels!Respond, Panels!samplerVars
<1>2. fetched \subseteq Panels!RowsOf(viewed)
  BY PanelsCardinality DEF Panels!TaskOutputSnapshots
<1>3. client'.polling = Panels!ShouldPoll(req) /\ client'.points = points /\ client'.shown = Panels!ShownPanels
  <2> HIDE DEF points, level
  <2> QED BY <1>1, Zenon
<1>4. client'.polling <=> req.state \in Panels!Polled
  BY <1>3, Zenon DEF Panels!ShouldPoll
<1>5. client'.points = sent \/ client'.points = Panels!MergePoints(client.points, sent)
  <2> HIDE DEF sent, full
  <2> QED BY <1>3
<1> HIDE DEF fetched, level
<1> QED BY <1>1, <1>2, <1>3, <1>4, <1>5, Zenon DEF sent, update

LEMMA SourceTyped ==
  ASSUME WriterInv, ReaderInv, NEW policy
  PROVE  Panels!CurrentSource(policy) \in Panels!Result \cup {None}
<1>1. /\ req.latest # None => req.latest.pt \in Panels!Result
      /\ req.stage \in Panels!Result \cup {None} /\ req.live \in Panels!Result \cup {None}
  BY DEF ReaderInv, ReaderTypes, Rows
<1> QED BY <1>1, CurrentIs

LEMMA RespondKeeps == ASSUME Panels!PanelsAssumption, WriterInv, ReaderInv, Panels!Respond PROVE ReaderInv'
<1> DEFINE now == Panels!CurrentSource(Panels!HistoryPolicy)
<1>1. PICK fetched, level :
        LET sent == Panels!Downsample(Panels!HistoryUpdate(now, fetched), level)
        IN  /\ fetched \subseteq Panels!RowsOf(viewed)
            /\ client'.points = sent \/ client'.points = Panels!MergePoints(client.points, sent)
            /\ client'.shown = Panels!ShownPanels
            /\ client'.polling <=> req.state \in Panels!Polled
            /\ req.pc = "history" /\ req' = Panels!Idle /\ Panels!AccumulatorMatches(req.live)
            /\ UNCHANGED <<viewed, state, rows, stage, child>>
  BY Answered
<1> DEFINE update == Panels!HistoryUpdate(now, fetched)
           sent == Panels!Downsample(update, level)
<1>2. now \in Panels!Result \cup {None}
  BY SourceTyped
<1>3. fetched \subseteq Panels!RowsOf(viewed)
  BY <1>1
<1> HIDE DEF now
<1>4. /\ update \subseteq Panels!Result
      /\ \A p, q \in update : p.n = q.n => p = q
      /\ now # None /\ FinalAt(rows, viewed, now) => now \in update /\ \A p \in update : p.n <= now.n
  BY <1>2, <1>3, UpdateOf
<1> HIDE DEF update
<1>5. sent \subseteq update /\ \A s \in update : (\A p \in update : p.n <= s.n) => s \in sent
  BY DownsampleKeeps
<1> HIDE DEF sent
<1>6. client'.points = sent \/ client'.points = Panels!MergePoints(client.points, sent)
  BY <1>1 DEF sent, update
<1>7. client.points \subseteq Panels!Result /\ \A p, q \in client.points : p.n = q.n => p = q
  BY DEF ReaderInv, ReaderTypes
<1>8. sent \subseteq client'.points /\ client'.points \subseteq Panels!Result /\ \A p, q \in client'.points : p.n = q.n => p = q
  BY <1>4, <1>5, <1>6, <1>7 DEF Panels!MergePoints
<1>9. /\ req' = [pc |-> "idle", state |-> "pending", latest |-> None, stage |-> None, live |-> None]
      /\ UNCHANGED <<viewed, state, rows, stage, child>>
  BY <1>1 DEF Panels!Idle
<1>10. ReaderTypes'
  BY <1>8, <1>9 DEF ReaderInv, ReaderTypes, States
<1>11. ChildInv' /\ RequestInv'
  BY <1>9 DEF ReaderInv, ChildInv, Panels!FreshStage, RequestInv
<1>12. req.state = "completed" => FinalShown'
  <2> SUFFICES ASSUME req.state = "completed" PROVE FinalShown'
    OBVIOUS
  <2>1. viewed \in Tasks /\ state[viewed] = "completed"
    BY <1>1 DEF ReaderInv, ReaderTypes, StopInv
  <2>2. FinalAt(rows, viewed, stage[viewed])
    BY <2>1 DEF WriterInv, RowsInv
  <2>3. req.latest # None /\ req.latest.pt = stage[viewed] /\ req.stage = stage[viewed]
    BY <1>1 DEF ReaderInv, StopInv
  <2>4. stage[viewed] # None
    BY <2>2, NoneApart DEF FinalAt, WriterInv, WriterTypes, Rows
  <2>5. \A policy : Panels!CurrentSource(policy) = stage[viewed]
    BY <2>3, <2>4, CurrentIs
  <2>6. now = stage[viewed]
    BY <2>5 DEF now
  <2>7. stage[viewed] \in client'.points
    BY <1>4, <1>5, <1>8, <2>2, <2>4, <2>6
  <2>8. \A p \in Panels!Policies : client'.shown[p] = stage[viewed]
    BY <1>1, <2>4, <2>5 DEF Panels!ShownPanels
  <2> QED BY <1>9, <2>7, <2>8 DEF FinalShown
<1>13. ~client'.polling => state[viewed] \in {"completed", "failed"} /\ (state[viewed] = "completed" => req.state = "completed")
  <2>1. ~client'.polling => req.state \in {"completed", "failed"}
    BY <1>1 DEF ReaderInv, ReaderTypes, States, Panels!Polled
  <2> QED BY <1>1, <2>1 DEF ReaderInv, StopInv
<1>14. StopInv'
  BY <1>9, <1>12, <1>13 DEF StopInv
<1> QED BY <1>10, <1>11, <1>14 DEF ReaderInv

LEMMA ReaderInit == ASSUME Panels!PanelsAssumption, Panels!Init PROVE ReaderInv
<1>1. /\ viewed \in Tasks
      /\ req = [pc |-> "idle", state |-> "pending", latest |-> None, stage |-> None, live |-> None]
      /\ child = [pc |-> "idle", task |-> 1, state |-> "pending", acc |-> None]
      /\ client = [cursor |-> None, points |-> {}, shown |-> [p \in Panels!Policies |-> None], polling |-> TRUE]
      /\ state = [t \in Tasks |-> "pending"]
  BY DEF Panels!Init, Panels!Idle, Panels!PanelsAssumption
<1>2. 1 \in Tasks
  BY <1>1, TasksNat
<1>3. client.points = {} /\ client.polling
  BY <1>1
<1>4. ReaderTypes
  BY <1>1, <1>2, <1>3 DEF ReaderTypes, States
<1>5. ChildInv /\ RequestInv
  BY <1>1 DEF ChildInv, Panels!FreshStage, RequestInv
<1>6. StopInv
  BY <1>1, <1>3 DEF StopInv
<1> QED BY <1>4, <1>5, <1>6 DEF ReaderInv

LEMMA ReaderStep == ASSUME Panels!PanelsAssumption, WriterInv, ReaderInv, [Panels!Next]_Panels!vars PROVE ReaderInv'
<1>1. CASE Panels!SamplerStep \/ Panels!Recovery
  BY <1>1, WriterLeavesReaders
<1>2. CASE Panels!RespondMismatch \/ Panels!ResponseLost
  BY <1>2, EndKeeps DEF Panels!RespondMismatch, Panels!ResponseLost, Panels!samplerVars
<1>3. CASE Panels!PanelStep
  BY <1>2, <1>3, PollKeeps, ReadLatestKeeps, ReadStageKeeps, ReadLiveKeeps, RespondKeeps
       DEF Panels!PanelStep
<1>4. CASE Panels!ChildStep
  BY <1>4, ChildKeeps
<1>5. CASE UNCHANGED Panels!vars
  BY <1>5 DEF Panels!vars, ReaderInv, ReaderTypes, ChildInv, Panels!FreshStage, RequestInv,
       StopInv, FinalShown
<1> QED BY <1>1, <1>2, <1>3, <1>4, <1>5 DEF Panels!Next

-----------------------------------------------------------------------------
\* The invariant the theorems rest on: writer and readers together.
PanelsInv == WriterInv /\ ReaderInv

\* Panels (server/task_panels, controller_child.rs, measurement.rs): it holds while tasks complete,
\* fail, are recovered and started between the statements of a request.
THEOREM PanelsInvariance == ASSUME Panels!PanelsAssumption PROVE Panels!Spec => []PanelsInv
<1>1. Panels!Init => PanelsInv
  BY WriterInit, ReaderInit DEF PanelsInv
<1>2. PanelsInv /\ [Panels!Next]_Panels!vars => PanelsInv'
  BY WriterStep, ReaderStep DEF PanelsInv
<1> QED BY <1>1, <1>2, PTL DEF Panels!Spec

\* Every value the panels and the measurement are made of.
LEMMA InvPanelsTyped == ASSUME Panels!PanelsAssumption, PanelsInv PROVE Panels!TypeOK
<1>1. WriterTypes /\ RowsInv /\ ReaderTypes
  BY DEF PanelsInv, WriterInv, ReaderInv
<1>2. sampler.up \in BOOLEAN
  BY <1>1 DEF WriterTypes
<1>3. rows \subseteq [id : 1 .. nextId - 1, pt : Panels!Result]
  <2>1. ASSUME NEW r \in rows PROVE r \in [id : 1 .. nextId - 1, pt : Panels!Result]
    <3>1. r \in Rows /\ r.id < nextId /\ nextId \in Nat
      BY <1>1 DEF WriterTypes, RowsInv
    <3>2. r = [id |-> r.id, pt |-> r.pt] /\ r.id \in 1 .. nextId - 1 /\ r.pt \in Panels!Result
      BY <3>1 DEF Rows
    <3> QED BY <3>2
  <2> QED BY <2>1
<1>4. req.pc \in {"idle", "latest", "stage", "live", "history"} /\ client.points \subseteq Panels!Result
      /\ \A p, q \in client.points : p.n = q.n => p = q
  BY <1>1 DEF ReaderTypes
<1>5. sampler.acc \in Panels!Result /\ sampler.pend \in Panels!Result \cup {None}
  BY <1>1 DEF WriterTypes
<1>6. /\ state \in [Tasks -> {"pending", "active", "completed", "failed"}] /\ live \in Panels!Result \cup {None}
      /\ \A t \in Tasks : stage[t] \in Panels!Result \cup {None} /\ measured[t] \in Panels!Result \cup {None}
  BY <1>1 DEF WriterTypes, States
<1> QED BY <1>2, <1>3, <1>4, <1>5, <1>6 DEF Panels!TypeOK

\* A plot has one point per sample count, and history, stages and live results are results of tasks.
THEOREM PanelsTyped == ASSUME Panels!PanelsAssumption PROVE Panels!Spec => []Panels!TypeOK
BY PanelsInvariance, InvPanelsTyped, PTL

\* A browser told to stop polling a completed task has its final result on the plot and in every
\* summary panel, a controller never credits a new stage with an earlier one's live result, and the
\* stored measurement is of the final snapshot (should_poll_task_output, load_child_task_result,
\* load_measurement_accumulator).
THEOREM FinalsAgree == ASSUME Panels!PanelsAssumption PROVE Panels!Spec => [](Panels!StoppedFinal /\ Panels!FreshStage /\ Panels!MeasuredFinal)
<1>1. PanelsInv => Panels!StoppedFinal /\ Panels!FreshStage /\ Panels!MeasuredFinal
  BY DEF PanelsInv, WriterInv, QueueInv, ReaderInv, ChildInv, StopInv, FinalShown,
       Panels!StoppedFinal, Panels!MeasuredFinal
<1> QED BY <1>1, PanelsInvariance, PTL

\* An answer adds the history of the task on view, and a current result that was compared with it.
LEMMA OwnStep ==
  ASSUME Panels!PanelsAssumption, \A t, u \in Tasks : Kind[t] = Kind[u] => t = u, PanelsInv, Panels!OwnPoints, [Panels!Next]_Panels!vars
  PROVE  Panels!OwnPoints'
<1>1. CASE Panels!Respond
  <2> DEFINE now == Panels!CurrentSource(Panels!HistoryPolicy)
  <2>1. PICK fetched, level :
        LET sent == Panels!Downsample(Panels!HistoryUpdate(now, fetched), level)
        IN  /\ fetched \subseteq Panels!RowsOf(viewed)
            /\ client'.points = sent \/ client'.points = Panels!MergePoints(client.points, sent)
            /\ client'.shown = Panels!ShownPanels
            /\ client'.polling <=> req.state \in Panels!Polled
            /\ req.pc = "history" /\ req' = Panels!Idle /\ Panels!AccumulatorMatches(req.live)
            /\ UNCHANGED <<viewed, state, rows, stage, child>>
    BY <1>1, Answered
  <2> DEFINE update == Panels!HistoryUpdate(now, fetched)
             sent == Panels!Downsample(update, level)
  <2>2. now \in Panels!Result \cup {None}
    BY SourceTyped DEF PanelsInv
  <2>3. now # None => now.task = viewed
    <3>1. viewed \in Tasks /\ (req.live # None => req.live.task \in Tasks)
      BY DEF PanelsInv, ReaderInv, ReaderTypes, Panels!Result
    <3>2. req.live # None => req.live.task = viewed
      BY <2>1, <3>1 DEF Panels!AccumulatorMatches
    <3> QED BY <3>2, CurrentIs DEF PanelsInv, ReaderInv, RequestInv
  <2>4. fetched \subseteq Panels!RowsOf(viewed)
    BY <2>1
  <2> HIDE DEF now
  <2>5. \A p \in update : p = now \/ p.task = viewed
    BY <2>2, <2>4, UpdateOf DEF PanelsInv
  <2>6. None \notin update
    <3>1. \A r \in fetched : r.pt \in Panels!Result
      BY <2>4 DEF PanelsInv, WriterInv, WriterTypes, Panels!RowsOf, Rows
    <3> QED BY <3>1, NoneApart DEF Panels!HistoryUpdate, Panels!MergePoints, Panels!SnapshotPoints
  <2>7. \A p \in sent : p.task = viewed
    BY <2>3, <2>5, <2>6, DownsampleKeeps
  <2> HIDE DEF sent
  <2>8. client'.points = sent \/ client'.points = Panels!MergePoints(client.points, sent)
    BY <2>1 DEF sent
  <2>9. viewed' = viewed
    BY <2>1
  <2> QED BY <2>7, <2>8, <2>9 DEF Panels!OwnPoints, Panels!MergePoints
<1>2. CASE ~Panels!Respond
  <2>1. client' = client /\ viewed' = viewed
    BY <1>2 DEF Panels!Next, Panels!SamplerStep, Panels!Recovery, Panels!Activate,
         Panels!StartSampler, Panels!Ingest, Panels!StartFlush, Panels!LandFlush, Panels!Pause,
         Panels!CompleteSave,
                Panels!CompleteMeasure, Panels!CompleteTask, Panels!FailTask, Panels!Crash,
                Panels!Restore, Panels!readers, Panels!PanelStep, Panels!Poll, Panels!ReadLatest,
                Panels!ReadStage,
                Panels!ReadLive, Panels!RespondMismatch, Panels!ResponseLost, Panels!ChildStep,
                Panels!ChildReadTask, Panels!ChildReadResult, Panels!vars
  <2> QED BY <2>1 DEF Panels!OwnPoints
<1> QED BY <1>1, <1>2

\* Where the tasks of a run differ in accumulator type, no plot shows a point of another task: the
\* projectors refuse a live accumulator that is not of the requested configuration.
THEOREM PlotsOwn ==
  ASSUME Panels!PanelsAssumption, \A t, u \in Tasks : Kind[t] = Kind[u] => t = u
  PROVE  Panels!Spec => []Panels!OwnPoints
<1>1. Panels!Init => Panels!OwnPoints
  BY DEF Panels!Init, Panels!OwnPoints
<1>2. PanelsInv /\ Panels!OwnPoints /\ [Panels!Next]_Panels!vars => Panels!OwnPoints'
  BY OwnStep
<1> QED BY <1>1, <1>2, PanelsInvariance, PTL DEF Panels!Spec

-----------------------------------------------------------------------------
(* Assignment plans of nested controllers.                                 *)

\* A nonempty set of naturals has a least element.
LEMMA Least == ASSUME NEW S, S \subseteq Nat, S # {} PROVE \E x \in S : \A y \in S : x <= y
<1> DEFINE R == {ss \in Nat \X Nat : ss[1] < ss[2]}
<1>1. IsWellFoundedOn(R, Nat)
  BY NatLessThanWellFounded DEF OpToRel
<1>2. \A x, y \in Nat : <<y, x>> \in R <=> y < x
  OBVIOUS
<1> HIDE DEF R
<1>3. PICK x \in S : \A y \in S : ~ (<<y, x>> \in R)
  BY <1>1, WFMin
<1>4. ASSUME NEW y \in S PROVE x <= y
  <2>1. x \in Nat /\ y \in Nat /\ ~ (y < x)
    BY <1>2, <1>3
  <2> QED BY <2>1
<1> QED BY <1>4

Rank(S, n) == Cardinality({m \in S : m < n})

\* Each position of a finite set of naturals has its element: InOrder names them all.
LEMMA Ranked ==
  ASSUME NEW S, S \subseteq Nat, IsFiniteSet(S), NEW i \in 1 .. Cardinality(S)
  PROVE  \E n \in S : Rank(S, n) = i - 1
<1> DEFINE B == {k \in Nat : k \in 1 .. Cardinality(S) /\ \A n \in S : Rank(S, n) # k - 1}
<1>1. SUFFICES ASSUME i \in B PROVE FALSE
  BY FS_CardinalityType
<1>2. PICK k \in B : \A j \in B : k <= j
  <2>1. B \subseteq Nat /\ B # {}
    BY <1>1
  <2> QED BY <2>1, Least
<1>c. Cardinality(S) \in Nat /\ k \in Nat /\ k >= 1 /\ k <= Cardinality(S)
  BY FS_CardinalityType
<1>3. CASE k = 1
  <2>1. S # {}
    BY <1>c, FS_EmptySet
  <2>2. PICK n \in S : \A m \in S : n <= m
    BY <2>1, Least
  <2>3. {m \in S : m < n} = {}
    <3>1. ASSUME NEW m \in S PROVE ~(m < n)
      <4>1. m \in Nat /\ n \in Nat /\ n <= m
        BY <2>2
      <4> QED BY <4>1
    <3> QED BY <3>1
  <2>4. Rank(S, n) = 0
    BY <2>3, FS_EmptySet DEF Rank
  <2> QED BY <1>3, <2>4
<1>4. CASE k # 1
  <2>1. k - 1 \in Nat /\ k - 1 \in 1 .. Cardinality(S) /\ k - 1 \notin B
    BY <1>2, <1>4, <1>c
  <2>2. PICK n \in S : Rank(S, n) = k - 2
    BY <2>1, <1>c
  <2> DEFINE D == {m \in S : m < n}
             E == D \cup {n}
  <2>3. IsFiniteSet(D) /\ n \notin D /\ Cardinality(D) = k - 2
    BY <2>2, FS_Subset DEF Rank
  <2>4. IsFiniteSet(E) /\ Cardinality(E) = k - 1
    <3> HIDE DEF D
    <3>1. IsFiniteSet(D \cup {n}) /\ Cardinality(D \cup {n}) = Cardinality(D) + 1
      BY <2>3, FS_AddElement
    <3> QED BY <3>1, <2>3, <1>c
  <2>5. S \ E # {}
    <3>1. E \subseteq S /\ (S \ E = {} => S = E)
      OBVIOUS
    <3> QED BY <3>1, <2>4, <1>c
  <2>6. PICK m \in S \ E : \A x \in S \ E : m <= x
    BY <2>5, Least
  <2>7. {x \in S : x < m} = E
    <3>1. ASSUME NEW x \in S, x < m PROVE x \in E
      BY <2>6, <3>1
    <3>2. ASSUME NEW x \in E PROVE x \in S /\ x < m
      <4>1. m \in Nat /\ n \in Nat /\ ~(m < n) /\ m # n /\ x \in Nat /\ x <= n
        BY <2>6
      <4> QED BY <4>1
    <3> QED BY <3>1, <3>2
  <2> QED BY <2>4, <2>6, <2>7 DEF Rank
<1> QED BY <1>3, <1>4

LEMMA Positions ==
  ASSUME NEW S, S \subseteq Nat, IsFiniteSet(S)
  PROVE  /\ DOMAIN Plans!InOrder(S) = 1 .. Cardinality(S) /\ Cardinality(S) \in Nat
         /\ Plans!InOrder(S) = [i \in 1 .. Cardinality(S) |-> Plans!InOrder(S)[i]]
         /\ \A i \in 1 .. Cardinality(S) : Plans!InOrder(S)[i] \in S /\ Rank(S, Plans!InOrder(S)[i]) = i - 1
<1>1. ASSUME NEW i \in 1 .. Cardinality(S) PROVE Plans!InOrder(S)[i] \in S /\ Rank(S, Plans!InOrder(S)[i]) = i - 1
  BY Ranked, PlansCardinality DEF Rank, Plans!InOrder
<1>2. Plans!Cardinality(S) = Cardinality(S)
  BY PlansCardinality
<1>3. /\ DOMAIN Plans!InOrder(S) = 1 .. Cardinality(S)
      /\ Plans!InOrder(S) = [i \in 1 .. Cardinality(S) |-> Plans!InOrder(S)[i]]
  BY <1>2 DEF Plans!InOrder
<1> QED BY <1>1, <1>3, FS_CardinalityType

\* What Among keeps are entries of s that are in R, each once when s has them once.
LEMMA AmongEntries ==
  ASSUME NEW T, NEW s \in Seq(T), NEW R, \A i, j \in DOMAIN s : s[i] = s[j] => i = j
  PROVE  /\ Plans!Among(s, R) \in Seq(R) /\ Len(Plans!Among(s, R)) \in Nat /\ DOMAIN Plans!Among(s, R) = 1 .. Len(Plans!Among(s, R))
         /\ \A i \in 1 .. Len(Plans!Among(s, R)) : Plans!Among(s, R)[i] \in R \cap Plans!Range(s)
         /\ \A i, j \in 1 .. Len(Plans!Among(s, R)) : Plans!Among(s, R)[i] = Plans!Among(s, R)[j] => i = j
<1> DEFINE K == {k \in DOMAIN s : s[k] \in R}
           at == Plans!InOrder(K)
           n == Cardinality(K)
<1>1. K \subseteq Nat /\ K \subseteq DOMAIN s /\ IsFiniteSet(K)
  <2>1. DOMAIN s = 1 .. Len(s) /\ Len(s) \in Nat
    OBVIOUS
  <2>2. IsFiniteSet(DOMAIN s)
    BY <2>1, FS_Interval
  <2>3. K \subseteq DOMAIN s
    OBVIOUS
  <2> HIDE DEF K
  <2> QED BY <2>1, <2>2, <2>3, FS_Subset
<1>2. /\ DOMAIN at = 1 .. n /\ n \in Nat
      /\ \A i \in 1 .. n : at[i] \in K /\ Rank(K, at[i]) = i - 1
  <2> HIDE DEF K
  <2> QED BY <1>1, Positions
<1>3. Plans!Among(s, R) = [i \in 1 .. n |-> s[at[i]]]
  BY <1>2 DEF Plans!Among
<1>4. ASSUME NEW i \in 1 .. n PROVE s[at[i]] \in R \cap Plans!Range(s)
  BY <1>2 DEF Plans!Range
<1>5. ASSUME NEW i \in 1 .. n, NEW j \in 1 .. n, s[at[i]] = s[at[j]] PROVE i = j
  <2>1. at[i] = at[j]
    BY <1>2, <1>5
  <2>2. i - 1 = j - 1
    BY <1>2, <2>1
  <2> QED BY <2>2
<1>6. Len(Plans!Among(s, R)) = n /\ Plans!Among(s, R) \in Seq(R)
  <2> HIDE DEF at, n
  <2>1. [i \in 1 .. n |-> s[at[i]]] \in Seq(R)
    BY <1>2, <1>4
  <2> QED BY <1>2, <1>3, <2>1
<1> QED
  <2> HIDE DEF at, n
  <2> QED BY <1>2, <1>3, <1>4, <1>5, <1>6

-----------------------------------------------------------------------------
(* Where a plan puts samplers.                                             *)

Executable(c) == Children[c] \ Plans!Controllers

\* An executable run is placed under its own parent only, and is its own level there.
LEMMA LevelOf ==
  ASSUME Plans!RunAssumption, NEW c \in Plans!Controllers, NEW r
  PROVE  /\ r \in Executable(c) => Plans!Level(c, r) = r /\ r \in Plans!Branches(c)
         /\ Plans!Level(c, r) \notin Plans!Controllers => Plans!Level(c, r) = r
<1>1. ASSUME r \in Executable(c), NEW b \in Plans!Nested(c), r \in Children[b] PROVE FALSE
  BY <1>1 DEF Plans!RunAssumption, Plans!Nested, Executable
<1> QED BY <1>1 DEF Plans!Level, Plans!Branches, Executable, Plans!Nested

Free(c, s, d) == Plans!InOrder(Plans!InRole(c, d, "sampler") \ Plans!KeptSamplers(c, s, d))
Need(c, s, d) == Plans!Among(s, Plans!Range(s) \ {Plans!Level(c, d[n].run) : n \in Plans!KeptSamplers(c, s, d)})

\* A sampler is placed where it was, around the nested controllers, or alone on a run of the
\* selection that kept none.
LEMMA Placed ==
  ASSUME Plans!RunAssumption, NEW c \in Plans!Controllers, NEW s \in Selections[c], NEW d
  PROVE  LET p == Plans!SamplerPlaces(c, s, d) IN
         /\ Plans!KeptSamplers(c, s, d) \subseteq DOMAIN p
         /\ \A n \in DOMAIN p :
              /\ n \in Plans!InRole(c, d, "sampler")
              /\ n \in Plans!KeptSamplers(c, s, d) => p[n] = Plans!Level(c, d[n].run)
              /\ n \notin Plans!KeptSamplers(c, s, d) =>
                   \/ p[n] \in Plans!Controllers
                   \/ \E i \in 1 .. Len(Need(c, s, d)) :
                        Free(c, s, d)[i] = n /\ p[n] = Need(c, s, d)[i]
<1> DEFINE kept == Plans!KeptSamplers(c, s, d)
           free == Free(c, s, d)
           need == Need(c, s, d)
           nested == Plans!Spare(s)
           Spot(i) == IF i <= Len(need) THEN need[i]
                       ELSE nested[((i - Len(need) - 1) % Len(nested)) + 1]
           filled == IF nested = <<>> THEN 1 .. (IF Len(free) < Len(need) THEN Len(free) ELSE Len(need))
                     ELSE DOMAIN free
           p == [n \in kept \cup {free[i] : i \in filled} |->
                   IF n \in kept THEN Plans!Level(c, d[n].run)
                   ELSE Spot(CHOOSE i \in filled : free[i] = n)]
<1>1. Plans!SamplerPlaces(c, s, d) = p
  BY DEF Plans!SamplerPlaces, Free, Need
<1>2. s \in Seq(Children[c]) /\ \A i, j \in DOMAIN s : s[i] = s[j] => i = j
  BY DEF Plans!RunAssumption
<1>3. Len(need) \in Nat
  BY <1>2, AmongEntries DEF Need
<1>4. /\ nested \in Seq(Plans!Controllers) /\ Len(nested) \in Nat /\ DOMAIN nested = 1 .. Len(nested)
      /\ \A i \in 1 .. Len(nested) : nested[i] \in Plans!Controllers
  BY <1>2, AmongEntries DEF Plans!Spare
<1>5. kept \subseteq Plans!InRole(c, d, "sampler")
  BY DEF Plans!KeptSamplers
<1>6. /\ DOMAIN free \subseteq Nat \ {0} /\ DOMAIN free = 1 .. Len(free) /\ Len(free) \in Nat
      /\ \A i \in DOMAIN free : free[i] \in Plans!InRole(c, d, "sampler")
  <2> DEFINE S == Plans!InRole(c, d, "sampler") \ kept
  <2>1. S \subseteq Workers
    BY DEF Plans!InRole, Plans!Reusable
  <2>2. S \subseteq Nat /\ IsFiniteSet(S)
    <3> HIDE DEF S
    <3> QED BY <2>1, FS_Subset, PlansFinite DEF Plans!RunAssumption
  <2>3. /\ DOMAIN Plans!InOrder(S) = 1 .. Cardinality(S) /\ Cardinality(S) \in Nat
        /\ \A i \in 1 .. Cardinality(S) : Plans!InOrder(S)[i] \in S
    <3> HIDE DEF S
    <3> QED BY <2>2, Positions
  <2>4. free = Plans!InOrder(S)
    BY DEF Free
  <2> HIDE DEF S
  <2>5. Plans!InOrder(S) = [i \in 1 .. Cardinality(S) |-> Plans!InOrder(S)[i]]
    BY <2>2, Positions
  <2>6. Plans!InOrder(S) \in Seq(S) /\ Len(Plans!InOrder(S)) = Cardinality(S)
    BY <2>3, <2>5
  <2>7. S \subseteq Plans!InRole(c, d, "sampler")
    BY DEF S
  <2> HIDE DEF free
  <2> QED BY <2>3, <2>4, <2>6, <2>7
<1> HIDE DEF kept, free, need, nested
<1>7. filled \subseteq DOMAIN free
  BY <1>3, <1>6
<1>8. ASSUME NEW n \in DOMAIN p, n \notin kept
      PROVE  \/ p[n] \in Plans!Controllers
             \/ \E i \in 1 .. Len(need) : free[i] = n /\ p[n] = need[i]
  <2> DEFINE i == CHOOSE j \in filled : free[j] = n
  <2>1. i \in filled /\ free[i] = n /\ p[n] = Spot(i)
    BY <1>8
  <2> HIDE DEF i, p
  <2>2. i \in Nat \ {0}
    BY <2>1, <1>7, <1>6
  <2>3. CASE i <= Len(need)
    BY <2>1, <2>2, <2>3, <1>3
  <2>4. CASE ~ (i <= Len(need))
    <3>1. nested # <<>>
      BY <2>1, <2>2, <2>4, <1>3, <1>6
    <3>2. Len(nested) # 0
      BY <3>1, <1>4
    <3>3. i - Len(need) - 1 \in Nat /\ Len(nested) \in Nat \ {0}
      BY <2>2, <2>4, <1>3, <1>4, <3>2
    <3>4. ((i - Len(need) - 1) % Len(nested)) + 1 \in 1 .. Len(nested)
      BY <3>3
    <3> QED BY <2>1, <2>4, <3>4, <1>4
  <2> QED BY <2>3, <2>4
<1>9. kept \subseteq DOMAIN p /\ \A n \in kept : p[n] = Plans!Level(c, d[n].run)
  OBVIOUS
<1>10. DOMAIN p \subseteq Plans!InRole(c, d, "sampler")
  BY <1>5, <1>6, <1>7
<1> HIDE DEF p
<1> QED BY <1>1, <1>8, <1>9, <1>10 DEF kept, free, need

LEMMA EvaluatorsOnly ==
  ASSUME NEW c, NEW s, NEW d, NEW places
  PROVE  DOMAIN Plans!EvaluatorPlaces(c, s, d, places) \subseteq Plans!InRole(c, d, "evaluator")
<1>1. DOMAIN <<>> = {}
  OBVIOUS
<1>2. CASE Plans!ActiveOrder(s, places) = <<>>
  BY <1>1, <1>2 DEF Plans!EvaluatorPlaces
<1>3. CASE Plans!ActiveOrder(s, places) # <<>>
  BY <1>3, Zenon DEF Plans!EvaluatorPlaces
<1> QED BY <1>2, <1>3

\* What a controller read: records of assignments, and one sampler on an executable run.
Runs == (UNION {Children[c] : c \in Plans!Controllers}) \ Plans!Controllers
Assigned(d) == \A n \in Workers : d[n] = None \/ d[n] = Plans!At(d[n].run, d[n].role)
OneEach(d) == \A r \in Runs : \A m, n \in Workers :
                d[m] = Plans!At(r, "sampler") /\ d[n] = Plans!At(r, "sampler") => m = n

\* A planned node keeps its role, and a sampler that is moved is placed on its own as Placed says
\* or on a controller.
LEMMA Planned ==
  ASSUME Plans!RunAssumption, NEW c \in Plans!Controllers, NEW s \in Selections[c], NEW d, Assigned(d),
         NEW n \in Workers, Plans!Plan(c, s, d)[n] # d[n]
  PROVE  /\ n \in Plans!Reusable(c, d) /\ d[n] # None
         /\ Plans!Plan(c, s, d)[n] = Plans!At(Plans!Plan(c, s, d)[n].run, d[n].role)
         /\ n \in Plans!KeptSamplers(c, s, d) => Plans!Level(c, d[n].run) \in Plans!Controllers
         /\ \/ d[n].role # "sampler"
            \/ Plans!Plan(c, s, d)[n].run \in Plans!Controllers
            \/ /\ s # <<>> /\ n \in DOMAIN Plans!SamplerPlaces(c, s, d)
               /\ n \notin Plans!KeptSamplers(c, s, d)
               /\ Plans!Plan(c, s, d)[n].run = Plans!SamplerPlaces(c, s, d)[n]
<1> DEFINE samplers == IF s = <<>> THEN <<>> ELSE Plans!SamplerPlaces(c, s, d)
           evaluators == IF s = <<>> THEN <<>> ELSE Plans!EvaluatorPlaces(c, s, d, samplers)
           Wanted(x) == CASE x \in DOMAIN samplers -> Plans!At(Plans!Deeper(c, d[x], samplers[x]), d[x].role)
                          [] x \in DOMAIN evaluators -> Plans!At(Plans!Deeper(c, d[x], evaluators[x]), d[x].role)
                          [] OTHER -> Plans!Waiting(c, d[x].role)
<1>1. Plans!Plan(c, s, d)[n] = IF n \in Plans!Reusable(c, d) THEN Wanted(n) ELSE d[n]
  BY DEF Plans!Plan
<1>2. n \in Plans!Reusable(c, d) /\ d[n] # None /\ Plans!Plan(c, s, d)[n] = Wanted(n) /\ d[n] = Plans!At(d[n].run, d[n].role)
  BY <1>1 DEF Plans!Reusable, Assigned
<1>d. DOMAIN samplers \subseteq Plans!InRole(c, d, "sampler") /\ DOMAIN evaluators \subseteq Plans!InRole(c, d, "evaluator")
  <2>1. DOMAIN <<>> = {}
    OBVIOUS
  <2>2. s # <<>> => DOMAIN samplers \subseteq Plans!InRole(c, d, "sampler")
    BY Placed
  <2>3. s # <<>> => DOMAIN evaluators \subseteq Plans!InRole(c, d, "evaluator")
    BY EvaluatorsOnly
  <2> QED BY <2>1, <2>2, <2>3
<1>g. n \in DOMAIN samplers => n \notin DOMAIN evaluators
  BY <1>d DEF Plans!InRole
<1>k. n \in Plans!KeptSamplers(c, s, d) => n \in DOMAIN samplers
  <2>1. s = <<>> => Plans!Range(s) = {}
    BY DEF Plans!Range
  <2> QED BY <2>1, Placed DEF Plans!KeptSamplers
<1>e. d[n].role = "sampler" => n \notin DOMAIN evaluators
  BY <1>d DEF Plans!InRole
<1>f. n \in DOMAIN samplers => s # <<>> /\ samplers = Plans!SamplerPlaces(c, s, d)
  <2>1. DOMAIN <<>> = {}
    OBVIOUS
  <2> QED BY <2>1
<1> HIDE DEF samplers, evaluators
<1>3. CASE n \in DOMAIN samplers
  <2>1. Wanted(n) = Plans!At(Plans!Deeper(c, d[n], samplers[n]), d[n].role)
    BY <1>3, <1>g
  <2>2. Plans!Deeper(c, d[n], samplers[n]) # d[n].run
    BY <1>2, <2>1
  <2>3. Plans!Deeper(c, d[n], samplers[n]) = samplers[n]
    BY <2>2 DEF Plans!Deeper
  <2>4. ASSUME n \in Plans!KeptSamplers(c, s, d) PROVE samplers[n] \in Plans!Controllers /\ Plans!Level(c, d[n].run) \in Plans!Controllers
    <3>1. samplers[n] = Plans!Level(c, d[n].run)
      BY <1>3, <1>f, <2>4, Placed
    <3> QED BY <2>2, <2>3, <3>1, LevelOf
  <2>5. Plans!Plan(c, s, d)[n].run = samplers[n] /\ Plans!Plan(c, s, d)[n].role = d[n].role
    BY <1>2, <2>1, <2>3 DEF Plans!At
  <2> QED BY <1>2, <1>3, <1>f, <2>1, <2>3, <2>4, <2>5
<1>4. CASE n \notin DOMAIN samplers /\ n \in DOMAIN evaluators
  <2>1. Wanted(n) = Plans!At(Plans!Deeper(c, d[n], evaluators[n]), d[n].role) /\ d[n].role # "sampler"
    BY <1>4, <1>e
  <2> QED BY <1>2, <1>4, <1>k, <2>1 DEF Plans!At
<1>5. CASE n \notin DOMAIN samplers /\ n \notin DOMAIN evaluators
  <2>1. Wanted(n) = Plans!At(c, d[n].role)
    BY <1>5 DEF Plans!Waiting
  <2> QED BY <1>2, <1>5, <1>k, <2>1 DEF Plans!At
<1> QED BY <1>3, <1>4, <1>5

\* A selected executable run with a sampler in the pool keeps one.
LEMMA KeptOn ==
  ASSUME Plans!RunAssumption, NEW c \in Plans!Controllers, NEW s \in Selections[c], NEW d,
         NEW r \in Plans!Range(s) \ Plans!Controllers, NEW n \in Workers, d[n] = Plans!At(r, "sampler"), d[n] # None
  PROVE  /\ r \in Executable(c) /\ Plans!Level(c, r) = r
         /\ n \in Plans!InRole(c, d, "sampler")
         /\ \E m \in Plans!KeptSamplers(c, s, d) : Plans!Level(c, d[m].run) = r
<1>1. r \in Executable(c)
  BY DEF Plans!RunAssumption, Plans!Range, Executable
<1>2. Plans!Level(c, r) = r /\ r \in Plans!Branches(c)
  BY <1>1, LevelOf
<1>3. d[n].run = r /\ d[n].role = "sampler"
  BY DEF Plans!At
<1>4. n \in Plans!InRole(c, d, "sampler")
  BY <1>2, <1>3 DEF Plans!InRole, Plans!Reusable
<1> DEFINE X == {m \in Plans!InRole(c, d, "sampler") : Plans!Level(c, d[m].run) = r}
<1>5. X \subseteq Nat /\ n \in X
  BY <1>2, <1>3, <1>4 DEF Plans!InRole, Plans!Reusable, Plans!RunAssumption
<1>6. PICK m \in X : \A x \in X : m <= x
  <2> HIDE DEF X
  <2> QED BY <1>5, Least
<1>7. m \in Plans!KeptSamplers(c, s, d)
  BY <1>6 DEF Plans!KeptSamplers
<1> QED BY <1>1, <1>2, <1>4, <1>6, <1>7

\* The plan moves a sampler only to an executable run of its selection that has none ...
LEMMA MovedAlone ==
  ASSUME Plans!RunAssumption, NEW c \in Plans!Controllers, NEW s \in Selections[c], NEW d, Assigned(d),
         NEW n \in Workers, Plans!Plan(c, s, d)[n] # d[n], NEW r \in Runs, Plans!Plan(c, s, d)[n] = Plans!At(r, "sampler")
  PROVE  /\ d[n].role = "sampler" /\ r \in Executable(c)
         /\ \A m \in Workers : d[m] # Plans!At(r, "sampler") \/ d[m] = None
         /\ \E i \in 1 .. Len(Need(c, s, d)) : Free(c, s, d)[i] = n /\ r = Need(c, s, d)[i]
<1>1. Plans!Plan(c, s, d)[n].run = r /\ Plans!Plan(c, s, d)[n].role = "sampler" /\ r \notin Plans!Controllers
  <2>1. r \notin Plans!Controllers
    BY DEF Runs
  <2> QED BY <2>1 DEF Plans!At
<1>2. Plans!Plan(c, s, d)[n] = Plans!At(Plans!Plan(c, s, d)[n].run, d[n].role)
  BY Planned
<1>3. d[n].role = "sampler"
  BY <1>1, <1>2 DEF Plans!At
<1>4. n \in DOMAIN Plans!SamplerPlaces(c, s, d) /\ n \notin Plans!KeptSamplers(c, s, d) /\ r = Plans!SamplerPlaces(c, s, d)[n]
  BY <1>1, <1>3, Planned
<1>5. PICK i \in 1 .. Len(Need(c, s, d)) : Free(c, s, d)[i] = n /\ r = Need(c, s, d)[i]
  BY <1>1, <1>4, Placed
<1>6. r \in Plans!Range(s) \ {Plans!Level(c, d[m].run) : m \in Plans!KeptSamplers(c, s, d)}
  <2> DEFINE R == Plans!Range(s) \ {Plans!Level(c, d[m].run) : m \in Plans!KeptSamplers(c, s, d)}
  <2>2. Need(c, s, d) = Plans!Among(s, R)
    BY DEF Need
  <2> HIDE DEF R
  <2>1. s \in Seq(Children[c]) /\ \A k, j \in DOMAIN s : s[k] = s[j] => k = j
    BY DEF Plans!RunAssumption
  <2>3. \A k \in 1 .. Len(Plans!Among(s, R)) : Plans!Among(s, R)[k] \in R
    BY <2>1, AmongEntries
  <2>4. r \in R
    BY <1>5, <2>2, <2>3
  <2> QED BY <2>4 DEF R
<1>7. r \in Executable(c)
  BY <1>1, <1>6 DEF Plans!RunAssumption, Plans!Range, Executable
<1>8. ASSUME NEW m \in Workers, d[m] = Plans!At(r, "sampler"), d[m] # None PROVE FALSE
  BY <1>1, <1>6, <1>8, KeptOn
<1> QED BY <1>3, <1>5, <1>7, <1>8

\* ... and no two to the same.
LEMMA MovedApart ==
  ASSUME Plans!RunAssumption, NEW c \in Plans!Controllers, NEW s \in Selections[c], NEW d, Assigned(d), NEW r \in Runs,
         NEW m \in Workers, Plans!Plan(c, s, d)[m] # d[m], Plans!Plan(c, s, d)[m] = Plans!At(r, "sampler"),
         NEW n \in Workers, Plans!Plan(c, s, d)[n] # d[n], Plans!Plan(c, s, d)[n] = Plans!At(r, "sampler")
  PROVE  m = n
<1>1. PICK i \in 1 .. Len(Need(c, s, d)) : Free(c, s, d)[i] = m /\ r = Need(c, s, d)[i]
  BY MovedAlone
<1>2. PICK j \in 1 .. Len(Need(c, s, d)) : Free(c, s, d)[j] = n /\ r = Need(c, s, d)[j]
  BY MovedAlone
<1>3. i = j
  <2>1. s \in Seq(Children[c]) /\ \A k, l \in DOMAIN s : s[k] = s[l] => k = l
    BY DEF Plans!RunAssumption
  <2> QED BY <1>1, <1>2, <2>1, AmongEntries DEF Need
<1> QED BY <1>1, <1>2, <1>3

\* The sampler of an executable run that stays selected is not moved.
LEMMA KeptStays ==
  ASSUME Plans!RunAssumption, NEW c \in Plans!Controllers, NEW s \in Selections[c], NEW d, Assigned(d), OneEach(d),
         NEW r \in Plans!Range(s) \ Plans!Controllers, NEW n \in Workers, d[n] = Plans!At(r, "sampler"), d[n] # None
  PROVE  Plans!Plan(c, s, d)[n] = d[n]
<1>1. /\ r \in Executable(c) /\ Plans!Level(c, r) = r
      /\ n \in Plans!InRole(c, d, "sampler")
      /\ \E m \in Plans!KeptSamplers(c, s, d) : Plans!Level(c, d[m].run) = r
  BY KeptOn
<1>2. PICK m \in Plans!KeptSamplers(c, s, d) : Plans!Level(c, d[m].run) = r
  BY <1>1
<1>3. m \in Workers /\ d[m].role = "sampler" /\ d[m].run = r /\ d[m] = Plans!At(r, "sampler")
  <2>1. m \in Plans!InRole(c, d, "sampler")
    BY DEF Plans!KeptSamplers
  <2>2. m \in Workers /\ d[m].role = "sampler" /\ d[m] = Plans!At(d[m].run, d[m].role)
    BY <2>1 DEF Plans!InRole, Plans!Reusable, Assigned
  <2> QED BY <1>2, <2>2, LevelOf
<1>4. m = n
  <2>1. r \in Runs
    BY <1>1 DEF Runs, Executable
  <2> QED BY <2>1, <1>3 DEF OneEach
<1> QED
  <2> SUFFICES ASSUME Plans!Plan(c, s, d)[n] # d[n] PROVE FALSE
    OBVIOUS
  <2>1. Plans!Level(c, d[n].run) \in Plans!Controllers
    BY <1>2, <1>4, Planned
  <2> QED BY <2>1, <1>1, <1>3, <1>4

-----------------------------------------------------------------------------
(* The invariant: what the planners and the operator leave on the nodes.   *)

\* The absence of an assignment is not an assignment.
NoAssignment == \A r, role : Plans!At(r, role) # None

\* A pending plan was read from nodes as they are at some time; since then no node became the sampler
\* of a run that is this controller's to place.
SnapOK(c, read) ==
  /\ read = [nodes |-> read.nodes, select |-> read.select] /\ read.select \in Selections[c]
  /\ Assigned(read.nodes) /\ OneEach(read.nodes)
  /\ \A r \in Executable(c) : \A n \in Workers :
       desired[n] = Plans!At(r, "sampler") => read.nodes[n] = Plans!At(r, "sampler")

PlanInv ==
  /\ pool = [n \in Workers |-> pool[n]] /\ desired = [n \in Workers |-> desired[n]] /\ ops \in Nat
  /\ snap = [c \in Plans!Controllers |-> snap[c]] /\ selected = [c \in Plans!Controllers |-> selected[c]]
  /\ \A c \in Plans!Controllers : selected[c] \in Selections[c]
  /\ \A n \in Workers : desired[n] = None \/ desired[n] = Plans!At(desired[n].run, pool[n])
  /\ OneEach(desired)
  /\ \A c \in Plans!Controllers : snap[c] = None \/ SnapOK(c, snap[c])

LEMMA PlanInit == ASSUME Plans!RunAssumption, Plans!Init PROVE PlanInv
<1>1. Root \notin Runs
  BY DEF Runs, Plans!RunAssumption
<1>2. \A n \in Workers : desired[n] = Plans!At(Root, pool[n]) /\ desired[n].run = Root
  BY DEF Plans!Init, Plans!At
<1>3. OneEach(desired)
  <2>1. ASSUME NEW r \in Runs, NEW n \in Workers PROVE desired[n] # Plans!At(r, "sampler")
    <3>1. desired[n].run = Root /\ r # Root
      BY <1>1, <1>2
    <3>2. Plans!At(r, "sampler").run = r
      BY DEF Plans!At
    <3> QED BY <3>1, <3>2
  <2> QED BY <2>1 DEF OneEach
<1> QED BY <1>2, <1>3 DEF PlanInv, Plans!Init

\* A node that a publication changes is as it was read and gets what was planned.
LEMMA Published ==
  ASSUME PlanInv, NEW c \in Plans!Controllers, Plans!Publish(c)
  PROVE  LET read == snap[c].nodes
             p == Plans!Plan(c, snap[c].select, read) IN
         /\ SnapOK(c, snap[c]) /\ snap[c] # None
         /\ desired' = [n \in Workers |-> desired'[n]] /\ snap' = [snap EXCEPT ![c] = None]
         /\ UNCHANGED <<pool, selected, ops>>
         /\ \A n \in Workers :
              desired'[n] = desired[n] \/ (p[n] # read[n] /\ read[n] = desired[n] /\ desired'[n] = p[n])
<1>1. snap[c] # None /\ SnapOK(c, snap[c])
  BY DEF Plans!Publish, PlanInv
<1> DEFINE read == snap[c].nodes
           p == Plans!Plan(c, snap[c].select, read)
<1>2. \/ /\ Plans!Accepted(read, p)
         /\ desired' = [n \in Workers |-> IF p[n] # read[n] THEN p[n] ELSE desired[n]]
      \/ UNCHANGED desired
  <2>1. PICK x \in {snap[c].nodes} : \E q \in {Plans!Plan(c, snap[c].select, x)} :
          \/ /\ Plans!Accepted(x, q)
             /\ desired' = [n \in Workers |-> IF q[n] # x[n] THEN q[n] ELSE desired[n]]
          \/ ~Plans!Accepted(x, q) /\ UNCHANGED desired
    BY Zenon DEF Plans!Publish
  <2>2. x = read
    BY <2>1
  <2> QED BY <2>1, <2>2, Zenon
<1>3. snap' = [snap EXCEPT ![c] = None] /\ UNCHANGED <<pool, selected, ops>>
  BY Zenon DEF Plans!Publish
<1> HIDE DEF p, read
<1>4. desired' = [n \in Workers |-> desired'[n]]
  BY <1>2 DEF PlanInv
<1>5. ASSUME NEW n \in Workers
      PROVE  desired'[n] = desired[n] \/ (p[n] # read[n] /\ read[n] = desired[n] /\ desired'[n] = p[n])
  BY <1>2 DEF Plans!Accepted
<1> QED BY <1>1, <1>3, <1>4, <1>5 DEF p, read

LEMMA PublishKeeps ==
  ASSUME Plans!RunAssumption, NoAssignment, PlanInv, NEW c \in Plans!Controllers, Plans!Publish(c)
  PROVE  PlanInv'
<1> DEFINE read == snap[c].nodes
           s == snap[c].select
           p == Plans!Plan(c, s, read)
           Changed(n) == p[n] # read[n] /\ read[n] = desired[n] /\ desired'[n] = p[n]
<1>1. /\ SnapOK(c, snap[c]) /\ snap[c] # None
      /\ desired' = [n \in Workers |-> desired'[n]] /\ snap' = [snap EXCEPT ![c] = None]
      /\ UNCHANGED <<pool, selected, ops>>
      /\ \A n \in Workers : desired'[n] = desired[n] \/ Changed(n)
  BY Published
<1>2. s \in Selections[c] /\ Assigned(read) /\ OneEach(read)
  BY <1>1 DEF SnapOK
<1>3. ASSUME NEW n \in Workers PROVE desired'[n] = None \/ desired'[n] = Plans!At(desired'[n].run, pool'[n])
  <2>1. CASE desired'[n] = desired[n]
    BY <1>1, <2>1 DEF PlanInv
  <2>2. CASE Changed(n)
    <3>1. read[n] # None /\ p[n] = Plans!At(p[n].run, read[n].role)
      BY <1>2, <2>2, Planned
    <3>2. desired[n] = Plans!At(desired[n].run, pool[n]) /\ read[n].role = pool[n]
      BY <2>2, <3>1 DEF PlanInv, Plans!At
    <3> QED BY <1>1, <2>2, <3>1, <3>2
  <2> QED BY <1>1, <2>1, <2>2
<1>4. ASSUME NEW n \in Workers, Changed(n), NEW r \in Runs, desired'[n] = Plans!At(r, "sampler")
      PROVE  r \in Executable(c) /\ \A m \in Workers : desired[m] # Plans!At(r, "sampler")
  <2>1. r \in Executable(c) /\ \A m \in Workers : read[m] # Plans!At(r, "sampler") \/ read[m] = None
    <3>1. p[n] # read[n] /\ p[n] = Plans!At(r, "sampler")
      BY <1>4
    <3> QED BY <1>2, <3>1, MovedAlone
  <2>2. \A m \in Workers : read[m] # Plans!At(r, "sampler")
    BY <2>1 DEF NoAssignment
  <2> QED BY <1>1, <2>1, <2>2 DEF SnapOK
<1>5. ASSUME NEW r \in Runs, NEW m \in Workers, NEW n \in Workers,
             desired'[m] = Plans!At(r, "sampler"), desired'[n] = Plans!At(r, "sampler")
      PROVE  m = n
  <2>1. CASE desired'[m] = desired[m] /\ desired'[n] = desired[n]
    BY <1>5, <2>1 DEF PlanInv, OneEach
  <2>2. CASE Changed(m) /\ Changed(n)
    BY <1>2, <1>5, <2>2, MovedApart
  <2>3. CASE Changed(m) /\ desired'[n] = desired[n]
    BY <1>4, <1>5, <2>3
  <2>4. CASE desired'[m] = desired[m] /\ Changed(n)
    BY <1>4, <1>5, <2>4
  <2> QED BY <1>1, <2>1, <2>2, <2>3, <2>4
<1>6. ASSUME NEW b \in Plans!Controllers, snap'[b] # None PROVE SnapOK(b, snap[b])'
  <2>1. b # c /\ snap'[b] = snap[b] /\ SnapOK(b, snap[b])
    BY <1>1, <1>6 DEF PlanInv
  <2>2. ASSUME NEW r \in Executable(b), NEW n \in Workers, desired'[n] = Plans!At(r, "sampler")
        PROVE  desired[n] = Plans!At(r, "sampler")
    <3>1. r \in Runs /\ r \notin Executable(c)
      BY <2>1 DEF Runs, Executable, Plans!RunAssumption
    <3> QED BY <1>1, <1>4, <2>2, <3>1
  <2> QED BY <2>1, <2>2 DEF SnapOK, Assigned, OneEach
<1>7. OneEach(desired')
  BY <1>5 DEF OneEach
<1>8. snap' = [b \in Plans!Controllers |-> snap'[b]]
  BY <1>1 DEF PlanInv
<1> QED BY <1>1, <1>3, <1>6, <1>7, <1>8 DEF PlanInv

\* What the operator does: nodes lose their assignment or wait on the root.
LEMMA OperatorKeeps ==
  ASSUME Plans!RunAssumption, NoAssignment, PlanInv, UNCHANGED <<selected, snap>>, ops' \in Nat,
         pool' = [n \in Workers |-> pool'[n]], desired' = [n \in Workers |-> desired'[n]],
         \A n \in Workers : \/ desired'[n] \in {None, Plans!At(Root, pool'[n])}
                            \/ desired'[n] = desired[n] /\ pool'[n] = pool[n]
  PROVE  PlanInv'
<1>1. Root \notin Runs /\ \A c \in Plans!Controllers : Root \notin Executable(c)
  BY DEF Runs, Executable, Plans!RunAssumption
<1>2. ASSUME NEW r, r # Root, NEW n \in Workers, desired'[n] = Plans!At(r, "sampler")
      PROVE  desired[n] = Plans!At(r, "sampler")
  <2>1. desired'[n] # None
    BY <1>2 DEF NoAssignment
  <2>2. desired'[n] # Plans!At(Root, pool'[n])
    BY <1>2 DEF Plans!At
  <2> QED BY <1>2, <2>1, <2>2
<1>3. OneEach(desired')
  BY <1>1, <1>2 DEF PlanInv, OneEach
<1>4. ASSUME NEW n \in Workers PROVE desired'[n] = None \/ desired'[n] = Plans!At(desired'[n].run, pool'[n])
  BY DEF PlanInv, Plans!At
<1>5. ASSUME NEW c \in Plans!Controllers, snap'[c] # None PROVE SnapOK(c, snap[c])'
  <2>1. snap'[c] = snap[c] /\ SnapOK(c, snap[c])
    BY <1>5 DEF PlanInv
  <2> QED BY <1>1, <1>2, <2>1 DEF SnapOK, Assigned, OneEach
<1> QED BY <1>3, <1>4, <1>5 DEF PlanInv

LEMMA PlanStep == ASSUME Plans!RunAssumption, NoAssignment, PlanInv, [Plans!Next]_Plans!vars PROVE PlanInv'
<1>1. ASSUME NEW c \in Plans!Controllers, Plans!Read(c) PROVE PlanInv'
  <2>1. /\ snap' = [snap EXCEPT ![c] = [nodes |-> desired, select |-> selected[c]]]
        /\ UNCHANGED <<pool, desired, selected, ops>>
    BY <1>1 DEF Plans!Read
  <2>2. snap' = [b \in Plans!Controllers |-> snap'[b]] /\ snap'[c] = [nodes |-> desired, select |-> selected[c]]
        /\ \A b \in Plans!Controllers \ {c} : snap'[b] = snap[b]
    BY <2>1 DEF PlanInv
  <2>3. SnapOK(c, [nodes |-> desired, select |-> selected[c]])
    <3>1. Assigned(desired)
      BY DEF PlanInv, Assigned, Plans!At
    <3> QED BY <3>1 DEF PlanInv, SnapOK
  <2>4. ASSUME NEW b \in Plans!Controllers PROVE snap'[b] = None \/ SnapOK(b, snap[b])'
    BY <2>1, <2>2, <2>3 DEF PlanInv, SnapOK, Assigned, OneEach
  <2> QED BY <2>1, <2>2, <2>4 DEF PlanInv, OneEach
<1>2. ASSUME NEW c \in Plans!Controllers, Plans!Publish(c) PROVE PlanInv'
  BY <1>2, PublishKeeps
<1>3. ASSUME NEW c \in Plans!Controllers, Plans!Die(c) PROVE PlanInv'
  <2>1. /\ snap' = [snap EXCEPT ![c] = None] /\ ops' \in Nat /\ UNCHANGED <<pool, desired, selected>>
    BY <1>3 DEF Plans!Die, PlanInv
  <2>2. ASSUME NEW b \in Plans!Controllers PROVE snap'[b] = None \/ SnapOK(b, snap[b])'
    BY <2>1 DEF PlanInv, SnapOK, Assigned, OneEach
  <2>3. snap' = [b \in Plans!Controllers |-> snap'[b]]
    BY <2>1 DEF PlanInv
  <2> QED BY <2>1, <2>2, <2>3 DEF PlanInv, OneEach
<1>4. ASSUME NEW c \in Plans!Controllers, Plans!Reselect(c) PROVE PlanInv'
  <2>1. PICK s \in Selections[c] : selected' = [selected EXCEPT ![c] = s]
    BY <1>4 DEF Plans!Reselect
  <2>2. ops' \in Nat /\ UNCHANGED <<pool, desired, snap>>
    BY <1>4 DEF Plans!Reselect, PlanInv
  <2>3. /\ selected' = [b \in Plans!Controllers |-> selected'[b]]
        /\ \A b \in Plans!Controllers : selected'[b] \in Selections[b]
    BY <2>1 DEF PlanInv
  <2>4. ASSUME NEW b \in Plans!Controllers PROVE snap'[b] = None \/ SnapOK(b, snap[b])'
    BY <2>2 DEF PlanInv, SnapOK, Assigned, OneEach
  <2> QED BY <2>2, <2>3, <2>4 DEF PlanInv, OneEach
<1>5. ASSUME NEW n \in Workers, Plans!UnassignNode(n) PROVE PlanInv'
  <2>1. /\ ops' \in Nat /\ UNCHANGED <<selected, snap>>
        /\ pool' = [pool EXCEPT ![n] = None] /\ desired' = [desired EXCEPT ![n] = None]
    BY <1>5 DEF Plans!UnassignNode, PlanInv
  <2>2. /\ pool' = [m \in Workers |-> pool'[m]] /\ desired' = [m \in Workers |-> desired'[m]]
        /\ \A m \in Workers : \/ desired'[m] \in {None, Plans!At(Root, pool'[m])}
                              \/ desired'[m] = desired[m] /\ pool'[m] = pool[m]
    BY <2>1 DEF PlanInv
  <2> QED BY <2>1, <2>2, OperatorKeeps
<1>6. ASSUME NEW n \in Workers, NEW role \in Plans!Roles, Plans!AssignNode(n, role) PROVE PlanInv'
  <2>1. /\ ops' \in Nat /\ UNCHANGED <<selected, snap>> /\ pool' = [pool EXCEPT ![n] = role]
        /\ desired' = [desired EXCEPT ![n] =
             IF pool[n] = role /\ desired[n] # None THEN Plans!At(desired[n].run, role) ELSE Plans!At(Root, role)]
    BY <1>6 DEF Plans!AssignNode, PlanInv
  <2>2. pool' = [m \in Workers |-> pool'[m]] /\ desired' = [m \in Workers |-> desired'[m]] /\ pool'[n] = role
    BY <2>1 DEF PlanInv
  <2>3. desired'[n] = Plans!At(Root, pool'[n]) \/ (desired'[n] = desired[n] /\ pool'[n] = pool[n])
    <3>1. CASE pool[n] = role /\ desired[n] # None
      <4>1. desired'[n] = Plans!At(desired[n].run, role)
        BY <2>1, <3>1 DEF PlanInv
      <4>2. desired[n] = Plans!At(desired[n].run, pool[n])
        BY <3>1 DEF PlanInv
      <4> QED BY <2>2, <3>1, <4>1, <4>2
    <3>2. CASE ~(pool[n] = role /\ desired[n] # None)
      <4>1. desired'[n] = IF pool[n] = role /\ desired[n] # None THEN Plans!At(desired[n].run, role) ELSE Plans!At(Root, role)
        BY <2>1 DEF PlanInv
      <4>2. desired'[n] = Plans!At(Root, role)
        BY <3>2, <4>1, Zenon
      <4>3. pool'[n] = role
        BY <2>2
      <4> QED BY <4>2, <4>3, Zenon
    <3> QED BY <3>1, <3>2
  <2>4. \A m \in Workers : m # n => desired'[m] = desired[m] /\ pool'[m] = pool[m]
    BY <2>1 DEF PlanInv
  <2> QED BY <2>1, <2>2, <2>3, <2>4, OperatorKeeps
<1>7. ASSUME Plans!PausePool PROVE PlanInv'
  <2>1. ops' \in Nat /\ UNCHANGED <<pool, selected, snap>> /\ desired' = [m \in Workers |-> None]
    BY <1>7 DEF Plans!PausePool, PlanInv
  <2>2. /\ pool' = [m \in Workers |-> pool'[m]] /\ desired' = [m \in Workers |-> desired'[m]]
        /\ \A m \in Workers : desired'[m] \in {None, Plans!At(Root, pool'[m])}
    BY <2>1 DEF PlanInv
  <2> QED BY <2>1, <2>2, OperatorKeeps
<1>8. ASSUME Plans!ResumePool PROVE PlanInv'
  <2>1. /\ ops' \in Nat /\ UNCHANGED <<pool, selected, snap>>
        /\ desired' = [n \in Workers |-> IF pool[n] # None /\ desired[n] = None
                                         THEN Plans!At(Root, pool[n]) ELSE desired[n]]
    BY <1>8 DEF Plans!ResumePool, PlanInv
  <2>2. /\ pool' = [m \in Workers |-> pool'[m]] /\ desired' = [m \in Workers |-> desired'[m]]
        /\ \A m \in Workers : \/ desired'[m] \in {None, Plans!At(Root, pool'[m])}
                              \/ desired'[m] = desired[m] /\ pool'[m] = pool[m]
    BY <2>1 DEF PlanInv
  <2> QED BY <2>1, <2>2, OperatorKeeps
<1>9. CASE UNCHANGED Plans!vars
  BY <1>9 DEF Plans!vars, PlanInv, SnapOK, Assigned, OneEach
<1> QED BY <1>1, <1>2, <1>3, <1>4, <1>5, <1>6, <1>7, <1>8, <1>9 DEF Plans!Next

\* The invariant of the plans of any controllers, workers and selections: every node is on a run in
\* its pool role, and pending plans know of every sampler on the runs they place.
THEOREM PlanInvariance == ASSUME Plans!RunAssumption, NoAssignment PROVE Plans!Spec => []PlanInv
<1>1. Plans!Init => PlanInv
  BY PlanInit
<1>2. PlanInv /\ [Plans!Next]_Plans!vars => PlanInv'
  BY PlanStep
<1> QED BY <1>1, <1>2, PTL DEF Plans!Spec

\* Nested planners (controller_child.rs, update_desired_assignments): however stale the reads of two
\* levels of controllers, a node only works in the role its pool has it in.
THEOREM PoolRolesKept == ASSUME Plans!RunAssumption, NoAssignment PROVE Plans!Spec => []Plans!PoolOwned
<1>1. PlanInv => Plans!PoolOwned
  BY DEF PlanInv, Plans!PoolOwned, Plans!At
<1> QED BY <1>1, PlanInvariance, PTL

LEMMA SingleSampler == ASSUME OneEach(desired) PROVE Plans!OneSampler
<1> SUFFICES ASSUME NEW r \in Runs PROVE Cardinality(Plans!Samplers(r)) <= 1
  BY PlansCardinality DEF Plans!OneSampler, Runs
<1>1. CASE Plans!Samplers(r) = {}
  BY <1>1, FS_EmptySet
<1>2. ASSUME NEW n \in Plans!Samplers(r) PROVE Cardinality(Plans!Samplers(r)) <= 1
  <2>1. Plans!Samplers(r) = {n}
    BY DEF Plans!Samplers, OneEach
  <2>2. Cardinality(Plans!Samplers(r)) = 1
    BY <2>1, FS_Singleton, Zenon
  <2> QED BY <2>2
<1> QED BY <1>1, <1>2

\* And never do two of them, or a planner and the operator, leave two samplers on an executable run.
THEOREM SamplersAlone == ASSUME Plans!RunAssumption, NoAssignment PROVE Plans!Spec => []Plans!OneSampler
<1>1. PlanInv => Plans!OneSampler
  BY SingleSampler DEF PlanInv
<1> QED BY <1>1, PlanInvariance, PTL

\* A controller whose snapshot is gone published, or died.
LEMMA SnapshotUsed ==
  ASSUME Plans!RunAssumption, PlanInv, NoAssignment, [Plans!Next]_Plans!vars, NEW c \in Plans!Controllers, snap[c] # None, snap'[c] = None
  PROVE  Plans!Publish(c) \/ Plans!Die(c)
<1>1. ASSUME NEW b \in Plans!Controllers, Plans!Read(b) \/ Plans!Publish(b) \/ Plans!Die(b) PROVE Plans!Publish(c) \/ Plans!Die(c)
  <2>1. CASE b = c
    <3>1. ~Plans!Read(c)
      BY DEF Plans!Read
    <3> QED BY <1>1, <2>1, <3>1
  <2>2. CASE b # c
    <3>1. \E e : snap' = [snap EXCEPT ![b] = e]
      <4>1. Plans!Read(b) => \E e : snap' = [snap EXCEPT ![b] = e]
        BY Zenon DEF Plans!Read
      <4>2. Plans!Publish(b) => \E e : snap' = [snap EXCEPT ![b] = e]
        BY Zenon DEF Plans!Publish
      <4>3. Plans!Die(b) => \E e : snap' = [snap EXCEPT ![b] = e]
        BY Zenon DEF Plans!Die
      <4> QED BY <1>1, <4>1, <4>2, <4>3
    <3>2. snap'[c] = snap[c]
      BY <2>2, <3>1 DEF PlanInv
    <3> QED BY <3>2
  <2> QED BY <2>1, <2>2
<1>2. snap' # snap
  OBVIOUS
<1>3. /\ \A b \in Plans!Controllers : ~Plans!Reselect(b)
      /\ \A n \in Workers : ~Plans!UnassignNode(n) /\ \A role \in Plans!Roles : ~Plans!AssignNode(n, role)
      /\ ~Plans!PausePool /\ ~Plans!ResumePool /\ Plans!vars' # Plans!vars
  BY <1>2 DEF Plans!Reselect, Plans!UnassignNode, Plans!AssignNode, Plans!PausePool,
       Plans!ResumePool, Plans!vars
<1> QED BY <1>1, <1>3 DEF Plans!Next

LEMMA FreedNever == ASSUME Plans!RunAssumption, NoAssignment, PlanInv, [Plans!Next]_Plans!vars PROVE Plans!NeverFreed
<1> SUFFICES ASSUME NEW c \in Plans!Controllers, snap[c] # None, snap'[c] = None,
                    NEW n \in Workers, desired[n] # None
             PROVE  desired'[n] # None
  BY DEF Plans!NeverFreed
<1>1. CASE Plans!Die(c)
  BY <1>1 DEF Plans!Die
<1>2. CASE Plans!Publish(c)
  <2> DEFINE read == snap[c].nodes
             p == Plans!Plan(c, snap[c].select, read)
  <2>1. SnapOK(c, snap[c]) /\ (desired'[n] = desired[n] \/ (p[n] # read[n] /\ desired'[n] = p[n]))
    BY <1>2, Published
  <2>2. ASSUME p[n] # read[n] PROVE p[n] = Plans!At(p[n].run, read[n].role)
    BY <2>1, <2>2, Planned DEF SnapOK
  <2> QED BY <2>1, <2>2 DEF NoAssignment
<1> QED BY <1>1, <1>2, SnapshotUsed

LEMMA StaysPut == ASSUME Plans!RunAssumption, NoAssignment, PlanInv, [Plans!Next]_Plans!vars PROVE Plans!SamplerStays
<1> SUFFICES ASSUME NEW c \in Plans!Controllers, snap[c] # None, snap'[c] = None, ops' = ops,
                    NEW r \in Plans!Range(snap[c].select) \ Plans!Controllers, NEW n \in Plans!Samplers(r)
             PROVE  Plans!Samplers(r)' = Plans!Samplers(r)
  BY DEF Plans!SamplerStays
<1>1. Plans!Publish(c)
  <2>1. ~Plans!Die(c)
    BY DEF Plans!Die, PlanInv
  <2> QED BY <2>1, SnapshotUsed
<1> DEFINE read == snap[c].nodes
           s == snap[c].select
           p == Plans!Plan(c, s, read)
<1>2. /\ SnapOK(c, snap[c])
      /\ desired'[n] = desired[n] \/ (p[n] # read[n] /\ read[n] = desired[n] /\ desired'[n] = p[n])
  BY <1>1, Published DEF Plans!Samplers
<1>3. s \in Selections[c] /\ Assigned(read) /\ OneEach(read)
  BY <1>2 DEF SnapOK
<1>4. r \in Executable(c) /\ r \in Runs
  <2>1. r \in Executable(c)
    BY <1>3 DEF Plans!RunAssumption, Plans!Range, Executable
  <2> QED BY <2>1 DEF Executable, Runs
<1>5. n \in Workers /\ desired[n] = Plans!At(r, "sampler") /\ read[n] = Plans!At(r, "sampler") /\ read[n] # None
  BY <1>2, <1>4 DEF Plans!Samplers, SnapOK, NoAssignment
<1>6. p[n] = read[n]
  BY <1>3, <1>5, KeptStays
<1>7. desired'[n] = Plans!At(r, "sampler")
  BY <1>2, <1>5, <1>6
<1>8. PlanInv'
  BY PlanStep
<1>9. \A m \in Workers : desired[m] = Plans!At(r, "sampler") => m = n
  BY <1>4, <1>5 DEF PlanInv, OneEach
<1>10. \A m \in Workers : desired'[m] = Plans!At(r, "sampler") => m = n
  BY <1>4, <1>5, <1>7, <1>8 DEF PlanInv, OneEach
<1> QED BY <1>5, <1>7, <1>9, <1>10 DEF Plans!Samplers

\* Publishing a plan frees no node, and leaves every executable run that it selects the sampler it
\* had, whatever was selected before and whatever the other controller and the operator did since.
THEOREM PublishingKeeps ==
  ASSUME Plans!RunAssumption, NoAssignment PROVE Plans!Spec => [][Plans!NeverFreed /\ Plans!SamplerStays]_Plans!vars
<1>1. PlanInv /\ [Plans!Next]_Plans!vars => [Plans!NeverFreed /\ Plans!SamplerStays]_Plans!vars
  BY FreedNever, StaysPut
<1> QED BY <1>1, PlanInvariance, PTL DEF Plans!Spec

\* Together, for any workers, controllers of two levels, selections and bounds.
THEOREM PlansSafe == ASSUME Plans!RunAssumption, NoAssignment PROVE Plans!Spec => Plans!PlansAgree
<1>1. PlanInv /\ [Plans!Next]_Plans!vars => [Plans!SamplerStays /\ Plans!NeverFreed]_Plans!vars
  BY FreedNever, StaysPut
<1>2. PlanInv => Plans!PoolOwned /\ Plans!OneSampler
  BY SingleSampler DEF PlanInv, Plans!PoolOwned, Plans!At
<1> QED BY <1>1, <1>2, PlanInvariance, PTL DEF Plans!Spec, Plans!PlansAgree

-----------------------------------------------------------------------------
(* Scans and tuning.                                                      *)

LEMMA TrialCardinality == ASSUME NEW S PROVE Trial!Cardinality(S) = Cardinality(S)
  BY DEF Trial!Cardinality, Cardinality

LEMMA TrialFinite == ASSUME NEW S PROVE Trial!IsFiniteSet(S) <=> IsFiniteSet(S)
  BY DEF Trial!IsFiniteSet, IsFiniteSet

\* A nonempty finite set of naturals has a largest element.
LEMMA Greatest ==
  ASSUME NEW S, IsFiniteSet(S), S \subseteq Nat, S # {}
  PROVE  \E x \in S : \A y \in S : y <= x
<1> DEFINE Bad == {T \in FiniteSubsetsOf(S) : T # {} /\ ~\E x \in T : \A y \in T : y <= x}
<1> SUFFICES ASSUME Bad # {} PROVE FALSE
  BY DEF FiniteSubsetsOf
<1>1. PICK T \in Bad : \A U \in Bad : <<U, T>> \notin StrictSubsetOrdering(S)
  <2>1. Bad \subseteq FiniteSubsetsOf(S)
    OBVIOUS
  <2> HIDE DEF Bad
  <2> QED BY <2>1, FS_StrictSubsetOrderingWellFounded, WFMin
<1>2. T \subseteq S /\ T \subseteq Nat /\ IsFiniteSet(T) /\ T # {} /\ ~\E x \in T : \A y \in T : y <= x
  BY <1>1 DEF FiniteSubsetsOf
<1>3. PICK a \in T : TRUE
  BY <1>2
<1> DEFINE U == T \ {a}
<1>4. U \in FiniteSubsetsOf(S) /\ U # T /\ U \subseteq T
  BY <1>2, <1>3, FS_RemoveElement DEF FiniteSubsetsOf
<1>5. <<U, T>> \in StrictSubsetOrdering(S)
  BY <1>2, <1>4 DEF StrictSubsetOrdering
<1>6. U \notin Bad
  BY <1>1, <1>5
<1>7. CASE U = {}
  <2>1. T = {a}
    BY <1>3, <1>7
  <2> QED BY <1>2, <2>1
<1>8. CASE U # {}
  <2>1. PICK m \in U : \A y \in U : y <= m
    BY <1>4, <1>6, <1>8
  <2>2. \A y \in T : y = a \/ y <= m
    BY <2>1
  <2>3. a \in Nat /\ m \in Nat /\ m \in T
    BY <1>2, <1>3, <2>1
  <2>4. CASE m <= a
    <3>1. \A y \in T : y <= a
      BY <1>2, <2>2, <2>3, <2>4
    <3> QED BY <1>2, <1>3, <3>1
  <2>5. CASE ~(m <= a)
    <3>1. \A y \in T : y <= m
      BY <1>2, <2>2, <2>3, <2>5
    <3> QED BY <1>2, <2>3, <3>1
  <2> QED BY <2>4, <2>5
<1> QED BY <1>7, <1>8

NoChild == \A s, p, m : None # [state |-> s, pt |-> p, measured |-> m]
TrialsGiven == Trial!TrialsAssumption /\ Trial!SpacesAssumption /\ NoChild

\* The indices of the children cover every plan.
LEMMA IndexCovers ==
  ASSUME TrialsGiven
  PROVE  /\ Trial!MaxIndex \in Int /\ MaxTrials <= Trial!MaxIndex + 1
         /\ \A s \in Spaces : Trial!GridLen(s) <= Trial!MaxIndex + 1
<1> DEFINE G == {Trial!GridLen(s) : s \in Spaces}
           S == {MaxTrials} \cup G
<1>1. MaxTrials \in Nat /\ IsFiniteSet(Spaces) /\ \A s \in Spaces : Trial!GridLen(s) \in Nat
  BY TrialFinite DEF TrialsGiven, Trial!TrialsAssumption, Trial!SpacesAssumption
<1>2. IsFiniteSet(G)
  <2> DEFINE f == [s \in Spaces |-> Trial!GridLen(s)]
  <2>1. f \in Surjection(Spaces, G)
    BY DEF Surjection
  <2> QED BY <1>1, <2>1, FS_Surjection
<1>3. IsFiniteSet(S) /\ S \subseteq Nat /\ S # {}
  <2>1. IsFiniteSet(G \cup {MaxTrials})
    BY <1>2, FS_AddElement
  <2>2. S = G \cup {MaxTrials}
    OBVIOUS
  <2> QED BY <1>1, <2>1, <2>2
<1>4. \E x \in S : \A y \in S : x >= y
  <2> HIDE DEF S
  <2>1. PICK x \in S : \A y \in S : y <= x
    BY <1>3, Greatest
  <2> QED BY <2>1, <1>3
<1>5. Trial!Max(S) \in S /\ \A y \in S : Trial!Max(S) >= y
  <2> HIDE DEF S
  <2> QED BY <1>4 DEF Trial!Max
<1>6. Trial!MaxIndex = Trial!Max(S) - 1
  BY DEF Trial!MaxIndex
<1> DEFINE m == Trial!Max(S)
<1>7. m \in Nat /\ MaxTrials <= m /\ \A s \in Spaces : Trial!GridLen(s) <= m
  BY <1>1, <1>3, <1>5
<1> HIDE DEF m
<1>8. Trial!MaxIndex = m - 1
  BY <1>6 DEF m
<1> QED BY <1>7, <1>8, <1>1

LEMMA PlannedIndices ==
  ASSUME TrialsGiven, kind \in Kinds, space \in Spaces
  PROVE  /\ Trial!Total \in Nat /\ Trial!Planned = 0 .. Trial!Total - 1 /\ Trial!Planned \subseteq Trial!Index
         /\ IsFiniteSet(Trial!Index) /\ IsFiniteSet(Trial!Planned) /\ Cardinality(Trial!Planned) = Trial!Total
         /\ Trial!Index \subseteq Nat
<1>1. Trial!Total \in Nat
  BY DEF Trial!Total, TrialsGiven, Trial!TrialsAssumption, Trial!SpacesAssumption
<1>2. Trial!MaxIndex \in Int /\ Trial!Total <= Trial!MaxIndex + 1
  BY IndexCovers DEF Trial!Total
<1>3. Trial!Planned = 0 .. Trial!Total - 1 /\ Trial!Index = 0 .. Trial!MaxIndex
  BY DEF Trial!Planned, Trial!Index
<1>4. IsFiniteSet(Trial!Index) /\ IsFiniteSet(Trial!Planned) /\ Cardinality(Trial!Planned) = Trial!Total
  BY <1>1, <1>2, <1>3, FS_Interval
<1> QED BY <1>1, <1>2, <1>3, <1>4

InTick == ctl.pc \in {"decide", "create", "publish"}
Watched == {i \in Trial!Existing \ Trial!Forgotten : kid[i].state = "active"}
Whole == \A i \in Trial!Planned : kid[i] # None /\ kid[i].state = "completed" /\ kid[i].measured

\* Children and remembered trials are planned ones.
ChildrenPlanned ==
  /\ kind \in Kinds /\ space \in Spaces
  /\ kid = [i \in Trial!Index |-> kid[i]] /\ out = [i \in Trial!Index |-> out[i]]
  /\ \A i \in Trial!Index : kid[i] # None =>
       i \in Trial!Planned /\ kid[i] = [state |-> kid[i].state, pt |-> kid[i].pt, measured |-> kid[i].measured]
  /\ Trial!Remembered \subseteq Trial!Planned /\ placed \subseteq Trial!Existing

\* A tick has the trials of its plan, and counted their active children before it makes room.
TickInv ==
  /\ ctl.pc \in {"idle", "decide", "create", "publish", "release", "finish"}
  /\ InTick => /\ DOMAIN ctl.trials \subseteq Trial!Planned
               /\ kind # "egobox" => DOMAIN ctl.trials = Trial!Planned
               /\ kind = "egobox" => Trial!Remembered \subseteq DOMAIN ctl.trials
  /\ ctl.pc = "decide" => \A i \in DOMAIN ctl.trials :
       /\ kid[i] # None /\ kid[i].state = "active" => ctl.trials[i].status = "active"
       /\ ctl.trials[i].status = "completed" => kid[i] # None /\ kid[i].state = "completed" /\ kid[i].measured
  /\ ctl.pc \in {"create", "publish"} =>
       ctl = [pc |-> ctl.pc, trials |-> ctl.trials, room |-> ctl.room, made |-> ctl.made]
  /\ ctl.pc \in {"decide", "create"} =>
       \A i \in DOMAIN ctl.trials : ctl.trials[i].status = "active" => i \in Trial!Existing
  /\ ctl.pc = "create" => ctl.made \subseteq Trial!Existing
  /\ ctl.pc = "create" => ctl.room \in Nat /\ Cardinality(Watched) + ctl.room <= Concurrent

\* A task that ends well has all its children.
EndInv ==
  /\ ctl.pc \in {"release", "finish"} => ctl = [pc |-> ctl.pc, to |-> ctl.to] /\ (ctl.to = "completed" => Whole)
  /\ task = "completed" => Whole

TrialsInv == ChildrenPlanned /\ TickInv /\ EndInv /\ Cardinality(Watched) <= Concurrent

LEMMA WatchedFinite ==
  ASSUME TrialsGiven, ChildrenPlanned
  PROVE  /\ Watched \subseteq Trial!Index /\ IsFiniteSet(Watched) /\ Cardinality(Watched) \in Nat
         /\ \A S \in SUBSET Watched : IsFiniteSet(S) /\ Cardinality(S) \in Nat /\ Cardinality(S) <= Cardinality(Watched)
<1>1. Watched \subseteq Trial!Index
  BY DEF Watched, Trial!Existing
<1>2. IsFiniteSet(Watched) /\ Cardinality(Watched) \in Nat
  BY <1>1, PlannedIndices, FS_Subset, FS_CardinalityType DEF ChildrenPlanned
<1>3. ASSUME NEW S \in SUBSET Watched PROVE IsFiniteSet(S) /\ Cardinality(S) \in Nat /\ Cardinality(S) <= Cardinality(Watched)
  BY <1>2, FS_Subset, FS_CardinalityType
<1> QED BY <1>1, <1>2, <1>3

\* What a tick watches: the children of its plan, ...
LEMMA WatchedInTick ==
  ASSUME ChildrenPlanned, TickInv, InTick
  PROVE  Watched = {i \in DOMAIN ctl.trials \cap Trial!Index : kid[i] # None /\ kid[i].state = "active"}
BY DEF ChildrenPlanned, TickInv, InTick, Watched, Trial!Existing, Trial!Forgotten, Trial!Remembered

\* ... and between ticks those that model-based search remembers.
LEMMA WatchedBetween ==
  ASSUME ~InTick
  PROVE  Watched = {i \in Trial!Existing : kid[i].state = "active" /\ (kind = "egobox" => out[i] # None)}
BY DEF InTick, Watched, Trial!Existing, Trial!Forgotten, Trial!Remembered

LEMMA TrialsInit ==
  ASSUME TrialsGiven, Trial!Init
  PROVE  TrialsInv
<1>1. kind \in Kinds /\ space \in Spaces /\ Concurrent \in Nat
  BY DEF Trial!Init, TrialsGiven, Trial!TrialsAssumption
<1>2. Trial!Existing = {} /\ Trial!Remembered = {}
  BY DEF Trial!Init, Trial!Existing, Trial!Remembered
<1>3. Watched = {}
  BY <1>2 DEF Watched
<1>4. ctl.pc = "idle" /\ task = "active"
  BY DEF Trial!Init, Trial!IdleCtl
<1>5. kid = [i \in Trial!Index |-> None] /\ out = [i \in Trial!Index |-> None]
  BY DEF Trial!Init
<1>6. ChildrenPlanned
  BY <1>1, <1>2, <1>5 DEF ChildrenPlanned, Trial!Init
<1>7. TickInv /\ EndInv
  BY <1>4 DEF TickInv, EndInv, InTick
<1> QED BY <1>1, <1>3, <1>6, <1>7, FS_EmptySet DEF TrialsInv

LEMMA PlanDomain ==
  ASSUME TrialsGiven, ChildrenPlanned, NEW pl \in Trial!Plans
  PROVE  /\ DOMAIN pl \subseteq Trial!Planned
         /\ kind # "egobox" => DOMAIN pl = Trial!Planned
         /\ kind = "egobox" => \E N \in SUBSET (Trial!Planned \ Trial!Existing) : DOMAIN pl = Trial!Remembered \cup N
<1>1. kind \in {"scan", "grid", "random", "egobox"}
  BY DEF TrialsGiven, Trial!TrialsAssumption, ChildrenPlanned
<1>2. CASE kind \in {"scan", "grid"}
  BY <1>2 DEF Trial!Plans
<1>3. CASE kind = "random"
  BY <1>3 DEF Trial!Plans
<1>4. CASE kind = "egobox"
  <2>1. PICK f \in Trial!NewPoints :
          pl = [i \in Trial!Remembered \cup Trial!NewIndices |-> IF i \in Trial!NewIndices THEN f[i] ELSE out[i].pt]
    BY <1>4 DEF Trial!Plans
  <2>2. DOMAIN pl = Trial!Remembered \cup Trial!NewIndices
    BY <2>1
  <2>3. Trial!NewIndices \in SUBSET (Trial!Planned \ Trial!Existing)
    BY DEF Trial!NewIndices
  <2> QED BY <1>4, <2>2, <2>3 DEF ChildrenPlanned
<1> QED BY <1>1, <1>2, <1>3, <1>4

LEMMA ObserveStep ==
  ASSUME TrialsGiven, TrialsInv, Trial!Observe
  PROVE  TrialsInv'
<1>1. UNCHANGED <<kind, space, draws, task, kid, out, placed, faults>> /\ ctl = Trial!IdleCtl
  BY DEF Trial!Observe, Trial!definition
<1>2. PICK pl \in Trial!Plans :
        ctl' = [pc |-> "decide", trials |-> [i \in DOMAIN pl |-> [pt |-> pl[i], status |-> Trial!Status(i)]]]
  BY DEF Trial!Observe
<1>3. /\ ctl'.pc = "decide" /\ DOMAIN ctl'.trials = DOMAIN pl
      /\ \A i \in DOMAIN pl : ctl'.trials[i].status = Trial!Status(i)
  BY <1>2
<1>4. UNCHANGED <<Trial!Planned, Trial!Existing, Trial!Remembered>>
  BY <1>1 DEF Trial!Planned, Trial!Total, Trial!Existing, Trial!Remembered
<1>5. ChildrenPlanned /\ ChildrenPlanned'
  BY <1>1, <1>4 DEF TrialsInv, ChildrenPlanned
<1>6. PICK N \in SUBSET (Trial!Planned \ Trial!Existing) : kind = "egobox" => DOMAIN pl = Trial!Remembered \cup N
  BY <1>5, PlanDomain
<1>7. /\ DOMAIN pl \subseteq Trial!Planned
      /\ kind # "egobox" => DOMAIN pl = Trial!Planned
  BY <1>5, PlanDomain
<1>8. TickInv'
  <2>1. \A i \in DOMAIN pl :
       /\ kid[i] # None /\ kid[i].state = "active" => Trial!Status(i) = "active"
       /\ Trial!Status(i) = "completed" => kid[i] # None /\ kid[i].state = "completed" /\ kid[i].measured
    BY DEF Trial!Status
  <2>2. /\ DOMAIN ctl'.trials \subseteq Trial!Planned'
        /\ kind' # "egobox" => DOMAIN ctl'.trials = Trial!Planned'
        /\ kind' = "egobox" => Trial!Remembered' \subseteq DOMAIN ctl'.trials
    BY <1>1, <1>3, <1>4, <1>6, <1>7
  <2>3. \A i \in DOMAIN ctl'.trials :
       /\ kid'[i] # None /\ kid'[i].state = "active" => ctl'.trials[i].status = "active"
       /\ ctl'.trials[i].status = "completed" => kid'[i] # None /\ kid'[i].state = "completed" /\ kid'[i].measured
    BY <1>1, <1>3, <2>1
  <2>4. \A i \in DOMAIN ctl'.trials : ctl'.trials[i].status = "active" => i \in Trial!Existing'
    <3>1. \A i \in DOMAIN pl : i \in Trial!Index
      BY <1>5, <1>7, PlannedIndices DEF ChildrenPlanned
    <3>2. \A i \in DOMAIN pl : Trial!Status(i) = "active" => i \in Trial!Existing
      BY <3>1 DEF Trial!Status, Trial!Existing
    <3> QED BY <1>3, <1>4, <3>2
  <2> QED BY <1>3, <2>2, <2>3, <2>4 DEF TickInv
<1>9. EndInv'
  BY <1>1, <1>3, <1>4 DEF TrialsInv, EndInv, Whole
<1>10. Watched' \subseteq Watched
  <2>1. Watched = {i \in Trial!Existing : kid[i].state = "active" /\ (kind = "egobox" => out[i] # None)}
    BY <1>1, WatchedBetween DEF InTick, Trial!IdleCtl
  <2>2. InTick'
    BY <1>3 DEF InTick
  <2>3. Watched' = {i \in DOMAIN ctl'.trials \cap Trial!Index : kid'[i] # None /\ kid'[i].state = "active"}
    BY <1>5, <1>8, <2>2 DEF ChildrenPlanned, TickInv, InTick, Watched, Trial!Existing, Trial!Forgotten, Trial!Remembered
  <2>4. ASSUME NEW i \in Watched' PROVE i \in Watched
    <3>1. i \in DOMAIN pl /\ i \in Trial!Index /\ kid[i] # None /\ kid[i].state = "active" /\ i \in Trial!Existing
      BY <1>1, <1>3, <2>3 DEF Trial!Existing
    <3>2. kind = "egobox" => out[i] # None
      BY <1>6, <3>1 DEF Trial!Remembered
    <3> QED BY <2>1, <3>1, <3>2
  <2> QED BY <2>4
<1>11. Cardinality(Watched') <= Concurrent
  <2>1. /\ Cardinality(Watched') \in Nat /\ Cardinality(Watched) \in Nat
        /\ Cardinality(Watched') <= Cardinality(Watched) /\ Cardinality(Watched) <= Concurrent
    BY <1>5, <1>10, WatchedFinite DEF TrialsInv
  <2>2. Concurrent \in Nat
    BY DEF TrialsGiven, Trial!TrialsAssumption
  <2> QED BY <2>1, <2>2
<1> QED BY <1>5, <1>8, <1>9, <1>11 DEF TrialsInv

\* Between ticks nothing more is watched, whether the output was stored or not.
LEMMA TickEnds ==
  ASSUME TrialsGiven, TrialsInv, UNCHANGED <<kind, space, draws, kid>>, placed' \subseteq placed, ~InTick',
         out' = out \/ (InTick /\ Trial!Persisted)
  PROVE  ChildrenPlanned' /\ Cardinality(Watched') <= Concurrent
<1>1. UNCHANGED <<Trial!Planned, Trial!Existing>>
  BY DEF Trial!Planned, Trial!Total, Trial!Existing
<1>2. /\ out' = [i \in Trial!Index |-> out'[i]]
      /\ InTick /\ Trial!Persisted => \A i \in Trial!Index : out'[i] # None => i \in DOMAIN ctl.trials
  BY DEF Trial!Persisted, TrialsInv, ChildrenPlanned
<1>3. InTick => /\ DOMAIN ctl.trials \subseteq Trial!Planned
                /\ kind # "egobox" => DOMAIN ctl.trials = Trial!Planned
                /\ kind = "egobox" => Trial!Remembered \subseteq DOMAIN ctl.trials
  BY DEF TrialsInv, TickInv
<1>4. /\ \A i \in Trial!Index : out'[i] # None => out[i] # None \/ (InTick /\ i \in DOMAIN ctl.trials)
      /\ Trial!Remembered' \subseteq Trial!Planned
  <2>1. ASSUME NEW i \in Trial!Index, out'[i] # None PROVE out[i] # None \/ (InTick /\ i \in DOMAIN ctl.trials)
    BY <1>2, <2>1
  <2>2. \A i \in Trial!Index : out[i] # None => i \in Trial!Planned
    BY DEF TrialsInv, ChildrenPlanned, Trial!Remembered
  <2>3. ASSUME NEW i \in Trial!Index, out'[i] # None PROVE i \in Trial!Planned
    BY <1>3, <2>1, <2>2, <2>3
  <2> QED BY <2>1, <2>3 DEF Trial!Remembered
<1>5. ChildrenPlanned'
  BY <1>1, <1>2, <1>4 DEF TrialsInv, ChildrenPlanned
<1>6. Watched' = {i \in Trial!Existing : kid[i].state = "active" /\ (kind = "egobox" => out'[i] # None)}
  BY <1>1 DEF InTick, Watched, Trial!Existing, Trial!Forgotten, Trial!Remembered
<1>7. ASSUME NEW i \in Watched' PROVE i \in Watched
  <2>1. i \in Trial!Existing /\ i \in Trial!Index /\ kid[i] # None /\ kid[i].state = "active" /\ (kind = "egobox" => out'[i] # None)
    BY <1>6 DEF Trial!Existing
  <2>2. CASE InTick
    <3>1. Watched = {j \in DOMAIN ctl.trials \cap Trial!Index : kid[j] # None /\ kid[j].state = "active"}
      BY <2>2, WatchedInTick DEF TrialsInv
    <3>2. i \in DOMAIN ctl.trials
      <4>1. CASE kind = "egobox"
        <5>1. out[i] # None \/ i \in DOMAIN ctl.trials
          BY <1>4, <2>1, <4>1
        <5> QED BY <1>3, <2>1, <2>2, <4>1, <5>1 DEF Trial!Remembered
      <4>2. CASE kind # "egobox"
        <5>1. i \in Trial!Planned
          BY <2>1 DEF TrialsInv, ChildrenPlanned
        <5> QED BY <1>3, <2>2, <4>2, <5>1
      <4> QED BY <4>1, <4>2
    <3> QED BY <2>1, <3>1, <3>2
  <2>3. CASE ~InTick
    <3>1. out' = out
      BY <2>3
    <3>2. Watched = {j \in Trial!Existing : kid[j].state = "active" /\ (kind = "egobox" => out[j] # None)}
      BY <2>3, WatchedBetween
    <3> QED BY <2>1, <3>1, <3>2
  <2> QED BY <2>2, <2>3
<1>8. /\ Cardinality(Watched') \in Nat /\ Cardinality(Watched) \in Nat
      /\ Cardinality(Watched') <= Cardinality(Watched) /\ Cardinality(Watched) <= Concurrent /\ Concurrent \in Nat
  BY <1>7, WatchedFinite DEF TrialsInv, TrialsGiven, Trial!TrialsAssumption
<1> QED BY <1>5, <1>8

\* A step that ends the tick, and says of the task only what it had found out.
LEMMA EndStep ==
  ASSUME TrialsGiven, TrialsInv, UNCHANGED <<kind, space, draws, kid>>, placed' \subseteq placed, ctl'.pc \in {"idle", "release", "finish"},
         out' = out \/ (InTick /\ Trial!Persisted), EndInv'
  PROVE  TrialsInv'
<1>1. ~InTick'
  BY DEF InTick
<1>2. TickInv'
  BY <1>1 DEF TickInv, InTick
<1> QED BY <1>1, <1>2, TickEnds DEF TrialsInv

LEMMA DecideStep ==
  ASSUME TrialsGiven, TrialsInv, Trial!Decide
  PROVE  TrialsInv'
<1>1. UNCHANGED <<kind, space, draws, task, kid, placed, faults>> /\ ctl.pc = "decide" /\ InTick
  BY DEF Trial!Decide, Trial!definition, InTick
<1>2. UNCHANGED <<Trial!Planned, Trial!Existing>>
  BY <1>1 DEF Trial!Planned, Trial!Total, Trial!Existing
<1>3. Whole' = Whole
  BY <1>1, <1>2 DEF Whole
<1>4. CASE Trial!Persisted /\ ctl' = [pc |-> "release", to |-> IF Trial!With("failed") # {} THEN "failed" ELSE "completed"]
           /\ (Trial!With("failed") # {} \/ Trial!Cardinality(Trial!With("completed")) = Trial!Total)
  <2>1. ctl'.pc = "release" /\ ctl' = [pc |-> ctl'.pc, to |-> ctl'.to]
        /\ (ctl'.to = "completed" => Cardinality(Trial!With("completed")) = Trial!Total)
    BY <1>4, TrialCardinality
  <2>2. ASSUME Cardinality(Trial!With("completed")) = Trial!Total PROVE Whole
    <3>1. Trial!With("completed") \subseteq Trial!Planned
      BY <1>1 DEF Trial!With, TrialsInv, TickInv
    <3>2. Trial!With("completed") = Trial!Planned
      BY <2>2, <3>1, PlannedIndices, FS_Subset DEF TrialsInv, ChildrenPlanned
    <3> QED BY <1>1, <3>2 DEF Trial!With, Whole, TrialsInv, TickInv
  <2>3. EndInv'
    BY <1>1, <1>3, <2>1, <2>2 DEF EndInv, TrialsInv
  <2> QED BY <1>1, <1>4, <2>1, <2>3, EndStep
<1>5. CASE out' = out /\ ctl' = [pc |-> "create", trials |-> ctl.trials,
             room |-> Trial!Room(Trial!Cardinality(Trial!With("active"))), made |-> {}]
  <2> DEFINE room == Trial!Room(Trial!Cardinality(Trial!With("active")))
  <2>1. /\ ctl'.pc = "create" /\ ctl'.trials = ctl.trials /\ ctl'.room = room
        /\ ctl' = [pc |-> ctl'.pc, trials |-> ctl'.trials, room |-> ctl'.room, made |-> ctl'.made]
        /\ ctl'.made = {}
    BY <1>5
  <2>2. Trial!Remembered' = Trial!Remembered
    BY <1>5 DEF Trial!Remembered
  <2>3. ChildrenPlanned'
    BY <1>1, <1>2, <1>5, <2>2 DEF TrialsInv, ChildrenPlanned
  <2>4. Watched' = Watched
    BY <1>1, <1>2, <2>1, <2>2 DEF Watched, Trial!Forgotten
  <2>5. /\ DOMAIN ctl.trials \subseteq Trial!Planned
        /\ kind # "egobox" => DOMAIN ctl.trials = Trial!Planned
        /\ kind = "egobox" => Trial!Remembered \subseteq DOMAIN ctl.trials
    BY <1>1 DEF TrialsInv, TickInv
  <2>6. Watched \subseteq Trial!With("active")
    <3>1. Watched = {i \in DOMAIN ctl.trials \cap Trial!Index : kid[i] # None /\ kid[i].state = "active"}
      BY <1>1, WatchedInTick DEF TrialsInv
    <3>2. ASSUME NEW i \in Watched PROVE i \in Trial!With("active")
      BY <1>1, <3>1 DEF TrialsInv, TickInv, Trial!With
    <3> QED BY <3>2
  <2>7. IsFiniteSet(Trial!With("active")) /\ Cardinality(Trial!With("active")) \in Nat
        /\ Cardinality(Watched) <= Cardinality(Trial!With("active")) /\ Cardinality(Watched) \in Nat
    <3>1. Trial!With("active") \subseteq Trial!Planned
      BY <2>5 DEF Trial!With
    <3>2. IsFiniteSet(Trial!Planned)
      BY PlannedIndices DEF TrialsInv, ChildrenPlanned
    <3> QED BY <2>6, <3>1, <3>2, FS_Subset, FS_CardinalityType
  <2>8. room \in Nat /\ Cardinality(Watched) + room <= Concurrent
    <3> DEFINE w == Cardinality(Trial!With("active"))
    <3>1. Concurrent \in Nat /\ Cardinality(Watched) <= Concurrent
      BY DEF TrialsGiven, Trial!TrialsAssumption, TrialsInv
    <3>2. room = Trial!Max({Concurrent - w, 0})
      BY TrialCardinality DEF Trial!Room
    <3>3. w \in Nat /\ Cardinality(Watched) <= w /\ Cardinality(Watched) \in Nat
      BY <2>7
    <3> HIDE DEF w, room
    <3>4. \E m \in {Concurrent - w, 0} : \A k \in {Concurrent - w, 0} : m >= k
      BY <3>1, <3>3
    <3>5. room \in {Concurrent - w, 0} /\ \A k \in {Concurrent - w, 0} : room >= k
      BY <3>2, <3>4 DEF Trial!Max
    <3> QED BY <3>1, <3>3, <3>5
  <2> HIDE DEF room
  <2>9. TickInv'
    <3>1. /\ DOMAIN ctl'.trials \subseteq Trial!Planned'
          /\ kind' # "egobox" => DOMAIN ctl'.trials = Trial!Planned'
          /\ kind' = "egobox" => Trial!Remembered' \subseteq DOMAIN ctl'.trials
      BY <1>1, <1>2, <2>1, <2>2, <2>5
    <3>2. ctl'.room \in Nat /\ Cardinality(Watched') + ctl'.room <= Concurrent
      BY <2>1, <2>4, <2>8
    <3>3. \A i \in DOMAIN ctl'.trials : ctl'.trials[i].status = "active" => i \in Trial!Existing'
      BY <1>1, <1>2, <2>1 DEF TrialsInv, TickInv
    <3> QED BY <2>1, <3>1, <3>2, <3>3 DEF TickInv
  <2>10. EndInv'
    BY <1>1, <1>3, <2>1 DEF EndInv, TrialsInv
  <2> QED BY <2>3, <2>4, <2>9, <2>10 DEF TrialsInv
<1> QED BY <1>4, <1>5 DEF Trial!Decide

LEMMA CreateStep ==
  ASSUME TrialsGiven, TrialsInv, Trial!CreateTrial
  PROVE  TrialsInv'
<1> DEFINE i == Trial!Min(Trial!Missing)
           c == [state |-> "active", pt |-> ctl.trials[i].pt, measured |-> FALSE]
<1>1. /\ UNCHANGED <<kind, space, draws, task, out, placed, faults>> /\ ctl.pc = "create" /\ InTick
      /\ ctl.room > 0 /\ Trial!Missing # {} /\ kid' = [kid EXCEPT ![i] = c]
      /\ ctl' = [ctl EXCEPT !.room = @ - 1, !.made = @ \cup {i}]
  BY DEF Trial!CreateTrial, Trial!definition, InTick
<1>2. ChildrenPlanned /\ TickInv /\ EndInv
  BY DEF TrialsInv
<1>3. DOMAIN ctl.trials \subseteq Trial!Planned /\ Trial!Planned \subseteq Trial!Index /\ Trial!Index \subseteq Nat
  BY <1>1, <1>2, PlannedIndices DEF TickInv, ChildrenPlanned
<1>4. i \in Trial!Missing
  <2>1. Trial!Missing \subseteq Nat
    BY <1>3 DEF Trial!Missing, Trial!With
  <2>2. \E m \in Trial!Missing : \A k \in Trial!Missing : m <= k
    BY <1>1, <2>1, Least
  <2> QED BY <2>2 DEF Trial!Min
<1>5. i \in DOMAIN ctl.trials /\ i \in Trial!Planned /\ i \in Trial!Index /\ kid[i] = None
  BY <1>3, <1>4 DEF Trial!Missing, Trial!With
<1>6. ctl = [pc |-> ctl.pc, trials |-> ctl.trials, room |-> ctl.room, made |-> ctl.made]
  BY <1>1, <1>2 DEF TickInv
<1> HIDE DEF i, c
<1>7. /\ ctl' = [pc |-> "create", trials |-> ctl.trials, room |-> ctl.room - 1, made |-> ctl.made \cup {i}]
      /\ ctl'.pc = "create" /\ ctl'.trials = ctl.trials /\ ctl'.room = ctl.room - 1
      /\ ctl' = [pc |-> ctl'.pc, trials |-> ctl'.trials, room |-> ctl'.room, made |-> ctl'.made]
      /\ ctl'.made = ctl.made \cup {i}
  BY <1>1, <1>6
<1>8. /\ kid' = [j \in Trial!Index |-> kid'[j]] /\ kid'[i] = c
      /\ \A j \in Trial!Index : j # i => kid'[j] = kid[j]
  BY <1>1, <1>2, <1>5 DEF ChildrenPlanned
<1>9. UNCHANGED <<Trial!Planned, Trial!Remembered>>
  BY <1>1 DEF Trial!Planned, Trial!Total, Trial!Remembered
<1>20. Trial!Existing' = Trial!Existing \cup {i} /\ Trial!Existing \subseteq Trial!Existing'
  <2>1. c # None
    BY DEF c, TrialsGiven, NoChild
  <2> QED BY <1>5, <1>8, <2>1 DEF Trial!Existing
<1>10. ChildrenPlanned'
  <2>1. c = [state |-> c.state, pt |-> c.pt, measured |-> c.measured]
    BY DEF c
  <2>2. ASSUME NEW j \in Trial!Index, kid'[j] # None
        PROVE  j \in Trial!Planned /\ kid'[j] = [state |-> kid'[j].state, pt |-> kid'[j].pt, measured |-> kid'[j].measured]
    BY <1>2, <1>5, <1>8, <2>1, <2>2 DEF ChildrenPlanned
  <2> QED BY <1>1, <1>2, <1>8, <1>9, <1>20, <2>2 DEF ChildrenPlanned
<1>11. InTick' /\ \A P : (P = Watched') => P \subseteq Watched \cup {i}
  <2>1. InTick'
    BY <1>7 DEF InTick
  <2>2. Watched = {j \in DOMAIN ctl.trials \cap Trial!Index : kid[j] # None /\ kid[j].state = "active"}
    BY <1>1, <1>2, WatchedInTick
  <2>3. ASSUME NEW j \in Watched', j # i PROVE j \in Watched
    <3>1. j \in Trial!Index /\ kid'[j] # None /\ kid'[j].state = "active" /\ j \in Trial!Existing' /\ j \notin Trial!Forgotten'
      BY DEF Watched, Trial!Existing
    <3>2. kid[j] # None /\ kid[j].state = "active"
      BY <1>8, <2>3, <3>1
    <3>3. j \in DOMAIN ctl.trials
      <4>1. CASE kind = "egobox"
        <5>1. Trial!Forgotten' = Trial!Existing' \ (Trial!Remembered' \cup DOMAIN ctl'.trials)
          BY <1>1, <1>7, <4>1 DEF Trial!Forgotten
        <5>2. j \in Trial!Remembered \/ j \in DOMAIN ctl.trials
          BY <1>7, <1>9, <3>1, <5>1
        <5> QED BY <1>1, <1>2, <4>1, <5>2 DEF TickInv
      <4>2. CASE kind # "egobox"
        BY <1>1, <1>2, <3>1, <3>2, <4>2 DEF TickInv, ChildrenPlanned
      <4> QED BY <4>1, <4>2
    <3> QED BY <2>2, <3>1, <3>2, <3>3
  <2> QED BY <2>1, <2>3
<1>12. ctl.room \in Nat /\ Cardinality(Watched) + ctl.room <= Concurrent /\ Concurrent \in Nat
  BY <1>1, <1>2 DEF TickInv, TrialsGiven, Trial!TrialsAssumption
<1>13. Cardinality(Watched') \in Nat /\ Cardinality(Watched') <= Cardinality(Watched) + 1 /\ Cardinality(Watched) \in Nat
  <2>1. IsFiniteSet(Watched) /\ Cardinality(Watched) \in Nat
    BY <1>2, WatchedFinite
  <2>2. /\ IsFiniteSet(Watched \cup {i}) /\ Cardinality(Watched \cup {i}) \in Nat
        /\ Cardinality(Watched \cup {i}) <= Cardinality(Watched) + 1
    <3>1. Cardinality(Watched \cup {i}) = IF i \in Watched THEN Cardinality(Watched) ELSE Cardinality(Watched) + 1
      BY <2>1, FS_AddElement
    <3> QED BY <2>1, <3>1, FS_AddElement
  <2>3. Watched' \subseteq Watched \cup {i}
    BY <1>11
  <2>4. Cardinality(Watched') \in Nat /\ Cardinality(Watched') <= Cardinality(Watched \cup {i})
    BY <2>2, <2>3, FS_Subset, FS_CardinalityType
  <2> QED BY <2>1, <2>2, <2>4
<1>14. ctl'.room \in Nat /\ Cardinality(Watched') + ctl'.room <= Concurrent /\ Cardinality(Watched') <= Concurrent
  <2>1. ctl'.room = ctl.room - 1 /\ ctl.room > 0
    BY <1>1, <1>7
  <2> QED BY <1>12, <1>13, <2>1
<1>15. TickInv'
  <2>1. /\ DOMAIN ctl'.trials \subseteq Trial!Planned'
        /\ kind' # "egobox" => DOMAIN ctl'.trials = Trial!Planned'
        /\ kind' = "egobox" => Trial!Remembered' \subseteq DOMAIN ctl'.trials
    BY <1>1, <1>2, <1>7, <1>9 DEF TickInv
  <2>2. \A j \in DOMAIN ctl'.trials : ctl'.trials[j].status = "active" => j \in Trial!Existing'
    BY <1>1, <1>2, <1>7, <1>20 DEF TickInv
  <2>3. ctl'.made \subseteq Trial!Existing'
    BY <1>1, <1>2, <1>7, <1>20 DEF TickInv
  <2> QED BY <1>7, <1>14, <2>1, <2>2, <2>3 DEF TickInv
<1>16. EndInv'
  <2>1. Whole => Whole'
    BY <1>5, <1>9 DEF Whole
  <2> QED BY <1>1, <1>2, <1>7, <2>1 DEF EndInv
<1> QED BY <1>10, <1>14, <1>15, <1>16 DEF TrialsInv

LEMMA PlaceStep ==
  ASSUME TrialsGiven, TrialsInv, Trial!Place
  PROVE  TrialsInv'
<1>1. UNCHANGED <<kind, space, draws, task, kid, out, faults>> /\ ctl.pc = "create" /\ ctl' = [ctl EXCEPT !.pc = "publish"]
  BY DEF Trial!Place, Trial!definition
<1>2. UNCHANGED <<Trial!Planned, Trial!Existing, Trial!Remembered, Whole>>
  BY <1>1 DEF Trial!Planned, Trial!Total, Trial!Existing, Trial!Remembered, Whole
<1>3. ctl = [pc |-> ctl.pc, trials |-> ctl.trials, room |-> ctl.room, made |-> ctl.made]
  BY <1>1 DEF TrialsInv, TickInv
<1>4. /\ ctl'.pc = "publish" /\ ctl'.trials = ctl.trials
      /\ ctl' = [pc |-> ctl'.pc, trials |-> ctl'.trials, room |-> ctl'.room, made |-> ctl'.made]
  BY <1>1, <1>3
<1>5. Watched' = Watched
  BY <1>1, <1>2, <1>4 DEF Watched, Trial!Forgotten
<1>6. ChildrenPlanned'
  <2>1. placed' = Trial!With("active") \cup ctl.made
    BY DEF Trial!Place
  <2>2. placed' \subseteq Trial!Existing
    BY <1>1, <2>1 DEF Trial!With, TrialsInv, TickInv
  <2> QED BY <1>1, <1>2, <2>2 DEF TrialsInv, ChildrenPlanned
<1>7. TickInv'
  BY <1>1, <1>2, <1>4 DEF TrialsInv, TickInv, InTick
<1>8. EndInv'
  BY <1>1, <1>2, <1>4 DEF TrialsInv, EndInv
<1> QED BY <1>5, <1>6, <1>7, <1>8 DEF TrialsInv

\* A child under way ends.
LEMMA ChildStep ==
  ASSUME TrialsGiven, TrialsInv, NEW i \in Trial!Index, Trial!ChildCompletes(i) \/ Trial!ChildFails(i)
  PROVE  TrialsInv'
<1>1. PICK s, m : kid' = [kid EXCEPT ![i] = Trial!Ended(@, s, m)] /\ s \in {"completed", "failed"}
  BY DEF Trial!ChildCompletes, Trial!ChildFails
<1>2. kid[i].state = "active" /\ i \in placed /\ UNCHANGED <<kind, space, draws, task, out, placed, ctl>>
  BY DEF Trial!ChildCompletes, Trial!ChildFails, Trial!definition
<1>3. ChildrenPlanned /\ TickInv /\ EndInv
  BY DEF TrialsInv
<1>4. /\ kid' = [j \in Trial!Index |-> kid'[j]] /\ kid'[i] = Trial!Ended(kid[i], s, m)
      /\ \A j \in Trial!Index : j # i => kid'[j] = kid[j]
  BY <1>1, <1>3 DEF ChildrenPlanned
<1>5. UNCHANGED <<Trial!Planned, Trial!Remembered>>
  BY <1>2 DEF Trial!Planned, Trial!Total, Trial!Remembered
<1>6. kid[i] # None /\ i \in Trial!Planned /\ kid[i] = [state |-> kid[i].state, pt |-> kid[i].pt, measured |-> kid[i].measured]
  BY <1>2, <1>3 DEF ChildrenPlanned, Trial!Existing
<1>7. /\ kid'[i] = [state |-> s, pt |-> kid[i].pt, measured |-> m] /\ kid'[i].state = s
      /\ kid'[i] = [state |-> kid'[i].state, pt |-> kid'[i].pt, measured |-> kid'[i].measured] /\ kid'[i] # None
  <2>1. kid'[i] = [kid[i] EXCEPT !.state = s, !.measured = m]
    BY <1>4 DEF Trial!Ended
  <2>2. kid'[i] = [state |-> s, pt |-> kid[i].pt, measured |-> m]
    BY <1>6, <2>1
  <2> QED BY <2>2 DEF TrialsGiven, NoChild
<1>8. Trial!Existing' = Trial!Existing
  BY <1>4, <1>6, <1>7 DEF Trial!Existing
<1>9. ChildrenPlanned'
  <2>1. ASSUME NEW j \in Trial!Index, kid'[j] # None
        PROVE  j \in Trial!Planned /\ kid'[j] = [state |-> kid'[j].state, pt |-> kid'[j].pt, measured |-> kid'[j].measured]
    BY <1>3, <1>4, <1>6, <1>7, <2>1 DEF ChildrenPlanned
  <2> QED BY <1>2, <1>3, <1>4, <1>5, <1>8, <2>1 DEF ChildrenPlanned
<1>10. Watched' \subseteq Watched
  <2>1. Trial!Forgotten' = Trial!Forgotten
    BY <1>2, <1>5, <1>8 DEF Trial!Forgotten
  <2>2. ASSUME NEW j \in Watched' PROVE j \in Watched
    <3>1. j \in Trial!Existing \ Trial!Forgotten /\ kid'[j].state = "active" /\ j \in Trial!Index
      BY <1>8, <2>1 DEF Watched, Trial!Existing
    <3>2. j # i
      BY <1>1, <1>7, <3>1
    <3> QED BY <1>4, <3>1, <3>2 DEF Watched
  <2> QED BY <2>2
<1>11. /\ Cardinality(Watched') \in Nat /\ Cardinality(Watched) \in Nat
       /\ Cardinality(Watched') <= Cardinality(Watched) /\ Cardinality(Watched) <= Concurrent /\ Concurrent \in Nat
  BY <1>3, <1>10, WatchedFinite DEF TrialsInv, TrialsGiven, Trial!TrialsAssumption
<1>12. \A j \in Trial!Index : kid[j] # None /\ kid[j].state = "completed" /\ kid[j].measured => kid'[j] = kid[j]
  BY <1>2, <1>4
<1>13. Trial!Planned \subseteq Trial!Index
  BY <1>3, PlannedIndices DEF ChildrenPlanned
<1>14. TickInv'
  <2>1. InTick => /\ DOMAIN ctl'.trials \subseteq Trial!Planned'
                  /\ kind' # "egobox" => DOMAIN ctl'.trials = Trial!Planned'
                  /\ kind' = "egobox" => Trial!Remembered' \subseteq DOMAIN ctl'.trials
    BY <1>2, <1>3, <1>5 DEF TickInv
  <2>2. ASSUME ctl.pc = "decide", NEW j \in DOMAIN ctl.trials
        PROVE  /\ kid'[j] # None /\ kid'[j].state = "active" => ctl.trials[j].status = "active"
               /\ ctl.trials[j].status = "completed" => kid'[j] # None /\ kid'[j].state = "completed" /\ kid'[j].measured
    <3>1. j \in Trial!Index
      BY <1>3, <1>13, <2>2 DEF TickInv, InTick
    <3>2. CASE j = i
      <4>1. ctl.trials[j].status # "completed" /\ kid'[j].state # "active"
        BY <1>1, <1>2, <1>3, <1>7, <2>2, <3>2 DEF TickInv
      <4> QED BY <4>1
    <3>3. CASE j # i
      BY <1>3, <1>4, <2>2, <3>1, <3>3 DEF TickInv
    <3> QED BY <3>2, <3>3
  <2>3. ctl.pc = "create" => ctl.room \in Nat /\ Cardinality(Watched') + ctl.room <= Concurrent
    <3>1. ctl.pc = "create" => ctl.room \in Nat /\ Cardinality(Watched) + ctl.room <= Concurrent
      BY <1>3 DEF TickInv
    <3> QED BY <1>11, <3>1
  <2> QED BY <1>2, <1>3, <1>8, <2>1, <2>2, <2>3 DEF TickInv, InTick
<1>15. EndInv'
  <2>1. Whole => Whole'
    BY <1>5, <1>12, <1>13 DEF Whole
  <2> QED BY <1>2, <1>3, <2>1 DEF EndInv
<1> QED BY <1>9, <1>11, <1>14, <1>15 DEF TrialsInv

LEMMA TrialsStep == ASSUME TrialsGiven, TrialsInv, [Trial!Next]_Trial!vars PROVE TrialsInv'
<1>1. CASE UNCHANGED Trial!vars
  <2>1. UNCHANGED <<kind, space, draws, task, kid, out, placed, ctl, faults>>
    BY <1>1 DEF Trial!vars
  <2>2. UNCHANGED <<Trial!Planned, Trial!Existing, Trial!Remembered, Whole, InTick, Watched>>
    BY <2>1 DEF Trial!Planned, Trial!Total, Trial!Existing, Trial!Remembered, Whole, InTick, Watched, Trial!Forgotten
  <2> QED BY <2>1, <2>2 DEF TrialsInv, ChildrenPlanned, TickInv, EndInv
<1>2. ASSUME UNCHANGED <<kind, space, kid>> PROVE Whole' = Whole
  <2>1. Trial!Planned' = Trial!Planned
    BY <1>2 DEF Trial!Planned, Trial!Total
  <2> QED BY <1>2, <2>1 DEF Whole
<1>3. CASE Trial!PersistOutput
  <2>1. ctl.pc = "publish" /\ InTick /\ Trial!Persisted /\ ctl'.pc = "idle" /\ UNCHANGED <<kind, space, draws, task, kid, placed>>
    BY <1>3 DEF Trial!PersistOutput, Trial!definition, Trial!IdleCtl, InTick
  <2>2. EndInv'
    BY <1>2, <2>1 DEF EndInv, TrialsInv
  <2> QED BY <2>1, <2>2, EndStep
<1>4. CASE Trial!Release
  <2>1. ctl.pc = "release" /\ ctl' = [ctl EXCEPT !.pc = "finish"] /\ placed' = {} /\ UNCHANGED <<kind, space, draws, task, kid, out>>
    BY <1>4 DEF Trial!Release, Trial!definition
  <2>2. ctl = [pc |-> ctl.pc, to |-> ctl.to]
    BY <2>1 DEF TrialsInv, EndInv
  <2>3. ctl'.pc = "finish" /\ ctl'.to = ctl.to /\ ctl' = [pc |-> ctl'.pc, to |-> ctl'.to]
    BY <2>1, <2>2
  <2>4. EndInv'
    BY <1>2, <2>1, <2>3 DEF EndInv, TrialsInv
  <2> QED BY <2>1, <2>3, <2>4, EndStep
<1>5. CASE Trial!Finish
  <2>1. ctl.pc = "finish" /\ task' = ctl.to /\ ctl'.pc = "idle" /\ UNCHANGED <<kind, space, draws, kid, out, placed>>
    BY <1>5 DEF Trial!Finish, Trial!definition, Trial!IdleCtl
  <2>2. EndInv'
    BY <1>2, <2>1 DEF EndInv, TrialsInv
  <2> QED BY <2>1, <2>2, EndStep
<1>6. CASE Trial!TickFails
  <2>1. ctl'.pc = "idle" /\ UNCHANGED <<kind, space, draws, task, kid, out, placed>>
    BY <1>6 DEF Trial!TickFails, Trial!definition, Trial!IdleCtl
  <2>2. EndInv'
    BY <1>2, <2>1 DEF EndInv, TrialsInv
  <2> QED BY <2>1, <2>2, EndStep
<1>7. CASE Trial!CreateFails
  <2>1. /\ InTick /\ UNCHANGED <<kind, space, draws, task, kid, placed>>
        /\ \/ ctl'.pc = "idle" /\ out' = out
           \/ Trial!Persisted /\ ctl'.pc = "release" /\ ctl' = [pc |-> ctl'.pc, to |-> ctl'.to] /\ ctl'.to = "failed"
    BY <1>7 DEF Trial!CreateFails, Trial!definition, Trial!IdleCtl, InTick
  <2>2. EndInv'
    BY <1>2, <2>1 DEF EndInv, TrialsInv
  <2> QED BY <2>1, <2>2, EndStep
<1>8. CASE Trial!Done
  BY <1>1, <1>8 DEF Trial!Done
<1> QED BY <1>1, <1>3, <1>4, <1>5, <1>6, <1>7, <1>8, ObserveStep, DecideStep, CreateStep, PlaceStep, ChildStep
     DEF Trial!Next, Trial!TickStep

\* Scans and tuning: children, plans and verdicts agree, through ticks cut short.
THEOREM TrialsInvariance == ASSUME TrialsGiven PROVE Trial!Spec => []TrialsInv
<1>1. Trial!Init => TrialsInv
  BY TrialsInit
<1>2. TrialsInv /\ [Trial!Next]_Trial!vars => TrialsInv'
  BY TrialsStep
<1> QED BY <1>1, <1>2, PTL DEF Trial!Spec

\* No more children are under way than the task allows, wherever a tick is cut short, apart from those
\* that model-based search forgot.
THEOREM ChildrenBounded == ASSUME TrialsGiven PROVE Trial!Spec => []Trial!Bounded
<1>1. TrialsInv => Trial!Bounded
  BY TrialCardinality DEF TrialsInv, Watched, Trial!Bounded
<1> QED BY <1>1, TrialsInvariance, PTL

\* A task that is completed has a measured child for every trial.
THEOREM TrialsCompleted == ASSUME TrialsGiven PROVE Trial!Spec => []Trial!CompletedWhole
<1>1. TrialsInv => Trial!CompletedWhole
  BY DEF TrialsInv, EndInv, Whole, Trial!CompletedWhole
<1> QED BY <1>1, TrialsInvariance, PTL

=============================================================================
