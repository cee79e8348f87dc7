------------------------------ MODULE LocalDb -------------------------------
(***************************************************************************)
(* The commands that manage the local Postgres cluster (local_db.rs,       *)
(* cli/db.rs, the dashboard's database restart): start, stop, delete,      *)
(* reset, backup and restore.  Each runs external programs one after the   *)
(* other and stops at the first that fails; any of them may be interrupted *)
(* between two programs or inside one, and the operator goes on from the   *)
(* state that leaves.                                                      *)
(***************************************************************************)
EXTENDS Naturals, Sequences

CONSTANTS
  Commands,   \* what the operator runs, of {"start", "cluster", "stop", "delete", "reset", "backup", "restore"}
  StopFails,  \* pg_ctl stop may fail
  Faults      \* bound: how many programs fail or are interrupted

CommandsAssumption ==
  Commands \subseteq {"start", "cluster", "stop", "delete", "reset", "backup", "restore"}
FaultsAssumption == StopFails \in BOOLEAN /\ Faults \in Nat

VARIABLES
  dir,     \* the data directory: "absent", "torn" (half made or half removed), "ready"
  up,      \* pg_ctl status finds a server running on it
  orphan,  \* a server still runs whose data directory was removed
  exists,  \* the configured database exists
  schema,  \* its schema: "bare", "torn" (half restored), "old" (migrations pending), "current"
  rows,    \* whose rows it holds: "none", "live", "saved", or "mixed"
  backup,  \* the last dump: "none", or its schema
  cmd,     \* the command that runs, "idle", or the one that succeeded last
  todo,    \* the programs the command still runs
  ok,      \* the last command succeeded
  faults

vars == <<dir, up, orphan, exists, schema, rows, backup, cmd, todo, ok, faults>>
data == <<exists, schema, rows>>
files == <<dir, up, orphan>>

Init ==
  /\ dir \in {"absent", "ready"} /\ up = FALSE /\ orphan = FALSE
  /\ exists = (dir = "ready")
  /\ schema = (IF dir = "ready" THEN "old" ELSE "bare")
  /\ rows = (IF dir = "ready" THEN "live" ELSE "none")
  /\ backup = "none" /\ cmd = "idle" /\ todo = <<>> /\ ok = FALSE /\ faults = 0

(***************************************************************************)
(* The commands as the programs they run.                                  *)
(***************************************************************************)
\* start_postgres_cluster; and start_db, with ensure_database and the migrations behind it.
ClusterSteps == <<"initdb", "pg_start">>
StartSteps == <<"initdb", "pg_start", "createdb", "migrate", "extension">>

\* delete_db: stop, then remove what there is; reset_db starts anew.
DeleteSteps == <<"pg_stop", "remove">>
ResetSteps == <<"pg_stop", "remove", "initdb", "pg_start", "createdb", "migrate", "extension">>

\* restore_db: the schema is emptied before the dump is loaded, then migrated.
RestoreSwapped ==
  <<"initdb", "pg_start", "createdb", "pg_restore", "drop_schema", "createdb", "migrate", "extension">>
RestoreSteps ==
  <<"initdb", "pg_start", "createdb", "drop_schema", "pg_restore", "createdb", "migrate", "extension">>

StepsOf(c) ==
  CASE c = "start" -> StartSteps
    [] c = "cluster" -> ClusterSteps
    [] c = "stop" -> <<"pg_stop">>
    [] c = "delete" -> DeleteSteps
    [] c = "reset" -> ResetSteps
    [] c = "backup" -> <<"pg_dump">>
    [] c = "restore" -> RestoreSteps

\* run_db_command: delete, reset and restore are confirmed first; a refusal is no command.
\* restore needs a backup file.
Command(c) ==
  /\ todo = <<>>
  /\ c = "restore" => backup # "none"
  /\ cmd' = c /\ todo' = StepsOf(c) /\ ok' = FALSE
  /\ UNCHANGED <<files, data, backup, faults>>

Advance == todo' = Tail(todo) /\ ok' = (Len(todo) = 1) /\ UNCHANGED cmd
Done == Advance /\ UNCHANGED faults
AbortEarly == todo' = <<>> /\ ok' = FALSE /\ UNCHANGED cmd
Aborted == AbortEarly /\ UNCHANGED faults

At(p) == todo # <<>> /\ Head(todo) = p

\* is_db_running; database_exists asks the server and fails without one.
IsDbRunning == up
DatabaseExists == up /\ exists

(***************************************************************************)
(* The programs.                                                           *)
(***************************************************************************)
\* is_cluster_initialized asks for the version file, which initdb writes early.
NeedsInit == dir = "absent"

InitDb ==
  /\ At("initdb")
  /\ IF NeedsInit
       THEN dir' = "ready" /\ exists' = FALSE /\ schema' = "bare" /\ rows' = "none"
       ELSE UNCHANGED <<dir, data>>
  /\ Done /\ UNCHANGED <<up, orphan, backup>>

\* pg_ctl start, unless pg_ctl status finds a server; a torn cluster does not start, and
\* none starts on the port of a server that is left over.
PgStart ==
  /\ At("pg_start")
  /\ IF IsDbRunning \/ (dir = "ready" /\ ~orphan) THEN up' = TRUE /\ Done ELSE UNCHANGED up /\ Aborted
  /\ UNCHANGED <<dir, orphan, data, backup>>

\* stop_db: a directory that is missing or a server that does not run is stopped already,
\* and a pg_ctl that fails is ignored.
PgStop ==
  /\ At("pg_stop")
  /\ \/ up' = FALSE /\ Done
     \/ StopFails /\ up /\ faults < Faults /\ faults' = faults + 1 /\ UNCHANGED up /\ Advance
  /\ UNCHANGED <<dir, orphan, data, backup>>

\* remove_path_if_exists on the data and the socket directory.
Remove ==
  /\ At("remove")
  /\ dir' = "absent" /\ exists' = FALSE /\ schema' = "bare" /\ rows' = "none"
  /\ up' = FALSE /\ orphan' = (orphan \/ up)
  /\ Done /\ UNCHANGED backup

\* Postgres shuts itself down once it misses its lock file.
OrphanExits ==
  /\ orphan /\ orphan' = FALSE
  /\ UNCHANGED <<dir, up, data, backup, cmd, todo, ok, faults>>

\* The programs below talk to the server.
CreateDb ==
  /\ At("createdb")
  /\ IF up THEN exists' = TRUE /\ Done ELSE UNCHANGED exists /\ Aborted
  /\ UNCHANGED <<files, schema, rows, backup>>

\* sqlx migrate run: brings a schema with a migration record up to date.  On a torn one
\* it fails on a table that exists, or finds a full record and does nothing.
Migrate ==
  /\ At("migrate")
  /\ IF DatabaseExists
       THEN \/ /\ schema # "torn" /\ schema' = "current"
               /\ Done
            \/ schema = "torn" /\ UNCHANGED schema /\ (Done \/ Aborted)
       ELSE UNCHANGED schema /\ Aborted
  /\ UNCHANGED <<files, exists, rows, backup>>

\* CREATE EXTENSION IF NOT EXISTS.
Extension ==
  /\ At("extension") /\ (IF DatabaseExists THEN Done ELSE Aborted)
  /\ UNCHANGED <<files, data, backup>>

\* DROP SCHEMA and CREATE SCHEMA in one command, hence one transaction.
DropSchema ==
  /\ At("drop_schema")
  /\ IF DatabaseExists THEN schema' = "bare" /\ rows' = "none" /\ Done ELSE UNCHANGED <<schema, rows>> /\ Aborted
  /\ UNCHANGED <<files, exists, backup>>

\* pg_restore --exit-on-error: refuses a table that exists.
PgRestore ==
  /\ At("pg_restore")
  /\ IF DatabaseExists /\ schema = "bare"
       THEN schema' = backup /\ rows' = "saved" /\ Done
       ELSE UNCHANGED <<schema, rows>> /\ Aborted
  /\ UNCHANGED <<files, exists, backup>>

\* pg_dump of a whole database.
PgDump ==
  /\ At("pg_dump")
  /\ IF DatabaseExists /\ schema \in {"old", "current"} /\ rows # "mixed"
       THEN backup' = schema /\ Done
       ELSE UNCHANGED backup /\ Aborted
  /\ UNCHANGED <<files, data>>

\* A program is interrupted halfway, or fails, and the command with it: what it leaves.
Interrupted ==
  /\ todo # <<>> /\ faults < Faults
  /\ faults' = faults + 1 /\ AbortEarly
  /\ \/ UNCHANGED <<files, data>>
     \/ At("initdb") /\ NeedsInit /\ dir' = "torn" /\ UNCHANGED <<up, orphan, data>>
     \/ /\ At("remove") /\ dir' = "torn" /\ up' = FALSE /\ orphan' = (orphan \/ up)
        /\ exists' = FALSE /\ schema' = "bare" /\ rows' = "none"
     \/ /\ At("migrate") /\ up /\ exists /\ schema = "bare"
        /\ schema' = "old" /\ UNCHANGED <<files, exists, rows>>
     \/ /\ At("pg_restore") /\ up /\ exists /\ schema = "bare"
        /\ schema' = "torn" /\ rows' = "mixed" /\ UNCHANGED <<files, exists>>
  /\ UNCHANGED backup

\* Runs write into the database while it is up.
Use ==
  /\ up /\ exists /\ schema = "current" /\ rows \in {"none", "saved"}
  /\ todo = <<>> /\ rows' = "live" /\ cmd' = "idle"
  /\ UNCHANGED <<files, exists, schema, backup, todo, ok, faults>>

Step ==
  \/ InitDb \/ PgStart \/ PgStop \/ Remove \/ CreateDb \/ Migrate \/ Extension
  \/ DropSchema \/ PgRestore \/ PgDump

Next == Step \/ Interrupted \/ Use \/ OrphanExits \/ \E c \in Commands : Command(c)

Spec == Init /\ [][Next]_vars

-----------------------------------------------------------------------------
Programs ==
  {"initdb", "pg_start", "pg_stop", "remove", "createdb", "migrate", "extension", "drop_schema",
   "pg_restore", "pg_dump"}

\* Types; there is no database without a cluster, and nothing in one that does not exist.
TypeOK ==
  /\ dir \in {"absent", "torn", "ready"} /\ up \in BOOLEAN /\ orphan \in BOOLEAN
  /\ exists \in BOOLEAN /\ (exists => dir = "ready")
  /\ schema \in {"bare", "torn", "old", "current"} /\ rows \in {"none", "live", "saved", "mixed"}
  /\ ~exists => schema = "bare" /\ rows = "none"
  /\ backup \in {"none", "old", "current"} /\ cmd \in Commands \cup {"idle"}
  /\ todo \in Seq(Programs) /\ ok \in BOOLEAN /\ faults \in 0..Faults

Finished(c) == cmd = c /\ ok /\ todo = <<>>

\* A restore that reports success, after any history of interrupted commands (a restore cut
\* short included), leaves a current schema with the backup's rows and no others
\* (restore_db).
RestoreExact ==
  Finished("restore") => up /\ exists /\ schema = "current" /\ rows = "saved"

\* A start never destroys what an earlier command left: every step of it keeps the rows, and
\* only an absent cluster is initialised (start_postgres_cluster).
StartKeepsRows ==
  cmd = "start" /\ todo # <<>> /\ rows # "none" => rows' = rows

\* No server is left running on a data directory that was removed under it (delete_db stops
\* first, and pg_ctl stop works).
NoOrphanServer == ~orphan

\* The commands as a whole: restores are exact, starts keep rows, and where pg_ctl stop works no
\* server outlives its data directory.
DatabaseKept ==
  [](TypeOK /\ RestoreExact /\ (~StopFails => NoOrphanServer)) /\ [][StartKeepsRows]_vars
=============================================================================
