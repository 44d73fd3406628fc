------------------------------- MODULE Daemon -------------------------------
(***************************************************************************)
(* Processes on one data directory: opening and migrating the database     *)
(* (db/database.py, db/migrate.py), the listeners and the run state of the *)
(* daemon (web/server.py, web/run_state.py), its start and shutdown        *)
(* (app/service.py, runtime/core.py), and the upgrade of an installation   *)
(* (cli/commands.py, upgrade/apply.py, scripts/deploy-server.sh), which    *)
(* stops the service, migrates with a process of its own and starts it     *)
(* again.  A process may be killed between any two steps; only the files   *)
(* and the port outlive it.                                                *)
(***************************************************************************)
EXTENDS Naturals, FiniteSets

CONSTANTS
  Procs,         \* processes, each started at most once
  NoProc,        \* no process: a free port, an absent run state
  LastVersion,   \* the newest migration of the code
  Plain,         \* migrations whose statements cannot run twice
  MaxKills       \* bound: processes that are killed

ASSUME ProcsAssumption == NoProc \notin Procs
ASSUME VersionAssumption ==
  LastVersion \in Nat /\ Plain \subseteq 1..LastVersion /\ MaxKills \in Nat

VARIABLES
  script,     \* what of each migration's script is in the database
  schemaRow,  \* schema_version
  pc,         \* where each process is
  role,       \* the command of each process
  applied,    \* migrate(): the local of that name in each process
  listeners,  \* the serve() tasks that run in each process
  port,       \* the process that holds the listening socket
  runState,   \* the process named by run/server.json
  upgrade,    \* where the upgrade script is
  kills       \* bound: processes killed so far

daemonVars ==
  <<script, schemaRow, pc, role, applied, listeners, port, runState, upgrade, kills>>

Versions == 1..LastVersion
Roles    == {"serve", "migrate", "check"}
Gone     == {"exited", "killed"}
Places   == {"new", "opening", "migrating", "script", "ran", "loaded", "bound",
             "started", "serving", "stopping", "closing"} \cup Gone

DaemonTypeOK ==
  /\ script \in [Versions -> {"none", "part", "done"}]
  /\ schemaRow \in 0..LastVersion
  /\ pc \in [Procs -> Places]
  /\ role \in [Procs -> Roles]
  /\ applied \in [Procs -> 0..LastVersion]
  /\ listeners \in [Procs -> SUBSET {"admin", "public"}]
  /\ port \in Procs \cup {NoProc}
  /\ runState \in Procs \cup {NoProc}
  /\ upgrade \in {"idle", "stopping", "migrating", "checking", "restarting", "done", "failed"}
  /\ kills \in 0..MaxKills

DaemonInit ==
  /\ script = [v \in Versions |-> "none"]
  /\ schemaRow = 0
  /\ pc = [p \in Procs |-> "new"]
  /\ role = [p \in Procs |-> "serve"]
  /\ applied = [p \in Procs |-> 0]
  /\ listeners = [p \in Procs |-> {}]
  /\ port = NoProc
  /\ runState = NoProc
  /\ upgrade = "idle"
  /\ kills = 0

Alive(p) == pc[p] \notin Gone \cup {"new"}

Goes(p, from, to) == pc[p] = from /\ pc' = [pc EXCEPT ![p] = to]

-----------------------------------------------------------------------------
(* The database: every command that loads the application migrates first.  *)

Starts(p, command) ==
  /\ Goes(p, "new", "opening")
  /\ role' = [role EXCEPT ![p] = command]

\* A user or the service manager starts the daemon.
StartServer(p) ==
  /\ Starts(p, "serve")
  /\ UNCHANGED <<script, schemaRow, applied, listeners, port, runState, upgrade, kills>>

\* current_version().
ReadVersion(p) ==
  /\ Goes(p, "opening", "migrating")
  /\ applied' = [applied EXCEPT ![p] = schemaRow]
  /\ UNCHANGED <<script, schemaRow, role, listeners, port, runState, upgrade, kills>>

\* mistake: the version is committed before the statements.
RecordsFirst(p) ==
  LET v == applied[p] + 1 IN
  /\ applied[p] < LastVersion
  /\ Goes(p, "migrating", "script")
  /\ schemaRow' = v
  /\ script' = [script EXCEPT ![v] = IF @ = "none" THEN "part" ELSE @]
  /\ UNCHANGED <<role, applied, listeners, port, runState, upgrade, kills>>

\* executescript() commits each statement of the script by itself.
BeginScript(p) ==
  LET v == applied[p] + 1 IN
  /\ applied[p] < LastVersion
  /\ v \in Plain => script[v] # "done"
  /\ Goes(p, "migrating", "script")
  /\ script' = [script EXCEPT ![v] = IF @ = "none" THEN "part" ELSE @]
  /\ UNCHANGED <<schemaRow, role, applied, listeners, port, runState, upgrade, kills>>

FinishScript(p) ==
  /\ Goes(p, "script", "ran")
  /\ script' = [script EXCEPT ![applied[p] + 1] = "done"]
  /\ UNCHANGED <<schemaRow, role, applied, listeners, port, runState, upgrade, kills>>

\* A statement that cannot run twice, or a lock held for too long: the
\* command ends with the error.
ScriptFails(p) ==
  /\ pc[p] \in {"migrating", "script"}
  /\ applied[p] < LastVersion
  /\ pc[p] = "migrating" => applied[p] + 1 \in Plain /\ script[applied[p] + 1] # "none"
  /\ pc' = [pc EXCEPT ![p] = "exited"]
  /\ UNCHANGED <<script, schemaRow, role, applied, listeners, port, runState, upgrade, kills>>

\* The version is written and committed after the script, as a step of its own.
RecordVersion(p) ==
  /\ Goes(p, "ran", "migrating")
  /\ schemaRow' = applied[p] + 1
  /\ applied' = [applied EXCEPT ![p] = @ + 1]
  /\ UNCHANGED <<script, role, listeners, port, runState, upgrade, kills>>

\* Yuubot.create(): nothing is pending, the application is in memory.
Loads(p) ==
  /\ applied[p] = LastVersion
  /\ Goes(p, "migrating", IF role[p] = "serve" THEN "loaded" ELSE "closing")
  /\ UNCHANGED <<script, schemaRow, role, applied, listeners, port, runState, upgrade, kills>>

-----------------------------------------------------------------------------
(* The server: create() binds, serve() publishes the run state.            *)

\* UvicornServer.create(): the port is taken before anything is served.
Binds(p) ==
  /\ port = NoProc
  /\ Goes(p, "loaded", "bound")
  /\ port' = p
  /\ UNCHANGED <<script, schemaRow, role, applied, listeners, runState, upgrade, kills>>

\* Address in use: the error leaves serve_async() before its try.
BindFails(p) ==
  /\ port # NoProc
  /\ Goes(p, "loaded", "exited")
  /\ UNCHANGED <<script, schemaRow, role, applied, listeners, port, runState, upgrade, kills>>

\* app.startup(); when it raises, the finally shuts the application down.
AppStarts(p) ==
  /\ \/ Goes(p, "bound", "started")
     \/ Goes(p, "bound", "closing")
  /\ UNCHANGED <<script, schemaRow, role, applied, listeners, port, runState, upgrade, kills>>

\* The tasks of the two listeners: the one of the administrator's writes
\* run/server.json when it starts, over whatever is there.
Listens(p, surface) ==
  /\ pc[p] \in {"started", "serving"}
  /\ surface \notin listeners[p]
  /\ surface = "public" => "admin" \in listeners[p]
  /\ pc[p] = "serving" => surface = "public"
  /\ pc' = [pc EXCEPT ![p] = "serving"]
  /\ listeners' = [listeners EXCEPT ![p] = @ \cup {surface}]
  /\ runState' = IF surface = "admin" THEN p ELSE runState
  /\ UNCHANGED <<script, schemaRow, role, applied, port, upgrade, kills>>

\* A listener leaves its accept loop (a signal, /api/admin/shutdown, an
\* error): its socket closes, and the other one is told to leave as well.
LeavesLoop(p) ==
  /\ Goes(p, "serving", "stopping")
  /\ port' = IF port = p THEN NoProc ELSE port
  /\ UNCHANGED <<script, schemaRow, role, applied, listeners, runState, upgrade, kills>>

\* mistake: the file goes with the last listener instead of the administrator's.
RemovedLast(p, surface) ==
  IF listeners[p] = {surface} THEN NoProc ELSE runState

\* What remains of the run state when a task of p ends: the finally of
\* serve() removes the file, whatever ended the task and whoever wrote it.
RunStateAfter(p, surface) ==
  IF surface = "admin" THEN NoProc ELSE runState

\* Each task of the daemon ends; after the last the application shuts down.
ListenerEnds(p, surface) ==
  /\ pc[p] = "stopping"
  /\ surface \in listeners[p]
  /\ listeners' = [listeners EXCEPT ![p] = @ \ {surface}]
  /\ runState' = RunStateAfter(p, surface)
  /\ pc' = [pc EXCEPT ![p] = IF listeners'[p] = {} THEN "closing" ELSE "stopping"]
  /\ UNCHANGED <<script, schemaRow, role, applied, port, upgrade, kills>>

\* Yuubot.shutdown() and Runtime.shutdown(): the database is closed last.
Closes(p) ==
  /\ Goes(p, "closing", "exited")
  /\ port' = IF port = p THEN NoProc ELSE port
  /\ UNCHANGED <<script, schemaRow, role, applied, listeners, runState, upgrade, kills>>

\* SIGKILL, a power failure: no finally runs; the files stay as they are.
Killed(p) ==
  /\ kills < MaxKills
  /\ Alive(p)
  /\ pc' = [pc EXCEPT ![p] = "killed"]
  /\ listeners' = [listeners EXCEPT ![p] = {}]
  /\ port' = IF port = p THEN NoProc ELSE port
  /\ kills' = kills + 1
  /\ UNCHANGED <<script, schemaRow, role, applied, runState, upgrade>>

-----------------------------------------------------------------------------
(* The upgrade of an installation.                                         *)

\* schedule_apply() started the script, which has fetched the new code:
\* systemctl stop asks the service to leave.
UpgradeStops ==
  /\ upgrade = "idle"
  /\ upgrade' = "stopping"
  /\ UNCHANGED <<script, schemaRow, pc, role, applied, listeners, port, runState, kills>>

\* systemctl stop returns when the service has exited; its failure is
\* ignored, so the migration may begin under a running daemon.
UpgradeMigrates(p) ==
  /\ upgrade = "stopping"
  /\ Starts(p, "migrate")
  /\ upgrade' = "migrating"
  /\ UNCHANGED <<script, schemaRow, applied, listeners, port, runState, kills>>

\* ybot migrate and ybot check succeeded: the next step; one failed: set -e
\* ends the script and the service stays down.
UpgradeGoesOn(p) ==
  /\ \/ upgrade = "migrating" /\ role[p] = "migrate"
     \/ upgrade = "checking" /\ role[p] = "check"
  /\ pc[p] \in Gone
  /\ upgrade' = IF pc[p] = "exited" /\ applied[p] = LastVersion
                THEN (IF upgrade = "migrating" THEN "checking" ELSE "restarting")
                ELSE "failed"
  /\ UNCHANGED <<script, schemaRow, pc, role, applied, listeners, port, runState, kills>>

UpgradeChecks(p) ==
  /\ upgrade = "checking"
  /\ \A q \in Procs : role[q] # "check"
  /\ Starts(p, "check")
  /\ UNCHANGED <<script, schemaRow, applied, listeners, port, runState, upgrade, kills>>

\* systemctl restart.
UpgradeRestarts(p) ==
  /\ upgrade = "restarting"
  /\ Starts(p, "serve")
  /\ upgrade' = "done"
  /\ UNCHANGED <<script, schemaRow, applied, listeners, port, runState, kills>>

DaemonNext ==
  \/ \E p \in Procs :
       \/ StartServer(p) \/ ReadVersion(p) \/ BeginScript(p) \/ FinishScript(p)
       \/ ScriptFails(p) \/ RecordVersion(p) \/ Loads(p)
       \/ Binds(p) \/ BindFails(p) \/ AppStarts(p) \/ LeavesLoop(p)
       \/ \E surface \in {"admin", "public"} : Listens(p, surface) \/ ListenerEnds(p, surface)
       \/ Closes(p) \/ Killed(p)
       \/ UpgradeMigrates(p) \/ UpgradeGoesOn(p) \/ UpgradeChecks(p) \/ UpgradeRestarts(p)
  \/ UpgradeStops

DaemonSpec == DaemonInit /\ [][DaemonNext]_daemonVars

-----------------------------------------------------------------------------

\* No version is recorded before the whole of its script is in the database.
RecordedIsRun == \A v \in 1..schemaRow : script[v] = "done"

\* A daemon serves only on the complete schema of its code: with processes
\* that migrate at the same time (migrate() takes no lock over the script and
\* its row) and with one killed anywhere in between, no version that a later
\* start skips is missing statements.
ServesWholeSchema ==
  \A p \in Procs :
    pc[p] \in {"loaded", "bound", "started", "serving", "stopping"} =>
      \A v \in Versions : script[v] = "done"

\* The run state names a process that serves the administrator's listener,
\* unless a killed process left it behind: a failed start, a failed listener
\* and a lost race for the port all leave no stale file, which would make
\* ybot export and ybot db info refuse and ybot upgrade misjudge the restart.
StaleOnlyAfterKill ==
  runState # NoProc => "admin" \in listeners[runState] \/ pc[runState] = "killed"
=============================================================================
