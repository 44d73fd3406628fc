-------------------------------- MODULE Cron --------------------------------
(***************************************************************************)
(* One cron job: its row (runtime/cron/store.py), its entry in APScheduler *)
(* (scheduler.py), a run of it (executor.py), and the administrator's      *)
(* requests (app/cron.py), among them the pause of all jobs of an actor    *)
(* that is disabled.  Requests come one at a time; runs and crashes come   *)
(* at any moment.                                                          *)
(*                                                                         *)
(* Statements of the one SQLite connection run in the order they were      *)
(* issued, so a read or write of the row is one step, together with what   *)
(* the coroutine does before it waits for it.  APScheduler is external: it *)
(* drops a one-shot entry when it fires or misfires, and skips a firing    *)
(* while the job runs (max_instances=1).                                   *)
(***************************************************************************)
EXTENDS Naturals

CONSTANTS
  MaxFirings,   \* bound: firings of the scheduler
  MaxRequests,  \* bound: requests of the administrator
  MaxCrashes    \* bound: daemon crashes

ASSUME CronAssumption == MaxFirings \in Nat /\ MaxRequests \in Nat /\ MaxCrashes \in Nat

VARIABLES
  once,       \* lifecycle_once_for_schedule: an "at" schedule
  status,     \* status in the row, "none" when there is no row
  entry,      \* the job has an entry in APScheduler
  runAt,      \* where the run is
  admin,      \* the request under way
  adminAt,    \* and where it is
  delivered,  \* actions carried out
  cut,        \* crashes between an action and the row that records it
  registered, \* times register made the row active
  firings, requests, crashes

cronVars == <<once, status, entry, runAt, admin, adminAt, delivered, cut, registered,
              firings, requests, crashes>>

CronInit ==
  /\ once \in BOOLEAN /\ status = "none" /\ entry = FALSE /\ runAt = "no"
  /\ admin = "none" /\ adminAt = "none"
  /\ delivered = 0 /\ cut = 0 /\ registered = 0 /\ firings = 0 /\ requests = 0 /\ crashes = 0

-----------------------------------------------------------------------------

CronRequest(kind, at) ==
  /\ admin = "none" /\ requests < MaxRequests
  /\ requests' = requests + 1
  /\ admin' = kind /\ adminAt' = at

AdminGoes(at) == adminAt' = at /\ UNCHANGED <<admin, requests>>
AdminDone == admin' = "none" /\ adminAt' = "none" /\ UNCHANGED requests

CounterVars == <<delivered, cut, firings, crashes>>

\* CronJobStore.put inserts or updates: a row that is gone comes back.
PutJob(to) == status' = to

\* create_cron_job: build_new validates, register puts.
CreateJob ==
  /\ status = "none" /\ registered = 0
  /\ CronRequest("register", "put")
  /\ UNCHANGED <<once, status, entry, runAt, registered, CounterVars>>

\* resume reads the row; there is no job without one.
ResumeGets ==
  /\ status # "none"
  /\ CronRequest("register", "put")
  /\ UNCHANGED <<once, status, entry, runAt, registered, CounterVars>>

\* register: the row becomes active ...
RegisterPuts ==
  /\ adminAt = "put"
  /\ PutJob("active") /\ registered' = registered + 1
  /\ AdminGoes("schedule")
  /\ UNCHANGED <<once, entry, runAt, CounterVars>>

\* ... then the job gets its entry, and the row is written again when the next run found
\* there is not the one it had.
RegisterSchedules ==
  /\ adminAt = "schedule"
  /\ entry' = TRUE
  /\ status' \in {"active", status}
  /\ AdminDone
  /\ UNCHANGED <<once, runAt, registered, CounterVars>>

\* pause reads the row; pause_for_owner_prefix reads the list first and pauses active jobs.
PauseGets ==
  /\ status # "none"
  /\ CronRequest("pause", "get")
  /\ UNCHANGED <<once, status, entry, runAt, registered, CounterVars>>

PauseForOwner ==
  /\ status = "active"
  /\ CronRequest("pause", "list")
  /\ UNCHANGED <<once, status, entry, runAt, registered, CounterVars>>

OwnerGets ==
  /\ adminAt = "list"
  /\ IF status = "none" THEN AdminDone ELSE AdminGoes("get")
  /\ UNCHANGED <<once, status, entry, runAt, registered, CounterVars>>

\* pause: the entry goes, the row becomes paused whatever it has become meanwhile.
PausePuts ==
  /\ adminAt = "get"
  /\ entry' = FALSE /\ PutJob("paused")
  /\ AdminDone
  /\ UNCHANGED <<once, runAt, registered, CounterVars>>

\* delete: the entry, then the row.
DeleteJob ==
  /\ CronRequest("delete", "done")
  /\ entry' = FALSE /\ status' = "none"
  /\ UNCHANGED <<once, runAt, registered, CounterVars>>

DeleteReturns ==
  /\ adminAt = "done"
  /\ AdminDone
  /\ UNCHANGED <<once, status, entry, runAt, registered, CounterVars>>

-----------------------------------------------------------------------------

\* The scheduler fires the job: a one-shot entry is gone.
FireJob ==
  /\ entry /\ runAt = "no" /\ firings < MaxFirings
  /\ firings' = firings + 1
  /\ entry' = ~once
  /\ runAt' = "fired"
  /\ UNCHANGED <<once, status, admin, adminAt, requests, delivered, cut, registered, crashes>>

\* More than misfire_grace_time late: nothing runs.
MisfireJob ==
  /\ entry /\ once
  /\ entry' = FALSE
  /\ UNCHANGED <<once, status, runAt, admin, adminAt, requests, registered, CounterVars>>

\* run: the row is read; a job that is gone or not active, or whose actor does not run, ends.
RunGets ==
  /\ runAt = "fired"
  /\ \/ status = "active" /\ runAt' = "got"
     \/ runAt' = "no"
  /\ UNCHANGED <<once, status, entry, admin, adminAt, requests, registered, CounterVars>>

\* The action: a task, a message to the actor's mailbox, a notification.
RunDelivers ==
  /\ runAt = "got"
  /\ runAt' = "delivered"
  /\ delivered' = delivered + 1
  /\ UNCHANGED <<once, status, entry, admin, adminAt, requests, registered, cut, firings, crashes>>

\* It raised: the row keeps the status it had.
CronRunFails ==
  /\ runAt = "got"
  /\ runAt' = "no"
  /\ UNCHANGED <<once, status, entry, admin, adminAt, requests, registered, CounterVars>>

\* mistake: the job is written as it was read.
PutsAsRead == PutJob("active")

\* What a run writes: the job as it was read, completed when it is a one-shot.
PutsOutcome == PutJob(IF once THEN "completed" ELSE "active")

\* The statements of this write and of a register that waits for its own commit are
\* committed in their order, so the register goes on first.
RunPuts ==
  /\ runAt = "delivered"
  /\ runAt' = IF adminAt = "schedule" THEN "after" ELSE "put"
  /\ PutsOutcome
  /\ UNCHANGED <<once, entry, admin, adminAt, requests, registered, CounterVars>>

RunEnds ==
  /\ runAt = "put" \/ (runAt = "after" /\ adminAt # "schedule")
  /\ runAt' = "no"
  /\ entry' = IF once THEN FALSE ELSE entry
  /\ UNCHANGED <<once, status, admin, adminAt, requests, registered, CounterVars>>

\* The daemon dies; the next start schedules the rows that are active.
CronRestart ==
  /\ crashes < MaxCrashes
  /\ crashes' = crashes + 1
  /\ cut' = IF runAt = "delivered" THEN cut + 1 ELSE cut
  /\ runAt' = "no" /\ admin' = "none" /\ adminAt' = "none"
  /\ entry' = (status = "active")
  /\ UNCHANGED <<once, status, requests, delivered, registered, firings>>

CronNext ==
  \/ CreateJob \/ ResumeGets \/ RegisterPuts \/ RegisterSchedules
  \/ PauseGets \/ PauseForOwner \/ OwnerGets \/ PausePuts \/ DeleteJob \/ DeleteReturns
  \/ FireJob \/ MisfireJob \/ RunGets \/ RunDelivers \/ CronRunFails \/ RunPuts \/ RunEnds
  \/ CronRestart

CronSpec == CronInit /\ [][CronNext]_cronVars

-----------------------------------------------------------------------------

CronTypeOK ==
  /\ once \in BOOLEAN /\ entry \in BOOLEAN
  /\ status \in {"none", "active", "paused", "completed"}
  /\ runAt \in {"no", "fired", "got", "delivered", "put", "after"}
  /\ admin \in {"none", "register", "pause", "delete"}
  /\ adminAt \in {"none", "put", "schedule", "list", "get", "done"}
  /\ delivered \in 0..MaxFirings /\ firings \in 0..MaxFirings
  /\ requests \in 0..MaxRequests /\ crashes \in 0..MaxCrashes
  /\ cut \in 0..MaxCrashes /\ registered \in 0..MaxRequests

\* A one-shot job acts once: it acts again only when someone registered it again, or when
\* the daemon died between the action and the row that says completed, and the next start
\* finds the row active (executor.py, scheduler.py sync_from_store).
OneShotActsOnce == once => delivered <= registered + cut

\* With no request and no run under way the scheduler holds no job that was paused, completed
\* or deleted, although runs write back the row they read before they acted.
EntryIsActive == admin = "none" /\ runAt = "no" /\ entry => status = "active"
=============================================================================
