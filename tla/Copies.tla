------------------------------- MODULE Copies -------------------------------
(***************************************************************************)
(* Directories the daemon copies file by file and then shows under their   *)
(* name by a rename: the snapshot of a share (runtime/shares.py) and a     *)
(* skill copied into an actor's workspace (runtime/skills.py).             *)
(*                                                                         *)
(* The copying is one stretch of code without an await, but it takes many  *)
(* calls of the file system: each may raise, and the daemon may die        *)
(* between any two of them.  Share requests, the sweep of expired grants   *)
(* and the actor's own work on its workspace go on in between.             *)
(***************************************************************************)
EXTENDS Naturals

CONSTANTS Shares  \* share ids, never used twice

VARIABLES
  shareDir,  \* published/<id>: "none", "tmp" (<id>.tmp, part of it), "whole", "part"
  grantRow,  \* its grant in the database
  grant,     \* and in memory
  shareAt,   \* where its publication or removal is
  expired,   \* expires_at is over
  skillDir,  \* the skill in the workspace: "none", "whole", "part"
  backup,    \* .<id>-backup beside it
  staging,   \* the temporary directory of the copy under way: "none", "part", "whole"
  copyAt,    \* where the copy is
  owned      \* a copy of the skill was installed and the actor has not deleted it since

shareVars == <<shareDir, grantRow, grant, shareAt, expired>>
skillVars == <<skillDir, backup, staging, copyAt, owned>>
copyVars == <<shareVars, skillVars>>

CopyInit ==
  /\ shareDir = [s \in Shares |-> "none"] /\ grantRow = [s \in Shares |-> FALSE]
  /\ grant = [s \in Shares |-> FALSE] /\ shareAt = [s \in Shares |-> "new"]
  /\ expired = [s \in Shares |-> FALSE]
  /\ skillDir = "none" /\ backup = "none" /\ staging = "none" /\ copyAt = "idle" /\ owned = FALSE

-----------------------------------------------------------------------------

\* publish: the source is copied into <id>.tmp, renamed, then the grant is stored.
PublishCopies(s) ==
  /\ shareAt[s] = "new"
  /\ shareDir' = [shareDir EXCEPT ![s] = "tmp"]
  /\ shareAt' = [shareAt EXCEPT ![s] = "copying"]
  /\ UNCHANGED <<grantRow, grant, expired, skillVars>>

PublishFails(s) ==
  /\ shareAt[s] = "copying"
  /\ shareDir' = [shareDir EXCEPT ![s] = "none"]
  /\ shareAt' = [shareAt EXCEPT ![s] = "over"]
  /\ UNCHANGED <<grantRow, grant, expired, skillVars>>

PublishShows(s) ==
  /\ shareAt[s] = "copying"
  /\ shareDir' = [shareDir EXCEPT ![s] = "whole"]
  /\ shareAt' = [shareAt EXCEPT ![s] = "shown"]
  /\ UNCHANGED <<grantRow, grant, expired, skillVars>>

PersistGrant(s) ==
  /\ shareAt[s] = "shown"
  /\ grantRow' = [grantRow EXCEPT ![s] = TRUE]
  /\ shareAt' = [shareAt EXCEPT ![s] = "persisted"]
  /\ UNCHANGED <<shareDir, grant, expired, skillVars>>

GrantShare(s) ==
  /\ shareAt[s] = "persisted"
  /\ grant' = [grant EXCEPT ![s] = TRUE]
  /\ shareAt' = [shareAt EXCEPT ![s] = "granted"]
  /\ UNCHANGED <<shareDir, grantRow, expired, skillVars>>

Expire(s) ==
  /\ grant[s] /\ ~expired[s]
  /\ expired' = [expired EXCEPT ![s] = TRUE]
  /\ UNCHANGED <<shareDir, grantRow, grant, shareAt, skillVars>>

\* The grant goes before its directory, from memory and from the database.
DropGrant(s) ==
  /\ grant' = [grant EXCEPT ![s] = FALSE] /\ grantRow' = [grantRow EXCEPT ![s] = FALSE]

\* revoke, and sweep_expired for a grant that has expired.
RemoveGrant(s) ==
  /\ grant[s] /\ shareAt[s] = "granted"
  /\ DropGrant(s)
  /\ shareAt' = [shareAt EXCEPT ![s] = "removing"]
  /\ UNCHANGED <<shareDir, expired, skillVars>>

RemoveStarts(s) ==
  /\ shareAt[s] = "removing" /\ shareDir[s] = "whole"
  /\ shareDir' = [shareDir EXCEPT ![s] = "part"]
  /\ UNCHANGED <<grantRow, grant, shareAt, expired, skillVars>>

Removed(s) ==
  /\ shareAt[s] = "removing" /\ shareDir[s] # "whole"
  /\ shareDir' = [shareDir EXCEPT ![s] = "none"]
  /\ shareAt' = [shareAt EXCEPT ![s] = "over"]
  /\ UNCHANGED <<grantRow, grant, expired, skillVars>>

-----------------------------------------------------------------------------

\* copy_skill, of a skill that is not there or that the administrator replaces.
CopyStarts ==
  /\ copyAt = "idle"
  /\ staging' = "part" /\ copyAt' = "staging"
  /\ UNCHANGED <<skillDir, backup, owned, shareVars>>

CopyStaged ==
  /\ copyAt = "staging"
  /\ staging' = "whole"
  /\ copyAt' = IF skillDir = "none" THEN "install" ELSE IF backup = "none" THEN "aside" ELSE "clear"
  /\ UNCHANGED <<skillDir, backup, owned, shareVars>>

\* An older backup is removed when there is a skill to be set aside.
ClearBackup ==
  /\ copyAt = "clear"
  /\ \/ backup = "whole" /\ backup' = "part" /\ UNCHANGED copyAt
     \/ backup = "part" /\ backup' = "none" /\ copyAt' = "aside"
  /\ UNCHANGED <<skillDir, staging, owned, shareVars>>

\* mistake: the previous copy is removed first.
RemoveAside == skillDir' = "none" /\ UNCHANGED backup
SetAside == skillDir' = "none" /\ backup' = skillDir

MoveAside ==
  /\ copyAt = "aside"
  /\ SetAside
  /\ copyAt' = "install"
  /\ UNCHANGED <<staging, owned, shareVars>>

Install ==
  /\ copyAt = "install"
  /\ skillDir' = staging /\ staging' = "none" /\ owned' = TRUE
  /\ copyAt' = IF backup = "none" THEN "idle" ELSE "cleanup"
  /\ UNCHANGED <<backup, shareVars>>

CleanupBackup ==
  /\ copyAt = "cleanup"
  /\ \/ backup = "whole" /\ backup' = "part" /\ UNCHANGED copyAt
     \/ backup = "part" /\ backup' = "none" /\ copyAt' = "idle"
  /\ UNCHANGED <<skillDir, staging, owned, shareVars>>

\* A step raises: without a skill the backup comes back, and the staging directory goes.
CopyFails ==
  /\ copyAt # "idle"
  /\ IF skillDir = "none" /\ backup # "none"
     THEN skillDir' = backup /\ backup' = "none"
     ELSE UNCHANGED <<skillDir, backup>>
  /\ staging' = "none" /\ copyAt' = "idle"
  /\ UNCHANGED <<owned, shareVars>>

\* The actor deletes the skill from its workspace.
ActorDeletes ==
  /\ copyAt = "idle" /\ skillDir # "none"
  /\ skillDir' = "none" /\ owned' = FALSE
  /\ UNCHANGED <<backup, staging, copyAt, shareVars>>

\* The daemon dies; the next one loads the grants.
CopyRestart ==
  /\ grant' = grantRow
  /\ shareAt' = [s \in Shares |-> IF shareAt[s] = "new" THEN "new"
                                  ELSE IF grantRow[s] THEN "granted" ELSE "over"]
  /\ staging' = "none" /\ copyAt' = "idle"
  /\ UNCHANGED <<shareDir, grantRow, expired, skillDir, backup, owned>>

CopyNext ==
  \/ \E s \in Shares :
       \/ PublishCopies(s) \/ PublishFails(s) \/ PublishShows(s) \/ PersistGrant(s) \/ GrantShare(s)
       \/ Expire(s) \/ RemoveGrant(s) \/ RemoveStarts(s) \/ Removed(s)
  \/ CopyStarts \/ CopyStaged \/ ClearBackup \/ MoveAside \/ Install \/ CleanupBackup \/ CopyFails
  \/ ActorDeletes \/ CopyRestart

CopySpec == CopyInit /\ [][CopyNext]_copyVars

-----------------------------------------------------------------------------

CopyTypeOK ==
  /\ shareDir \in [Shares -> {"none", "tmp", "whole", "part"}]
  /\ grantRow \in [Shares -> BOOLEAN] /\ grant \in [Shares -> BOOLEAN] /\ expired \in [Shares -> BOOLEAN]
  /\ shareAt \in [Shares -> {"new", "copying", "shown", "persisted", "granted", "removing", "over"}]
  /\ skillDir \in {"none", "whole", "part"} /\ backup \in {"none", "whole", "part"}
  /\ staging \in {"none", "part", "whole"} /\ owned \in BOOLEAN
  /\ copyAt \in {"idle", "staging", "clear", "aside", "install", "cleanup"}

\* Nothing half copied is ever shown or lost: a grant, in memory or in the database, has
\* its whole snapshot; an installed skill that its actor has not deleted is in place whole,
\* or its previous copy is in the backup whole - whatever raises, and wherever the daemon
\* dies (runtime/shares.py, runtime/skills.py copy_skill).
CopiesAreWhole ==
  /\ \A s \in Shares : grant[s] \/ grantRow[s] => shareDir[s] = "whole"
  /\ owned => skillDir = "whole" \/ (skillDir = "none" /\ backup = "whole")
=============================================================================
