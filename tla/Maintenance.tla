---------------------------- MODULE Maintenance -----------------------------
(***************************************************************************)
(* Backup and offline restore of the database (operations.py), against     *)
(* processes that open it (storage/db.py) and may die at any point.        *)
(*                                                                         *)
(* The database is two files: a base and a write-ahead log.  A content is  *)
(* a number; a log gives a content over the base it was written for, and   *)
(* is read with whatever base lies beside it.                              *)
(***************************************************************************)
EXTENDS Integers

CONSTANTS
    Services,       \* processes that hold connections
    MaxContent,     \* bound: transactions ever committed
    MaxRestores     \* bound: restores begun

ASSUME MaintenanceAssumption == MaxContent \in Nat /\ MaxRestores \in Nat

VARIABLES
    files,          \* the database: [base, over, gives], the log's parts equal if none
    running,        \* services with an open connection, each with a shared guard
    backup,         \* backup_database in progress
    backups,        \* contents of published backups
    restore,        \* restore_database in progress; it holds the exclusive guard
    marker,         \* the restore-in-progress file
    safety,         \* files of the pre-restore directory
    committed,      \* contents made so far
    truth,          \* history: what readers must find
    saved,          \* history: what they found before the latest restore
    restores

mntVars == <<files, running, backup, backups, restore, marker, safety, committed, truth, saved, restores>>

Files(base, over, gives) == [base |-> base, over |-> over, gives |-> gives]
NoLog == -1
Mixed == -2
NoFiles == Files(NoLog, NoLog, NoLog)

\* What SQLite shows: the log's content over its own base.
View(f) ==
    IF f.gives = NoLog THEN f.base ELSE IF f.over = f.base THEN f.gives ELSE Mixed

MntInit ==
    /\ files = Files(0, NoLog, NoLog)
    /\ running = {}
    /\ backup = [at |-> "idle", content |-> 0]
    /\ backups = {}
    /\ restore = [at |-> "idle", content |-> 0]
    /\ marker = FALSE
    /\ safety = NoFiles
    /\ committed = 0 /\ truth = 0 /\ saved = 0 /\ restores = 0

---------------------------------------------------------------------------
(* runtime_guard: flock, shared or exclusive, without waiting; those who   *)
(* share it also refuse to start beside a marker.                          *)
GuardedShared == running # {} \/ backup.at = "copying"

\* Mutant: the lock alone keeps services out.
MayShareUnlocked == restore.at = "idle"

MayShare == restore.at = "idle" /\ ~marker

MayExclude == restore.at = "idle" /\ ~GuardedShared

get_connection(s) ==
    /\ s \notin running /\ MayShare
    /\ running' = running \cup {s}
    /\ UNCHANGED <<files, backup, backups, restore, marker, safety, committed, truth, saved, restores>>

\* A transaction commits into the log.
Commit(s) ==
    /\ s \in running
    /\ committed < MaxContent
    /\ committed' = committed + 1 /\ truth' = committed + 1
    /\ files' = Files(files.base, files.base, committed + 1)
    /\ UNCHANGED <<running, backup, backups, restore, marker, safety, saved, restores>>

\* SQLite folds the log into the base while connections are open, and may do so
\* when the last one closes.  A process that dies leaves the log.
Checkpointed == Files(View(files), NoLog, NoLog)

Checkpoint ==
    /\ running # {} /\ files.gives # NoLog
    /\ files' = Checkpointed
    /\ UNCHANGED <<running, backup, backups, restore, marker, safety, committed, truth, saved, restores>>

Close(s) ==
    /\ s \in running
    /\ running' = running \ {s}
    /\ UNCHANGED <<files, backup, backups, restore, marker, safety, committed, truth, saved, restores>>

---------------------------------------------------------------------------
(* backup_database: a consistent copy under the shared guard, published by *)
(* a link once the guard is gone.                                          *)
BackupCopies ==
    /\ backup.at = "idle" /\ MayShare
    /\ backup' = [at |-> "copying", content |-> View(files)]
    /\ UNCHANGED <<files, running, backups, restore, marker, safety, committed, truth, saved, restores>>

BackupReleases ==
    /\ backup.at = "copying"
    /\ backup' = [backup EXCEPT !.at = "copied"]
    /\ UNCHANGED <<files, running, backups, restore, marker, safety, committed, truth, saved, restores>>

BackupPublishes ==
    /\ backup.at = "copied"
    /\ backups' = backups \cup {backup.content}
    /\ backup' = [at |-> "idle", content |-> 0]
    /\ UNCHANGED <<files, running, restore, marker, safety, committed, truth, saved, restores>>

BackupDies ==
    /\ backup.at # "idle"
    /\ backup' = [at |-> "idle", content |-> 0]
    /\ UNCHANGED <<files, running, backups, restore, marker, safety, committed, truth, saved, restores>>

---------------------------------------------------------------------------
(* restore_database, one step per change on disk.                          *)
Advances(from, to) == restore.at = from /\ restore' = [restore EXCEPT !.at = to]

\* _inactive_services and _assert_no_database_users: what can be seen of others.
NothingRuns == running = {}

\* The guard, the check for a marker and the checks that nothing runs.
RestoreBegins(c) ==
    /\ MayExclude /\ ~marker /\ NothingRuns /\ c \in backups
    /\ restores < MaxRestores /\ restores' = restores + 1
    /\ restore' = [at |-> "guarded", content |-> c]
    /\ saved' = truth
    /\ UNCHANGED <<files, running, backup, backups, marker, safety, committed, truth>>

\* The replacement is staged; the safety directory is a new one.
StageBackup ==
    /\ Advances("guarded", "staged")
    /\ safety' = NoFiles
    /\ UNCHANGED <<files, running, backup, backups, marker, committed, truth, saved, restores>>

\* The exact old files are preserved, the sidecars too.
CopyToSafety ==
    /\ Advances("staged", "safe")
    /\ safety' = files
    /\ UNCHANGED <<files, running, backup, backups, marker, committed, truth, saved, restores>>

WriteMarker ==
    /\ Advances("safe", "marked")
    /\ marker' = TRUE
    /\ UNCHANGED <<files, running, backup, backups, safety, committed, truth, saved, restores>>

\* The log is retired before the base is replaced.
RetireSidecars ==
    /\ Advances("marked", "retired")
    /\ files' = [files EXCEPT !.over = NoLog, !.gives = NoLog]
    /\ UNCHANGED <<running, backup, backups, marker, safety, committed, truth, saved, restores>>

ReplaceBase ==
    /\ Advances("retired", "switched")
    /\ files' = [files EXCEPT !.base = restore.content]
    /\ truth' = restore.content
    /\ UNCHANGED <<running, backup, backups, marker, safety, committed, saved, restores>>

\* The new database is checked and the marker removed.
RemoveMarker ==
    /\ Advances("switched", "idle")
    /\ marker' = FALSE
    /\ UNCHANGED <<files, running, backup, backups, safety, committed, truth, saved, restores>>

\* Refused, failed or killed: the guard goes, and what is on disk stays.
RestoreStops ==
    /\ restore.at # "idle"
    /\ restore' = [restore EXCEPT !.at = "idle"]
    /\ UNCHANGED <<files, running, backup, backups, marker, safety, committed, truth, saved, restores>>

\* The operator puts the files of the recorded safety directory back.
Recover ==
    /\ marker /\ restore.at = "idle" /\ ~GuardedShared
    /\ files' = safety /\ truth' = saved /\ marker' = FALSE
    /\ UNCHANGED <<running, backup, backups, restore, safety, committed, saved, restores>>

---------------------------------------------------------------------------
MntNext ==
    \/ \E s \in Services : get_connection(s) \/ Commit(s) \/ Close(s)
    \/ Checkpoint
    \/ BackupCopies \/ BackupReleases \/ BackupPublishes \/ BackupDies
    \/ \E c \in backups : RestoreBegins(c)
    \/ StageBackup \/ CopyToSafety \/ WriteMarker \/ RetireSidecars
    \/ ReplaceBase \/ RemoveMarker \/ RestoreStops \/ Recover

MntSpec == MntInit /\ [][MntNext]_mntVars

---------------------------------------------------------------------------
(* A process that has the database open, and a backup that is taken, finds *)
(* all of what was last committed or all of the restored backup: never the *)
(* old base without its log, nor the new base with the old one's log,      *)
(* wherever a restore stopped.                                             *)
(* While the marker keeps them out, the safety directory holds all of what *)
(* the database held before, so that the operator can go back.             *)
RestoreIsWhole ==
    /\ GuardedShared => View(files) = truth
    /\ marker => View(safety) = saved
=============================================================================
