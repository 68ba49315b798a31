-------------------------------- MODULE Backups ---------------------------------
(***************************************************************************)
(* The nightly database dumps (internal/service/backup.go, cmd/admin       *)
(* backup): every instance schedules its own, an operator may take one     *)
(* more, all upload under the key of the day and prune what has left the   *)
(* retention window.  /health shows each instance's last success, seeded   *)
(* from the bucket when it starts.  Time is counted in days: the ten       *)
(* minutes a run may take reach over one midnight at most.                 *)
(***************************************************************************)
EXTENDS Integers, FiniteSetsExt

CONSTANTS
    Machines,       \* instances of the API
    Shell,          \* the operator's `admin backup`
    OnBoot,         \* machines with BACKUP_RUN_ON_BOOT
    RetentionDays,  \* BACKUP_RETENTION_DAYS
    MaxDays,        \* bound on the calendar
    MaxRuns         \* bound on the backups begun

VARIABLES
    today,          \* the date (UTC)
    dumps,          \* key's date -> date its object was last written, or NoTime
    backup,         \* process -> [step, key, began]
    dueOn,          \* machine -> date of its next run
    lastSuccess,    \* process -> date of its last success, or NoTime
    runs            \* backups begun so far

backupVars == <<today, dumps, backup, dueOn, lastSuccess, runs>>

-----------------------------------------------------------------------------
NoTime == 0
Dates == 1 .. MaxDays
Takers == Machines \cup {Shell}
Stopped == [step |-> "stopped", key |-> NoTime, began |-> NoTime]
Stored == {d \in Dates : dumps[d] # NoTime}

\* keysToPrune compares dates: with a window below one day a run that ends
\* after midnight would prune its own dump.
ASSUME BackupsAssumption ==
    /\ RetentionDays \in Nat \ {0} /\ Shell \notin Machines
    /\ MaxDays \in Nat \ {0} /\ MaxRuns \in Nat

BackupsTypeOK ==
    /\ today \in Dates
    /\ dumps \in [Dates -> Dates \cup {NoTime}]
    /\ backup \in [Takers ->
          [step : {"stopped", "seeding", "waiting", "dumping", "dumped", "uploading", "stored", "pruning"},
           key : Dates \cup {NoTime}, began : Dates \cup {NoTime}]]
    /\ dueOn \in [Machines -> 1 .. MaxDays + 1]
    /\ lastSuccess \in [Takers -> Dates \cup {NoTime}]
    /\ runs \in 0 .. MaxRuns

BackupsInit ==
    /\ today = 1 /\ runs = 0
    /\ dumps = [d \in Dates |-> NoTime]
    /\ backup = [t \in Takers |-> Stopped]
    /\ dueOn = [m \in Machines |-> 1]
    /\ lastSuccess = [t \in Takers |-> NoTime]

Reaches(t, s) == backup' = [backup EXCEPT ![t].step = s]

\* Every way RunOnce returns: the scheduler waits again, the shell exits.
Ends(t) == backup' = [backup EXCEPT ![t] =
    IF t = Shell THEN Stopped ELSE [step |-> "waiting", key |-> NoTime, began |-> NoTime]]
Runs(t) ==
    /\ runs < MaxRuns /\ runs' = runs + 1
    /\ backup' = [backup EXCEPT ![t] = [step |-> "dumping", key |-> NoTime, began |-> today]]

-----------------------------------------------------------------------------
StartScheduler(m) ==
    /\ backup[m] = Stopped
    /\ Reaches(m, "seeding")
    /\ UNCHANGED <<today, dumps, dueOn, lastSuccess, runs>>

\* seedLastSuccess with the newest key's LastModified, unless the list fails;
\* then the run on boot, if any.  nextRunAt is later today or tomorrow.
Seed(m) ==
    /\ backup[m].step = "seeding"
    /\ \/ lastSuccess' = [lastSuccess EXCEPT ![m] =
             Max({@} \cup (IF Stored = {} THEN {} ELSE {dumps[Max(Stored)]}))]
       \/ UNCHANGED lastSuccess
    /\ IF m \in OnBoot THEN Runs(m) ELSE Ends(m) /\ UNCHANGED runs
    /\ dueOn' \in {[dueOn EXCEPT ![m] = d] : d \in {today, today + 1}}
    /\ UNCHANGED <<today, dumps>>

\* The hour comes; the next run is strictly later.
NightlyRun(m) ==
    /\ backup[m].step = "waiting" /\ today >= dueOn[m]
    /\ Runs(m)
    /\ dueOn' = [dueOn EXCEPT ![m] = today + 1]
    /\ UNCHANGED <<today, dumps, lastSuccess>>

RunBackup ==
    /\ backup[Shell] = Stopped
    /\ Runs(Shell)
    /\ UNCHANGED <<today, dumps, dueOn, lastSuccess>>

\* pg_dump, and pg_restore --list on what it wrote.
DumpVerified(t) ==
    /\ backup[t].step = "dumping"
    /\ Reaches(t, "dumped")
    /\ UNCHANGED <<today, dumps, dueOn, lastSuccess, runs>>

\* backupKey(time.Now()) is taken when the upload begins.
UploadBegins(t) ==
    /\ backup[t].step = "dumped"
    /\ backup' = [backup EXCEPT ![t].step = "uploading", ![t].key = today]
    /\ UNCHANGED <<today, dumps, dueOn, lastSuccess, runs>>

PutObject(t) ==
    /\ backup[t].step = "uploading"
    /\ dumps' = [dumps EXCEPT ![backup[t].key] = today]
    /\ Reaches(t, "stored")
    /\ UNCHANGED <<today, dueOn, lastSuccess, runs>>

RecordSuccess(t) ==
    /\ backup[t].step = "stored"
    /\ lastSuccess' = [lastSuccess EXCEPT ![t] = today]
    /\ Reaches(t, "pruning")
    /\ UNCHANGED <<today, dumps, dueOn, runs>>

\* Mutant of Expired: the last day of the window with it.
ExpiredInclusive(d) == d <= today - RetentionDays
Expired(d) == d < today - RetentionDays

\* Best effort: the list may fail, and any delete.
Prune(t) ==
    /\ backup[t].step = "pruning"
    /\ \E kept \in SUBSET {d \in Stored : Expired(d)} :
          dumps' = [d \in Dates |-> IF Expired(d) /\ d \notin kept THEN NoTime ELSE dumps[d]]
    /\ Ends(t)
    /\ UNCHANGED <<today, dueOn, lastSuccess, runs>>

\* A command fails, the context runs out; an upload may have been stored.
RunFails(t) ==
    /\ backup[t].step \in {"dumping", "dumped", "uploading"}
    /\ \/ UNCHANGED dumps
       \/ /\ backup[t].step = "uploading"
          /\ dumps' = [dumps EXCEPT ![backup[t].key] = today]
    /\ Ends(t)
    /\ UNCHANGED <<today, dueOn, lastSuccess, runs>>

Killed(t) ==
    /\ backup[t] # Stopped
    /\ backup' = [backup EXCEPT ![t] = Stopped]
    /\ lastSuccess' = [lastSuccess EXCEPT ![t] = NoTime]
    /\ UNCHANGED <<today, dumps, dueOn, runs>>

Midnight ==
    /\ today < MaxDays
    /\ \A t \in Takers : backup[t].began \in {NoTime, today}
    /\ today' = today + 1
    /\ UNCHANGED <<dumps, backup, dueOn, lastSuccess, runs>>

BackupsNext ==
    \/ \E m \in Machines : StartScheduler(m) \/ Seed(m) \/ NightlyRun(m)
    \/ RunBackup \/ Midnight
    \/ \E t \in Takers :
          \/ DumpVerified(t) \/ UploadBegins(t) \/ PutObject(t) \/ RecordSuccess(t)
          \/ Prune(t) \/ RunFails(t) \/ Killed(t)

BackupsSpec == BackupsInit /\ [][BackupsNext]_backupVars

-----------------------------------------------------------------------------
(* What /health calls the last backup is backed by one: while an instance  *)
(* shows a success, the bucket holds a dump of that day, of the day before *)
(* (its upload began before midnight), or a later one, whoever prunes,     *)
(* overwrites, fails half-way or restarts in between.                      *)
FreshnessIsBacked ==
    \A m \in Machines : lastSuccess[m] # NoTime =>
        \E d \in Stored : d + 1 >= lastSuccess[m]
=============================================================================
