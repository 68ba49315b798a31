------------------------------- MODULE Migrations -------------------------------
(***************************************************************************)
(* How an instance comes to serve: configuration, schema migrations, pool, *)
(* HTTP server (cmd/api/main.go, internal/config, internal/database), and  *)
(* the operator's migrate commands (cmd/admin).  Every process runs the    *)
(* migrations embedded in its own image.  golang-migrate is external: a    *)
(* version and a dirty flag in one row, read without its advisory lock by  *)
(* Version(), read again and written under it by Up, Steps and Force; a    *)
(* migration's statements are one implicit transaction, so a process that  *)
(* dies leaves the migration applied or not, and the row dirty.            *)
(***************************************************************************)
EXTENDS Integers, FiniteSetsExt

CONSTANTS
    Servers,       \* machines that run cmd/api
    Operator,      \* a shell (or the release machine) that runs cmd/admin
    Image,         \* process -> newest migration embedded in its binary
    AllowForce,    \* processes with ALLOW_DIRTY_MIGRATION_FORCE=true
    Rerunnable,    \* migrations whose SQL succeeds on a schema that has them
    MaxBoots       \* bound on the processes ever started

VARIABLES
    schema,        \* the row of schema_migrations: [version, dirty]
    applied,       \* migrations whose statements are committed
    takenBack,     \* history: migrations that migrate-down has taken out again
    migrating,     \* holder of the advisory lock, or Nobody
    machine,       \* process -> [step, at]: where it is, the version it works on
    advice,        \* version the last refusal tells the operator to force
    boots          \* processes started so far

migrationVars == <<schema, applied, takenBack, migrating, machine, advice, boots>>

-----------------------------------------------------------------------------
Nobody == "nobody"
NilVersion == -1
NoAdvice == -2
Processes == Servers \cup {Operator}
Newest == Max({Image[p] : p \in Processes})
Versions == 1 .. Newest
Off == [step |-> "off", at |-> NilVersion]

ASSUME MigrationsAssumption ==
    /\ IsFiniteSet(Servers) /\ Operator \notin Servers /\ Nobody \notin Processes
    /\ Image \in [Processes -> Nat \ {0}]
    /\ AllowForce \subseteq Processes /\ MaxBoots \in Nat

MigrationsTypeOK ==
    /\ schema \in [version : NilVersion .. Newest, dirty : BOOLEAN]
    /\ applied \subseteq Versions /\ takenBack \subseteq Versions
    /\ migrating \in Processes \cup {Nobody}
    /\ machine \in [Processes ->
          [step : {"off", "opened", "forcing", "up", "applying", "running", "ran", "reverting",
                   "undoing", "undone", "checking", "connecting", "connected", "serving"},
           at : NilVersion .. Newest]]
    /\ advice \in NoAdvice .. Newest
    /\ boots \in 0 .. MaxBoots

MigrationsInit ==
    /\ schema = [version |-> NilVersion, dirty |-> FALSE]
    /\ applied = {} /\ takenBack = {} /\ migrating = Nobody
    /\ machine = [p \in Processes |-> Off]
    /\ advice = NoAdvice /\ boots = 0

AtStep(p, s) == machine[p].step = s
MovesOn(p, s, v) == machine' = [machine EXCEPT ![p] = [step |-> s, at |-> v]]
Steps(p, s) == machine' = [machine EXCEPT ![p].step = s]
Exits(p) == machine' = [machine EXCEPT ![p] = Off]

-----------------------------------------------------------------------------
\* config.Load and Validate: outside development a setting that is missing or
\* that does not parse ends the process before it touches the database.
Validated(env, settings) == env = "development" \/ settings = "sound"

Boot(p) ==
    /\ AtStep(p, "off") /\ boots < MaxBoots
    /\ boots' = boots + 1
    /\ \E env \in {"development", "production"}, settings \in {"sound", "defaulted", "unparsed"} :
          IF Validated(env, settings) THEN Steps(p, "opened") ELSE UNCHANGED machine
    /\ UNCHANGED <<schema, applied, takenBack, migrating, advice>>

\* Mutants of Retried: force the version that has failed, as if it were applied.
RetriedAsApplied(version) == version
Retried(version) == IF version - 1 < 0 THEN NilVersion ELSE version - 1

\* m.Version(), without the lock.  No version at all reads as an error, and
\* the dirty flag with it.
ReadVersion(p) ==
    /\ AtStep(p, "opened")
    /\ IF schema.version # NilVersion /\ schema.dirty
       THEN IF p \in AllowForce
            THEN MovesOn(p, "forcing", Retried(schema.version)) /\ UNCHANGED advice
            ELSE Exits(p) /\ advice' = Retried(schema.version)
       ELSE Steps(p, "up") /\ UNCHANGED advice
    /\ UNCHANGED <<schema, applied, takenBack, migrating, boots>>

\* m.Force takes the lock for the one write.
Forced(v) == schema' = [version |-> v, dirty |-> FALSE]

AutoRecover(p) ==
    /\ AtStep(p, "forcing") /\ migrating = Nobody
    /\ Forced(machine[p].at)
    /\ Steps(p, "up")
    /\ UNCHANGED <<applied, takenBack, migrating, advice, boots>>

LockTimesOut(p) ==
    /\ machine[p].step \in {"forcing", "up"} /\ migrating # Nobody
    /\ Exits(p)
    /\ UNCHANGED <<schema, applied, takenBack, migrating, advice, boots>>

-----------------------------------------------------------------------------
\* golang-migrate: the versions an image can start from, and the next one.
Known(p, v) == v = NilVersion \/ v \in 1 .. Image[p]
After(v) == IF v = NilVersion THEN 1 ELSE v + 1
Before(v) == IF v = 1 THEN NilVersion ELSE v - 1

\* m.Up: the row is read again under the lock.
Up(p) ==
    /\ AtStep(p, "up") /\ migrating = Nobody
    /\ IF schema.dirty \/ ~Known(p, schema.version)
       THEN Exits(p) /\ UNCHANGED migrating
       ELSE IF schema.version = Image[p]                        \* ErrNoChange
            THEN Steps(p, "checking") /\ UNCHANGED migrating
            ELSE Steps(p, "applying") /\ migrating' = p
    /\ UNCHANGED <<schema, applied, takenBack, advice, boots>>

MarkDirty(p) ==
    /\ AtStep(p, "applying")
    /\ schema' = [version |-> After(schema.version), dirty |-> TRUE]
    /\ MovesOn(p, "running", After(schema.version))
    /\ UNCHANGED <<applied, takenBack, migrating, advice, boots>>

RunMigration(p) ==
    /\ AtStep(p, "running")
    /\ machine[p].at \in applied => machine[p].at \in Rerunnable
    /\ applied' = applied \cup {machine[p].at}
    /\ takenBack' = takenBack \ {machine[p].at}
    /\ Steps(p, "ran")
    /\ UNCHANGED <<schema, migrating, advice, boots>>

MarkClean(p) ==
    /\ AtStep(p, "ran")
    /\ schema' = [schema EXCEPT !.dirty = FALSE]
    /\ IF machine[p].at = Image[p]
       THEN Steps(p, "checking") /\ migrating' = Nobody
       ELSE Steps(p, "applying") /\ UNCHANGED migrating
    /\ UNCHANGED <<applied, takenBack, advice, boots>>

\* A statement fails, the database goes away, or the process is killed.
Dies(p) ==
    /\ ~AtStep(p, "off")
    /\ Exits(p)
    /\ migrating' = IF migrating = p THEN Nobody ELSE migrating
    /\ UNCHANGED <<schema, applied, takenBack, advice, boots>>

-----------------------------------------------------------------------------
\* The end of Migrate; admin migrate stops here.
CheckVersion(p) ==
    /\ AtStep(p, "checking")
    /\ IF schema.dirty \/ p = Operator THEN Exits(p) ELSE Steps(p, "connecting")
    /\ UNCHANGED <<schema, applied, takenBack, migrating, advice, boots>>

\* The pool is built and pinged.
Connect(p) ==
    /\ AtStep(p, "connecting")
    /\ Steps(p, "connected")
    /\ UNCHANGED <<schema, applied, takenBack, migrating, advice, boots>>

\* Workers, listeners and schedulers are started before the listener is.
Serve(p) ==
    /\ AtStep(p, "connected")
    /\ Steps(p, "serving")
    /\ UNCHANGED <<schema, applied, takenBack, migrating, advice, boots>>

\* admin migrate-force with the version the refusal named.
MigrateForce ==
    /\ AtStep(Operator, "off") /\ advice # NoAdvice
    /\ migrating = Nobody
    /\ Forced(advice) /\ advice' = NoAdvice
    /\ UNCHANGED <<applied, takenBack, migrating, machine, boots>>

\* admin migrate-down, which operators run between deploys: m.Steps(-1).
MigrateDown ==
    /\ boots < MaxBoots /\ boots' = boots + 1
    /\ \A p \in Processes : machine[p].step \in {"off", "serving"}
    /\ ~schema.dirty /\ schema.version \in 1 .. Image[Operator]
    /\ MovesOn(Operator, "reverting", schema.version) /\ migrating' = Operator
    /\ advice' = NoAdvice
    /\ UNCHANGED <<schema, applied, takenBack>>

RevertDirty ==
    /\ AtStep(Operator, "reverting")
    /\ schema' = [version |-> Before(machine[Operator].at), dirty |-> TRUE]
    /\ Steps(Operator, "undoing")
    /\ UNCHANGED <<applied, takenBack, migrating, advice, boots>>

RunDown ==
    /\ AtStep(Operator, "undoing")
    /\ applied' = applied \ {machine[Operator].at}
    /\ takenBack' = takenBack \cup {machine[Operator].at}
    /\ Steps(Operator, "undone")
    /\ UNCHANGED <<schema, migrating, advice, boots>>

RevertClean ==
    /\ AtStep(Operator, "undone")
    /\ schema' = [schema EXCEPT !.dirty = FALSE]
    /\ Exits(Operator) /\ migrating' = Nobody
    /\ UNCHANGED <<applied, takenBack, advice, boots>>

MigrationsNext ==
    \/ \E p \in Processes :
          \/ Boot(p) \/ ReadVersion(p) \/ AutoRecover(p) \/ LockTimesOut(p)
          \/ Up(p) \/ MarkDirty(p) \/ RunMigration(p) \/ MarkClean(p) \/ Dies(p)
          \/ CheckVersion(p) \/ Connect(p) \/ Serve(p)
    \/ MigrateForce \/ MigrateDown \/ RevertDirty \/ RunDown \/ RevertClean

MigrationsSpec == MigrationsInit /\ [][MigrationsNext]_migrationVars

-----------------------------------------------------------------------------
(* An instance that has come through Migrate has every migration of its    *)
(* image in the schema, whoever applied, died, recovered or rolled back at *)
(* the same time: a clean row never stands for a migration that was not    *)
(* run, because recovery goes back before the one that failed.  While it   *)
(* serves it can lose one to migrate-down only, which nothing keeps from   *)
(* running beside it.                                                      *)
ServesWhole ==
    \A p \in Servers :
        /\ machine[p].step \in {"connecting", "connected"} => 1 .. Image[p] \subseteq applied
        /\ AtStep(p, "serving") => 1 .. Image[p] \subseteq applied \cup takenBack

(* What migrate.go:38-55 says of a dirty database: forcing the version it  *)
(* computes, or prints for `admin migrate-force`, lets the migration be    *)
(* tried again ("special value: no version applied" before the first).  A  *)
(* version that no migration has cannot be started from, by any image.     *)
RecoveryCanRetry == schema.version \in {NilVersion} \cup Versions
=============================================================================
