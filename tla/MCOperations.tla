---------------------------- MODULE MCOperations ----------------------------
(***************************************************************************)
(* The components that run the service, and those of a competition outside *)
(* its scorecard, on a small instance.  They share no state, so a run      *)
(* looks at one of them at a time: the others stay in an initial state.    *)
(***************************************************************************)
EXTENDS RequestPath, SettingsCache, Backups, Migrations, Notices, CompBoard, CompSetup

CONSTANTS p1, p2

VARIABLE focus    \* the component the behaviour is of

\* The buckets of the latency histogram: up to 5, up to 1000, above.
MCBounds == <<5, 1000>>

\* The new image knows one migration more.
MCImage == [p \in Processes |-> IF p = "old" THEN 1 ELSE 2]

\* A top in the second try, with the zone in the first, and a zone in the second.
Cell(a, z, t) == [attempts |-> a, zoneAttempts |-> z, zone |-> z > 0, top |-> t]
MCResults == {Cell(2, 1, TRUE), Cell(2, 2, FALSE)}
MCPoints == [p \in BoardProblems |-> IF p = p1 THEN 0 ELSE 20]

Alike == Permutations(Slots)

\* Out of focus one configuration and one rule are enough.
OperationsInit ==
    /\ focus \in {"path", "settings", "backups", "migrations", "notices", "board", "setup"}
    /\ PathInit /\ SettingsInit /\ BackupsInit /\ MigrationsInit /\ SetupInit
    /\ NoticeInit /\ (focus # "notices" => setup.smtp /\ setup.required /\ enabled)
    /\ BoardInit /\ (focus # "board" => rule = CHOOSE r \in Rules : TRUE)

OperationsNext ==
    \/ /\ focus = "path" /\ PathNext
       /\ UNCHANGED <<focus, settingsVars, backupVars, migrationVars, allNoticeVars, boardVars,
                      setupVars>>
    \/ /\ focus = "settings" /\ SettingsNext
       /\ UNCHANGED <<focus, pathVars, backupVars, migrationVars, allNoticeVars, boardVars,
                      setupVars>>
    \/ /\ focus = "backups" /\ BackupsNext
       /\ UNCHANGED <<focus, pathVars, settingsVars, migrationVars, allNoticeVars, boardVars,
                      setupVars>>
    \/ /\ focus = "migrations" /\ MigrationsNext
       /\ UNCHANGED <<focus, pathVars, settingsVars, backupVars, allNoticeVars, boardVars,
                      setupVars>>
    \/ /\ focus = "notices" /\ NoticeNext
       /\ UNCHANGED <<focus, pathVars, settingsVars, backupVars, migrationVars, boardVars,
                      setupVars>>
    \/ /\ focus = "board" /\ BoardNext
       /\ UNCHANGED <<focus, pathVars, settingsVars, backupVars, migrationVars, allNoticeVars,
                      setupVars>>
    \/ /\ focus = "setup" /\ SetupNext
       /\ UNCHANGED <<focus, pathVars, settingsVars, backupVars, migrationVars, allNoticeVars,
                      boardVars>>

OperationsSpec ==
    OperationsInit
    /\ [][OperationsNext]_<<focus, pathVars, settingsVars, backupVars, migrationVars,
                            allNoticeVars, boardVars, setupVars>>

\* With nothing in flight the figures account for every request; read while requests
\* go on, the JSON and the histogram of the text end with a total that what they show
\* before stays within; and an answer has one coding and the status that was noted for
\* it, unless its handler panics after the first byte (middleware/metrics.go, logging.go,
\* recovery.go, security.go).
RequestsHold == PathTypeOK /\ FiguresAddUp /\ AnswerIsWhole

\* An instance shows the settings as they are stored, and a palette preset keeps the
\* sections it does not set, but for copies that another write has overtaken: in the
\* hands of a request, in the cache of another instance, behind a lost answer, or
\* filled in late.  An edit is hidden where it was made by a late fill only.  No two
\* patches turn a competition's window round (repository/settings_cached.go,
\* handler/comp.go).
EditsHold ==
    /\ SettingsTypeOK /\ OwnEditsAreRead /\ EntriesAreCurrent /\ EditsSurvive
    /\ SetupTypeOK /\ WindowsStayOrdered

\* A server that has come through Migrate has the whole schema of its image, and while
\* it serves it loses what migrate-down takes back beside it, and nothing else; a backup
\* that is called fresh is there (database/migrate.go, service/backup.go).
OperationsHold ==
    /\ MigrationsTypeOK /\ ServesWhole
    /\ BackupsTypeOK /\ FreshnessIsBacked

\* A competition is ranked by who is better, and a top costs nobody a place
\* (service/competition).
CompetitionHolds == BoardTypeOK /\ RankCountsBetter /\ TopsNeverHurt
=============================================================================
