------------------------------ MODULE RecordEdits ------------------------------
(***************************************************************************)
(* Creating and editing one row of the catalogue: a gym, a wall, a route,   *)
(* a session, a quest, a competition, a training plan.  An edit handler of *)
(* internal/handler loads the row, lays the fields of the request over it  *)
(* and hands the result to the repository, whose UPDATE sets a fixed list  *)
(* of columns.  No version and no lock ties the two statements together.   *)
(* A column stands for a group of columns that travel together; its value  *)
(* is the number of the request it was last taken from.                    *)
(***************************************************************************)
EXTENDS Naturals, FiniteSets

CONSTANTS
    Writers,      \* requests in flight
    MaxWrites     \* bound on the accepted writes

ASSUME RecordsAssumption == MaxWrites \in Nat

VARIABLES
    kind,         \* the table of the row, chosen at the start
    row,          \* column -> number; Unborn before, Gone after
    edit,         \* the requests
    kept,         \* history: what the last accepted request gave each column
    undone,       \* history: columns overwritten from an older row
    writes

recordVars == <<kind, row, edit, kept, undone, writes>>

-----------------------------------------------------------------------------
\* Mutant of LocationColumns: the form saves the switch along.
LocationColumnsAll == {"profile", "domain", "sharing", "progressions"}

\* The columns each repository's UPDATE sets.
LocationColumns == {"profile", "domain", "sharing"}
OrgColumns == {"name", "logo"}
UserColumns == {"name", "bio"}
CompetitionColumns == {"rules", "status", "dates"}
EventColumns == {"rules", "dates"}
ProblemColumns == {"label", "points"}
WallColumns == {"name", "shape", "map"}
RouteColumns == {"place", "look", "photo", "status"}
SessionColumns == {"date", "notes"}
DomainColumns == {"content"}
QuestColumns == {"content", "active", "window"}
BadgeColumns == {"content"}
PlanColumns == {"content", "active"}

Updated == [location |-> LocationColumns, org |-> OrgColumns, user |-> UserColumns,
            competition |-> CompetitionColumns, event |-> EventColumns,
            problem |-> ProblemColumns, wall |-> WallColumns, route |-> RouteColumns,
            session |-> SessionColumns, domain |-> DomainColumns,
            quest |-> QuestColumns, badge |-> BadgeColumns, plan |-> PlanColumns,
            item |-> {}, partner |-> {}, labor |-> {}]

\* A statement that sets columns and reads nothing before; it may reset others.
Statement(k, c) == [of |-> k, sets |-> c, resets |-> {}]
SetProgressionsEnabled == Statement("location", {"progressions"})
UpdateLocationSettings == Statement("location", {"settings"})
UpdatePassword == Statement("user", {"password"})
ArchiveWall == Statement("wall", {"archived"})
RouteStatusEdit == Statement("route", {"status"})
RateRoute == Statement("route", {"rating"})
SessionStatus == Statement("session", {"status"})
DeactivateQuest == Statement("quest", {"active"})
UpsertPartner == Statement("partner", {"profile"})
CompleteItem == Statement("item", {"ticked"})  \* a title sent along is not saved
EditItem == [Statement("item", {"content"}) EXCEPT !.resets = {"ticked"}]

Statements == {SetProgressionsEnabled, UpdateLocationSettings, UpdatePassword,
               ArchiveWall, RouteStatusEdit, RateRoute, SessionStatus,
               DeactivateQuest, UpsertPartner, CompleteItem, EditItem}

\* An edit takes the fields in may that the request names and those in must
\* whatever it names.
Patch(k, may, must) == [of |-> k, may |-> may, must |-> must]
UpdateLocation == Patch("location", {"profile"}, {"sharing"})
SetDomain == Patch("location", {}, {"domain"})
UpdateOrg == Patch("org", {"name", "logo"}, {})
UpdateMe == Patch("user", {"name", "bio"}, {})
UpdateCompetition == Patch("competition", {"rules", "status", "dates"}, {})
UpdateEvent == Patch("event", {"rules", "dates"}, {})
UpdateProblem == Patch("problem", {"label", "points"}, {})
UpdateWall == Patch("wall", {"name", "shape", "map"}, {})
UpdateRoute == Patch("route", {"place", "look", "photo"}, {})
UploadPhoto == Patch("route", {}, {"photo"})
UpdateSession == Patch("session", {"date", "notes"}, {})
UpdateDomain == Patch("domain", {}, {"content"})
UpdateQuest == Patch("quest", {}, {"content", "active", "window"})
UpdateBadge == Patch("badge", {}, {"content"})
UpdatePlan == Patch("plan", {"content", "active"}, {})

Edits == {UpdateLocation, SetDomain, UpdateOrg, UpdateMe, UpdateCompetition,
          UpdateEvent, UpdateProblem, UpdateWall, UpdateRoute, UploadPhoto,
          UpdateSession, UpdateDomain, UpdateQuest, UpdateBadge, UpdatePlan}

\* A new row; what the request does not name gets the column's default.
CreateLocation == Patch("location", {}, {"profile", "sharing"})
CreateWall == Patch("wall", {"map"}, {"name", "shape"})
CreateRoute == Patch("route", {"photo"}, {"place", "look", "status"})
CreateSession == Patch("session", {"notes"}, {"date"})
CreateDomain == Patch("domain", {}, {"content"})
CreateQuest == Patch("quest", {"window"}, {"content", "active"})
DuplicateQuest == Patch("quest", {}, {"content", "active"})
CreateBadge == Patch("badge", {}, {"content"})
CreatePlan == Patch("plan", {}, {"content", "active"})
AddItem == Patch("item", {}, {"content"})
LogLabor == Patch("labor", {}, {"hours"})

Creations == {CreateLocation, CreateWall, CreateRoute, CreateSession, CreateDomain,
              CreateQuest, DuplicateQuest, CreateBadge, CreatePlan, AddItem, LogLabor}

\* The tables whose rows an editor may delete.
Deletable == {"wall", "session", "domain", "badge"}

-----------------------------------------------------------------------------
Columns(k) == Updated[k] \cup UNION {s.sets : s \in {t \in Statements : t.of = k}}
                          \cup UNION {h.must : h \in {t \in Creations : t.of = k}}

Blank == 0
Fresh(k) == [c \in Columns(k) |-> 1]
Gone == [c \in {} |-> 1]
Unborn == [unborn |-> TRUE]
Stored == row \notin {Gone, Unborn}
Numbers == 0 .. MaxWrites + 1
NoEdit == [handler |-> "none"]

RecordsTypeOK ==
    /\ kind \in DOMAIN Updated
    /\ row \in [Columns(kind) -> Numbers] \cup {Gone, Unborn}
    /\ \A w \in Writers : edit[w] # NoEdit =>
          /\ edit[w].handler \in Edits /\ edit[w].base \in [Columns(kind) -> Numbers]
          /\ edit[w].asked \subseteq Updated[kind]
    /\ kept \in [Columns(kind) -> Numbers]
    /\ undone \subseteq Columns(kind)
    /\ writes \in 0 .. MaxWrites

RecordsInit ==
    /\ kind \in DOMAIN Updated
    /\ row \in {Fresh(kind), Unborn} /\ kept = Fresh(kind)
    /\ edit = [w \in Writers |-> NoEdit]
    /\ undone = {} /\ writes = 0

Insert(h, asked) ==
    LET number == writes + 2 IN
    /\ row = Unborn /\ h.of = kind /\ writes < MaxWrites
    /\ writes' = writes + 1
    /\ kept' = [c \in Columns(kind) |-> IF c \in asked THEN number ELSE 1]
    /\ row' = kept'
    /\ UNCHANGED <<kind, edit, undone>>

\* GetByID, the role check, Decode.
Load(w, h) ==
    /\ edit[w] = NoEdit /\ Stored
    /\ h.of = kind
    /\ \E named \in SUBSET h.may :
          edit' = [edit EXCEPT ![w] =
                      [handler |-> h, base |-> row, asked |-> h.must \cup named]]
    /\ UNCHANGED <<kind, row, kept, undone, writes>>

\* Not allowed, not valid, or the statement fails.
Refuse(w) ==
    /\ edit[w] # NoEdit
    /\ edit' = [edit EXCEPT ![w] = NoEdit]
    /\ UNCHANGED <<kind, row, kept, undone, writes>>

\* Mutant of Overlaid: the row is built from the request alone.
OverlaidBlank(e, number) ==
    [c \in Columns(kind) |-> IF c \in e.asked THEN number ELSE Blank]

\* The loaded row with the request laid over it.
Overlaid(e, number) ==
    [c \in Columns(kind) |-> IF c \in e.asked THEN number ELSE e.base[c]]

\* The UPDATE; it finds no row once the row is deleted.
Save(w) ==
    LET e == edit[w]
        number == writes + 2
        given == Overlaid(e, number)
    IN
    /\ e # NoEdit /\ Stored
    /\ writes < MaxWrites
    /\ writes' = writes + 1
    /\ row' = [c \in Columns(kind) |-> IF c \in Updated[kind] THEN given[c] ELSE row[c]]
    /\ kept' = [c \in Columns(kind) |-> IF c \in e.asked THEN number ELSE kept[c]]
    /\ undone' = (undone \cup {c \in Updated[kind] : e.base[c] # row[c]}) \ e.asked
    /\ edit' = [edit EXCEPT ![w] = NoEdit]
    /\ UNCHANGED kind

Run(s) ==
    LET number == writes + 2 IN
    /\ Stored /\ s.of = kind
    /\ writes < MaxWrites
    /\ writes' = writes + 1
    /\ row' = [c \in Columns(kind) |-> IF c \in s.sets THEN number
                                      ELSE IF c \in s.resets THEN Blank ELSE row[c]]
    /\ kept' = [c \in Columns(kind) |-> IF c \in s.sets THEN number ELSE kept[c]]
    /\ undone' = undone \ s.sets
    /\ UNCHANGED <<kind, edit>>

Delete ==
    /\ kind \in Deletable /\ Stored
    /\ row' = Gone
    /\ UNCHANGED <<kind, edit, kept, undone, writes>>

RecordsNext ==
    \/ \E w \in Writers : (\E h \in Edits : Load(w, h)) \/ Save(w) \/ Refuse(w)
    \/ \E h \in Creations : \E named \in SUBSET h.may : Insert(h, h.must \cup named)
    \/ \E s \in Statements : Run(s)
    \/ Delete

RecordsSpec == RecordsInit /\ [][RecordsNext]_recordVars

-----------------------------------------------------------------------------
\* What no form may ever bring back: the progressions switch, the settings, the
\* password, a wall's archive mark, a route's rating, a session's status.
Guarded == {<<"location", "progressions">>, <<"location", "settings">>,
            <<"user", "password">>, <<"wall", "archived">>, <<"route", "rating">>,
            <<"session", "status">>}

\* An accepted value is in its column until a request overwrites it that had
\* loaded the row before (UpdateLocation and the others), and a guarded column
\* is not overwritten even so.  Only the tick of a plan's item is not kept: the
\* PATCH of its title clears it (TrainingRepo.UpdateItem).
FieldsSurvive ==
    /\ RecordsTypeOK
    /\ Stored => \A c \in Columns(kind) :
          \/ row[c] = kept[c]
          \/ c \in undone /\ <<kind, c>> \notin Guarded
          \/ <<kind, c>> = <<"item", "ticked">>
=============================================================================
