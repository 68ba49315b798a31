------------------------------ MODULE Analytics ------------------------------
(* The figures a gym's staff work from (repository/analytics.go, labor.go and *)
(* the distribution of repository/route.go): every report is a query of its   *)
(* own over routes, ascents, memberships and labor logs, and several of them  *)
(* show what should be the same number.  A date is its age in days; while the *)
(* rows change the clock stands still.  Averages and names are left out.      *)
EXTENDS Integers, Sequences, FiniteSets, FiniteSetsExt, Functions

CONSTANTS
    Tags, Staff, Sender,    \* routes' ids, people who set, one who climbs
    Entered,                \* the rows of the routes that are set
    Ages,                   \* ages in days of ascents, labor and routes
    MaxClimbs, MaxLogs,     \* bounds: ascents and labor logs
    LifecycleLimit,         \* rows of RouteLifecycle: 500
    TrendingLimit           \* routes that Engagement lists: 10

Unset == "null"             \* SQL's NULL
Colours == {Unset, "kids", "red"}
Nobody == "nobody"
NoTag == [status |-> "none"]
Week == 7
Month == 30

VARIABLES
    shelf,      \* Tags -> the routes' rows
    climbs,     \* the ascents, in the order they were inserted
    roster,     \* Staff -> role at this gym, Unset when there is no live row
    laborLogs   \* the labor logs: [by, age, hours]

figureVars == <<shelf, climbs, roster, laborLogs>>

TagRows == [kind : {"boulder", "route"}, circuit : Colours, system : {"v_scale", "circuit"},
            status : {"active", "archived"}, deleted : BOOLEAN, by : Staff \cup {Nobody},
            age : Ages, strip : {Unset, "due", "later"}]

ASSUME FiguresAssumption ==
    /\ IsFiniteSet(Tags) /\ IsFiniteSet(Staff)
    /\ Entered \subseteq TagRows /\ Ages \subseteq Int
    /\ MaxClimbs \in Nat /\ MaxLogs \in Nat
    /\ LifecycleLimit \in Nat /\ TrendingLimit \in Nat

FiguresTypeOK ==
    /\ shelf \in [Tags -> TagRows \cup {NoTag}]
    /\ climbs \in Seq([by : {Sender}, of : Tags, sent : BOOLEAN, age : Ages])
    /\ laborLogs \in Seq([by : Staff, age : Ages, hours : {2}])
    /\ Len(climbs) <= MaxClimbs /\ Len(laborLogs) <= MaxLogs
    /\ roster \in [Staff -> {Unset, "setter", "head_setter", "climber"}]

-----------------------------------------------------------------------------
(* What one WHERE clause after another lets through.                          *)
Hanging(t) == shelf[t].status = "active" /\ ~shelf[t].deleted
(* A comparison with NULL is not true: lower(circuit_color) <> 'kids' alone   *)
(* would pass over every route that has no circuit.                           *)
NotKidsAlone(t) == shelf[t].circuit \notin {Unset, "kids"}
NotKids(t) == shelf[t].circuit = Unset \/ shelf[t].circuit # "kids"
Kids(t) == shelf[t].circuit = "kids"
Overdue(t) == shelf[t].strip = "due"
Counted(P(_)) == Cardinality({t \in Tags : shelf[t] # NoTag /\ P(t)})

LocationDashboardStats ==
    LET of(kind, kids(_)) == Counted(LAMBDA t : Hanging(t) /\ shelf[t].kind = kind /\ kids(t))
    IN  [activeRoutes |-> Counted(Hanging),
         dueForStrip  |-> Counted(LAMBDA t : Hanging(t) /\ Overdue(t)),
         setThisWeek  |-> Counted(LAMBDA t : Hanging(t) /\ shelf[t].age <= Week),
         setLastWeek  |-> Counted(LAMBDA t : Hanging(t) /\ shelf[t].age \in Week + 1 .. 2 * Week),
         kinds        |-> <<of("boulder", NotKids), of("boulder", Kids),
                            of("route", NotKids), of("route", Kids)>>,
         sends30d     |-> Cardinality({i \in DOMAIN climbs :
                              climbs[i].sent /\ climbs[i].age <= Month})]

(* The bucket a route is counted in: circuits go by their colour.             *)
Bucket(t) == <<shelf[t].system, shelf[t].kind,
               IF shelf[t].system = "circuit" THEN shelf[t].circuit ELSE Unset>>
GradeDistribution(status) ==
    LET of == {t \in Tags : shelf[t] # NoTag /\ shelf[t].status = status /\ ~shelf[t].deleted}
    IN  [b \in {Bucket(t) : t \in of} |-> Cardinality({t \in of : Bucket(t) = b})]
(* Mutant of RouteDistribution: deleted routes are still hanging.             *)
RouteDistributionAll ==
    LET of == {t \in Tags : shelf[t] # NoTag /\ shelf[t].status = "active"}
    IN  [b \in {Bucket(t) : t \in of} |-> Cardinality({t \in of : Bucket(t) = b})]
RouteDistribution ==
    LET of == {t \in Tags : shelf[t] # NoTag /\ Hanging(t)}
    IN  [b \in {Bucket(t) : t \in of} |-> Cardinality({t \in of : Bucket(t) = b})]

(* The rows of RouteLifecycle, oldest first: how many there are.              *)
RouteLifecycle == Min({LifecycleLimit, Counted(Hanging)})

OrgOverview ==
    [activeRoutes     |-> Counted(Hanging),
     overdueStrips    |-> Counted(LAMBDA t : Hanging(t) /\ Overdue(t)),
     activeClimbers30 |-> Cardinality({climbs[i].by : i \in
                              {j \in DOMAIN climbs : climbs[j].age <= Month}})]

(* ORDER BY ascent_count DESC with a LIMIT: as many of the climbed routes as   *)
(* fit, none of them with fewer ascents than one left out.  Which of those     *)
(* with the same count are listed is up to the database.                       *)
Trending(in) ==
    LET on(t)   == Cardinality({i \in in : climbs[i].of = t})
        climbed == {t \in Tags : on(t) > 0}
        tops    == {s \in SUBSET climbed :
                      /\ Cardinality(s) = Min({TrendingLimit, Cardinality(climbed)})
                      /\ \A t \in s, u \in climbed \ s : on(u) <= on(t)}
    IN  {[t \in s |-> on(t)] : s \in tops}
(* trending: the lists that may be answered.                                   *)
Engagement(days) ==
    LET in == {i \in DOMAIN climbs : climbs[i].age <= days}
    IN  [activeClimbers |-> Cardinality({climbs[i].by : i \in in}),
         totalAscents   |-> Cardinality(in),
         totalSends     |-> Cardinality({i \in in : climbs[i].sent}),
         trending       |-> Trending(in)]

RoutesSet(s, days) ==
    Counted(LAMBDA t : shelf[t].by = s /\ shelf[t].age <= days /\ ~shelf[t].deleted)
LogsOf(s, days) == {i \in DOMAIN laborLogs : laborLogs[i].by = s /\ laborLogs[i].age <= days}
HoursOf(s, days) ==
    SumFunctionOnSet([i \in DOMAIN laborLogs |-> laborLogs[i].hours], LogsOf(s, days))
Sets(s) == roster[s] \in {"setter", "head_setter"}
(* Mutant of SetterProductivity: routes and labor joined before they are      *)
(* counted, each row of one with each of the other.                           *)
SetterProductivityJoined(days) ==
    [s \in {p \in Staff : Sets(p)} |->
        [routesSet |-> RoutesSet(s, days) * Max({1, Cardinality(LogsOf(s, days))}),
         hours |-> HoursOf(s, days) * Max({1, RoutesSet(s, days)})]]
(* One row for a setter of the gym, each sum taken before they are joined.    *)
SetterProductivity(days) ==
    [s \in {p \in Staff : Sets(p)} |->
        [routesSet |-> RoutesSet(s, days), hours |-> HoursOf(s, days)]]

(* Mutant of Later: ties of climbed_at in any order.                          *)
LaterByDay(i, j) == climbs[i].age < climbs[j].age \/ (climbs[i].age = climbs[j].age /\ i < j)
(* ORDER BY climbed_at DESC, created_at DESC; the LIMIT takes those that      *)
(* fewer than so many come before.                                            *)
Later(i, j) == climbs[i].age < climbs[j].age \/ (climbs[i].age = climbs[j].age /\ i > j)
RecentActivity(limit) ==
    {i \in DOMAIN climbs : Cardinality({j \in DOMAIN climbs : Later(j, i)}) < limit}

-----------------------------------------------------------------------------
(* The rows change: a route is set, edited, archived, deleted.                *)
SetTag(t, row) ==
    /\ shelf[t] = NoTag
    /\ shelf' = [shelf EXCEPT ![t] = row]
    /\ UNCHANGED <<climbs, roster, laborLogs>>
ArchiveTag(t) ==
    /\ shelf[t] # NoTag /\ Hanging(t)
    /\ shelf' = [shelf EXCEPT ![t].status = "archived"]
    /\ UNCHANGED <<climbs, roster, laborLogs>>
TagDeleted(t) ==
    /\ shelf[t] # NoTag /\ ~shelf[t].deleted
    /\ shelf' = [shelf EXCEPT ![t].deleted = TRUE]
    /\ UNCHANGED <<climbs, roster, laborLogs>>
Climb(t, sent, age) ==
    /\ shelf[t] # NoTag /\ Hanging(t) /\ Len(climbs) < MaxClimbs
    /\ climbs' = Append(climbs, [by |-> Sender, of |-> t, sent |-> sent, age |-> age])
    /\ UNCHANGED <<shelf, roster, laborLogs>>
(* LaborHandler.Log takes hours from anyone who sets.                         *)
LaborLogged(s, age) ==
    /\ Sets(s) /\ Len(laborLogs) < MaxLogs
    /\ laborLogs' = Append(laborLogs, [by |-> s, age |-> age, hours |-> 2])
    /\ UNCHANGED <<shelf, climbs, roster>>
ChangeStaff(s, role) ==
    /\ roster[s] # role /\ roster' = [roster EXCEPT ![s] = role]
    /\ UNCHANGED <<shelf, climbs, laborLogs>>

FiguresInit == /\ shelf = [t \in Tags |-> NoTag]
               /\ climbs = <<>> /\ laborLogs = <<>>
               /\ roster = [s \in Staff |-> "setter"]
FiguresNext ==
    \/ \E t \in Tags :
          \/ \E row \in Entered : SetTag(t, row)
          \/ ArchiveTag(t) \/ TagDeleted(t)
          \/ \E sent \in BOOLEAN, age \in Ages : Climb(t, sent, age)
    \/ \E s \in Staff :
          \/ \E age \in Ages : LaborLogged(s, age)
          \/ \E role \in {Unset, "setter", "climber"} : ChangeStaff(s, role)
FiguresSpec == FiguresInit /\ [][FiguresNext]_figureVars

-----------------------------------------------------------------------------
Total(counts) == SumFunctionOnSet(counts, DOMAIN counts)
(* Every screen shows the same wall (analytics.go, RouteDistribution): the    *)
(* four kinds, the two distributions, the lifecycle list and the overview of  *)
(* the organisation add up to the dashboard's active routes; the trending     *)
(* routes have no more ascents than there are, and all of them when the list  *)
(* is shorter than its limit; no setter's routes or hours are counted twice;  *)
(* and what the feed leaves out is older than what it shows.                  *)
ReportsAgree ==
    LET d == LocationDashboardStats
        o == OrgOverview
    IN  /\ FiguresTypeOK
        /\ d.kinds[1] + d.kinds[2] + d.kinds[3] + d.kinds[4] = d.activeRoutes
        /\ Total(GradeDistribution("active")) = d.activeRoutes
        /\ RouteDistribution = GradeDistribution("active")
        /\ RouteLifecycle = Min({LifecycleLimit, d.activeRoutes})
        /\ o.activeRoutes = d.activeRoutes /\ o.overdueStrips = d.dueForStrip
        /\ d.setThisWeek + d.setLastWeek <= d.activeRoutes
        /\ Engagement(Month).totalSends = d.sends30d
        /\ Engagement(Month).activeClimbers = o.activeClimbers30
        /\ \A top \in Engagement(Month).trending :
              /\ Total(top) <= Engagement(Month).totalAscents
              /\ Cardinality(DOMAIN top) < TrendingLimit
                 => Total(top) = Engagement(Month).totalAscents
        /\ \A days \in {Week, Month} :
              LET p == SetterProductivity(days)
              IN  /\ Total([s \in DOMAIN p |-> p[s].routesSet])
                        <= Counted(LAMBDA t : ~shelf[t].deleted)
                  /\ Total([s \in DOMAIN p |-> p[s].hours]) <= 2 * Len(laborLogs)
        /\ \A n \in 1 .. 2 :
              /\ Cardinality(RecentActivity(n)) = Min({n, Len(climbs)})
              /\ \A i \in DOMAIN climbs \ RecentActivity(n), j \in RecentActivity(n) :
                    climbs[j].age < climbs[i].age \/ (climbs[j].age = climbs[i].age /\ j > i)
=============================================================================
