\* One behaviour is of one of six components, each at the bounds below.
SPECIFICATION ClimbingSpec
CONSTANTS
    \* WallRoutes
    Clients = {c1, c2, c3}
    Walls = {w1, w2}
    Routes = {r1, r2}
    NoWall = NoWall
    NoRoute = NoRoute
    \* RecordEdits
    Writers = {e1, e2}
    MaxWrites = 2
    \* Ascents
    Climbs = {v1, v2}
    Ticks = {t1, t2, t3}
    Climbable = {r1, r2}
    MaxClimbed = 3
    \* Ascents: ratings and votes
    Raters = {u1, u2, u3}
    Stars = {1, 3, 5}
    MaxOpinions = 5
    \* Analytics
    Tags = {t1, t2}
    Staff = {s1}
    Entered <- MCEntered
    Sender = "c1"
    Ages = {3, 10}
    MaxClimbs = 2
    MaxLogs = 1
    LifecycleLimit = 500
    TrendingLimit = 1
    \* Listings
    Members = {"me"}
    Me = "me"
    DefaultPage = 2
    PageCap = 2
    MaxMade = 4
    MaxListWrites = 1
INVARIANTS
    WallsHold
    FieldsSurvive
    TalliesHold
    ReportsAgree
    ListsAreTrue
\* Every component stops at its bound.
CHECK_DEADLOCK FALSE
