CONSTANTS
    w1 = w1
    r1 = r1
    r2 = r2
    Clients = {c1, c2}
    Sessions = {s1}
    Routes = {r1, r2}
    Walls = {w1}
    WallOf <- OneWall
    SetBefore = {r1, r2}
    NewStatuses = {"in_progress"}
    RouteStatuses = {"active", "archived"}
    NoSession = NoSession
    NoClient = NoClient

SPECIFICATION Spec

INVARIANTS
    RoutesAreInOrder
    FreshRoutesSurvive
    NoLockCycle

PROPERTY
    OnlyStaleEditsUndo

CHECK_DEADLOCK FALSE

SYMMETRY Alike
