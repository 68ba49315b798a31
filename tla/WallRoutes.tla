----------------------------- MODULE WallRoutes -----------------------------
(***************************************************************************)
(* Deleting a wall while routes are put on it                              *)
(* (internal/repository/wall.go, internal/repository/route.go).            *)
(*                                                                         *)
(* A wall row is locked FOR UPDATE by its deletion and FOR KEY SHARE by    *)
(* the creation of a route and by the foreign key of a moved one; the two  *)
(* modes exclude each other.                                               *)
(***************************************************************************)
CONSTANTS
    Clients,   \* requests in flight
    Walls,
    Routes,
    NoWall,
    NoRoute

ASSUME WallRoutesAssumption == NoWall \notin Walls /\ NoRoute \notin Routes

VARIABLES
    deleted,   \* walls with deleted_at
    route,     \* the routes: their wall and whether they are archived
    client,    \* the requests: what they do to which wall and route
    deleter,   \* who holds a wall FOR UPDATE, by wall
    sharers,   \* who holds a wall FOR KEY SHARE, by wall
    unguarded  \* history: routes moved or brought back to life, which takes
               \* no such lock

vars == <<deleted, route, client, deleter, sharers, unguarded>>

Idle == [pc |-> "idle", wall |-> NoWall, r |-> NoRoute]

At(c, p)    == client[c].pc = p
Exists(r)   == route[r].status # "absent"
OnWall(w)   == {r \in Routes : route[r].wall = w /\ Exists(r)}
Blocking(w) == {r \in OnWall(w) : route[r].status # "archived"}
Step(c, x)  == client' = [client EXCEPT ![c] = x]

Init ==
    /\ deleted = {}
    /\ route = [r \in Routes |-> [wall |-> NoWall, status |-> "absent"]]
    /\ client = [c \in Clients |-> Idle]
    /\ deleter = [w \in Walls |-> {}]
    /\ sharers = [w \in Walls |-> {}]
    /\ unguarded = {}

-----------------------------------------------------------------------------

\* Mutant of LockLiveWall: the query does not look at deleted_at.
LockAnyWall(c, w, r) ==
    /\ At(c, "idle")
    /\ ~Exists(r)
    /\ deleter[w] = {}
    /\ sharers' = [sharers EXCEPT ![w] = @ \cup {c}]
    /\ Step(c, [pc |-> "insert", wall |-> w, r |-> r])
    /\ UNCHANGED <<deleted, route, deleter, unguarded>>

\* lockLiveWall, for a new route.
LockLiveWall(c, w, r) ==
    /\ At(c, "idle")
    /\ ~Exists(r)
    /\ deleter[w] = {}
    /\ w \notin deleted
    /\ sharers' = [sharers EXCEPT ![w] = @ \cup {c}]
    /\ Step(c, [pc |-> "insert", wall |-> w, r |-> r])
    /\ UNCHANGED <<deleted, route, deleter, unguarded>>

\* The route is inserted and the transaction of Create commits.
InsertRoute(c) ==
    LET w == client[c].wall
        r == client[c].r
    IN  /\ At(c, "insert")
        /\ deleter[w] = {}
        /\ route' = [route EXCEPT ![r] =
                       IF Exists(r) THEN @
                       ELSE [wall |-> w, status |-> "live"]]
        /\ sharers' = [sharers EXCEPT ![w] = @ \ {c}]
        /\ Step(c, Idle)
        /\ UNCHANGED <<deleted, deleter, unguarded>>

\* RouteRepo.Update moves a route: its WHERE clause sees a live wall in the
\* statement's snapshot...
CheckMove(c, w, r) ==
    /\ At(c, "idle")
    /\ Exists(r)
    /\ route[r].wall = w \/ w \notin deleted
    /\ Step(c, [pc |-> "move", wall |-> w, r |-> r])
    /\ UNCHANGED <<deleted, route, deleter, sharers, unguarded>>

\* ... and the foreign key waits for the wall row, whose deleted_at it does
\* not look at.  Status is among the columns written.
FinishMove(c, st) ==
    LET w == client[c].wall
        r == client[c].r
    IN  /\ At(c, "move")
        /\ route[r].wall # w => deleter[w] = {}
        /\ route' = [route EXCEPT ![r] = [wall |-> w, status |-> st]]
        /\ unguarded' = IF route[r].wall # w \/ route[r].status = "archived"
                        THEN unguarded \cup {r} ELSE unguarded
        /\ Step(c, Idle)
        /\ UNCHANGED <<deleted, deleter, sharers>>

\* RouteRepo.UpdateStatus, or a strip.  (A draft that is deleted blocks the
\* wall as little as an archived route.)
ArchiveRoute(r) ==
    /\ Exists(r)
    /\ route' = [route EXCEPT ![r].status = "archived"]
    /\ UNCHANGED <<deleted, client, deleter, sharers, unguarded>>

\* RouteRepo.UpdateStatus the other way: the wall is not looked at.
ReviveRoute(r) ==
    /\ route[r].status = "archived"
    /\ route' = [route EXCEPT ![r].status = "live"]
    /\ unguarded' = unguarded \cup {r}
    /\ UNCHANGED <<deleted, client, deleter, sharers>>

-----------------------------------------------------------------------------

\* Mutant of LockWall: FOR NO KEY UPDATE, which lets key shares pass.
LockWallWeakly(c, w) ==
    /\ At(c, "idle")
    /\ deleter[w] = {}
    /\ w \notin deleted
    /\ deleter' = [deleter EXCEPT ![w] = {c}]
    /\ Step(c, [pc |-> "count", wall |-> w, r |-> NoRoute])
    /\ UNCHANGED <<deleted, route, sharers, unguarded>>

\* WallRepo.Delete locks the wall...
LockWall(c, w) ==
    /\ At(c, "idle")
    /\ deleter[w] = {} /\ sharers[w] = {}
    /\ w \notin deleted
    /\ deleter' = [deleter EXCEPT ![w] = {c}]
    /\ Step(c, [pc |-> "count", wall |-> w, r |-> NoRoute])
    /\ UNCHANGED <<deleted, route, sharers, unguarded>>

Unlock(c, w) ==
    /\ deleter' = [deleter EXCEPT ![w] = @ \ {c}]
    /\ Step(c, Idle)

\* ... counts the routes that are not archived and refuses if there are any...
CountRoutes(c) ==
    LET w == client[c].wall
    IN  /\ At(c, "count")
        /\ IF Blocking(w) = {}
           THEN /\ Step(c, [pc |-> "delete", wall |-> w, r |-> NoRoute])
                /\ UNCHANGED deleter
           ELSE Unlock(c, w)
        /\ UNCHANGED <<deleted, route, sharers, unguarded>>

\* ... or else stamps deleted_at and commits.
SoftDelete(c) ==
    LET w == client[c].wall
    IN  /\ At(c, "delete")
        /\ deleted' = deleted \cup {w}
        /\ Unlock(c, w)
        /\ UNCHANGED <<route, sharers, unguarded>>

\* A statement fails or the instance dies: the transaction is rolled back.
Abort(c) ==
    LET w == client[c].wall
    IN  /\ ~At(c, "idle")
        /\ Unlock(c, w)
        /\ sharers' = [sharers EXCEPT ![w] = @ \ {c}]
        /\ UNCHANGED <<deleted, route, unguarded>>

-----------------------------------------------------------------------------

Next ==
    \/ \E c \in Clients :
          \/ \E w \in Walls :
                \/ LockWall(c, w)
                \/ \E r \in Routes : LockLiveWall(c, w, r) \/ CheckMove(c, w, r)
          \/ InsertRoute(c)
          \/ \E st \in {"live", "archived"} : FinishMove(c, st)
          \/ CountRoutes(c)
          \/ SoftDelete(c)
          \/ Abort(c)
    \/ \E r \in Routes : ArchiveRoute(r) \/ ReviveRoute(r)

Spec == Init /\ [][Next]_vars

-----------------------------------------------------------------------------

RouteStatus == {"absent", "live", "archived"}

TypeOK ==
    /\ deleted \subseteq Walls
    /\ route \in [Routes -> [wall : Walls \cup {NoWall}, status : RouteStatus]]
    /\ \A r \in Routes : Exists(r) <=> route[r].wall # NoWall
    /\ client \in [Clients -> [pc : {"idle", "insert", "move", "count",
                                     "delete"},
                               wall : Walls \cup {NoWall},
                               r : Routes \cup {NoRoute}]]
    /\ deleter \in [Walls -> SUBSET Clients]
    /\ sharers \in [Walls -> SUBSET Clients]
    /\ unguarded \subseteq Routes

\* One request at most deletes a wall, and while it does, none puts a route on
\* it; every lock belongs to the request that is at work on that wall, so none
\* outlives its transaction (lockLiveWall, WallRepo.Delete).
LocksHeld ==
    /\ \A w \in Walls : /\ deleter[w] = {} \/ sharers[w] = {}
                        /\ \A c, d \in deleter[w] : c = d
    /\ \A c \in Clients, w \in Walls :
          /\ c \in deleter[w] <=> /\ client[c].pc \in {"count", "delete"}
                                 /\ client[c].wall = w
          /\ c \in sharers[w] <=> /\ client[c].pc = "insert"
                                 /\ client[c].wall = w

\* The lock protocol of lockLiveWall and WallRepo.Delete leaves no route in use
\* on a deleted wall, unless the route came there by a move or came back to
\* life, which bypass it.
NoRouteLeftBehind == \A w \in deleted : Blocking(w) \subseteq unguarded

\* What Delete's guard is for: a route on a deleted wall would "stay live in
\* every route list while pointing at a wall no query can see"
\* (wall.go:226-228).
NoRouteOnDeletedWall == \A w \in deleted : Blocking(w) = {}

=============================================================================
