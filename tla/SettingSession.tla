--------------------------- MODULE SettingSession ---------------------------
(***************************************************************************)
(* Setting sessions and the routes they put up:                            *)
(* internal/repository/session.go (PublishSession, Delete, strip targets,  *)
(* draft routes), repository/route.go and their handlers.                  *)
(*                                                                         *)
(* Publishing and deleting are transactions of several UPDATEs.  They run  *)
(* at READ COMMITTED: a statement picks the rows that match when it        *)
(* starts, locks them one by one, waits for a row another transaction      *)
(* holds, and looks at the row again once it has it.  A locked row has a   *)
(* pending version that others see only after the commit.                  *)
(***************************************************************************)
EXTENDS Integers, FiniteSets

CONSTANTS
    Clients,       \* requests in flight
    Sessions,
    Routes,
    Walls,
    WallOf,        \* the wall of each route
    SetBefore,     \* routes that may be up at first and belong to no session
    NewStatuses,   \* what UpdateStatus of a session is asked for
    RouteStatuses, \* what UpdateStatus of a route is asked for
    NoSession,
    NoClient

ASSUME SettingSessionAssumption ==
    /\ WallOf \in [Routes -> Walls]
    /\ SetBefore \subseteq Routes
    /\ NewStatuses \subseteq {"planning", "in_progress", "complete",
                              "cancelled"}
    /\ RouteStatuses \subseteq {"active", "flagged", "archived"}
    /\ NoSession \notin Sessions
    /\ NoClient \notin Clients
    /\ Walls \cap Routes = {}

VARIABLES
    session,      \* status of each setting_sessions row, or "gone"
    sessionLock,  \* who holds the row FOR UPDATE
    target,       \* session_strip_targets: whole walls and single routes
    route,        \* the committed routes
    pending,      \* the uncommitted version of a locked route
    lock,         \* who holds the row of a route
    client,       \* the requests
    fresh,        \* history: the session that published the route
    caught,       \* history: routes taken down by a wall strip of their session
    reopened,     \* history: complete sessions that UpdateStatus changed
    stale         \* history: routes an edit wrote back that had changed since

vars == <<session, sessionLock, target, route, pending, lock, client, fresh,
          caught, reopened, stale>>

Idle == [pc |-> "idle", s |-> NoSession, todo |-> {}, r |-> "none",
         seen |-> "none", dated |-> "no", swept |-> {}]

At(c, p) == client[c].pc = p
Live(s)  == session[s] # "gone"
Up(r)    == route[r].status \notin {"absent", "deleted"}

\* A row as client c sees it.
View(c, r) == IF lock[r] = c THEN pending[r] ELSE route[r]

\* A strip target refers to the row (foreign key).
Targeted(r) == \E s \in Sessions : r \in target[s]

Archived(x) == [x EXCEPT !.status = "archived", !.dated = "yes"]

\* Mutant of Stripped: the date is forgotten.
StrippedUndated(x) == [x EXCEPT !.status = "archived"]

\* date_stripped = COALESCE(date_stripped, CURRENT_DATE).
Stripped(x) == Archived(x)

-----------------------------------------------------------------------------

Init ==
    /\ session = [s \in Sessions |-> "planning"]
    /\ sessionLock = [s \in Sessions |-> NoClient]
    /\ target = [s \in Sessions |-> {}]
    /\ \E up \in SUBSET SetBefore :
          route = [r \in Routes |->
                     [status |-> IF r \in up THEN "active" ELSE "absent",
                      session |-> NoSession, dated |-> "no"]]
    /\ pending = route
    /\ lock = [r \in Routes |-> NoClient]
    /\ client = [c \in Clients |-> Idle]
    /\ fresh = [r \in Routes |-> NoSession]
    /\ caught = {}
    /\ reopened = {}
    /\ stale = {}

-----------------------------------------------------------------------------
(* The statements of the two transactions. *)

\* The WHERE clause of the statement a client is at, evaluated on a row x.
Matches(p, s, r, x) ==
    CASE p = "strip walls"  -> x.status = "active" /\ WallOf[r] \in target[s]
      [] p = "strip routes" -> /\ x.status \notin {"absent", "deleted",
                                                   "archived"}
                               /\ r \in target[s]
      [] p \in {"activate", "drop"} -> x.status = "draft" /\ x.session = s
      [] p = "unlink" -> x.status \notin {"absent", "deleted"} /\ x.session = s
      [] OTHER -> FALSE

\* The SET clause.
Changed(p, x) ==
    CASE p \in {"strip walls", "strip routes"} -> Stripped(x)
      [] p = "activate" -> [x EXCEPT !.status = "active"]
      [] p = "drop"     -> [x EXCEPT !.status = "deleted",
                                     !.session = NoSession]
      [] p = "unlink"   -> [x EXCEPT !.session = NoSession]

\* Mutant of Following: the drafts are activated before the walls are stripped
\* and unlinked before they are dropped.
FollowingReordered(p) ==
    CASE p = "lock publish" -> "activate"
      [] p = "activate"     -> "strip walls"
      [] p = "strip walls"  -> "strip routes"
      [] p = "strip routes" -> "complete"
      [] p = "lock delete"  -> "unlink"
      [] p = "unlink"       -> "drop"
      [] p = "drop"         -> "remove"

\* The order of the statements in PublishSession and in Delete.
Following(p) ==
    CASE p = "lock publish" -> "strip walls"
      [] p = "strip walls"  -> "strip routes"
      [] p = "strip routes" -> "activate"
      [] p = "activate"     -> "complete"
      [] p = "lock delete"  -> "drop"
      [] p = "drop"         -> "unlink"
      [] p = "unlink"       -> "remove"

Statements == {"strip walls", "strip routes", "activate", "drop", "unlink"}

\* The client starts the statement after p.
Start(c, s, p) ==
    client' = [client EXCEPT ![c] =
                 [client[c] EXCEPT !.pc = Following(p), !.s = s,
                                   !.todo = {r \in Routes :
                                     Matches(Following(p), s, r, View(c, r))}]]

\* Mutant of MayPublish: no status guard.
MayRepublish(s) == Live(s)

\* PublishSession's guard against the double submit.
MayPublish(s) == Live(s) /\ session[s] # "complete"

\* PublishSession locks the session and reads its status.
LockForPublish(c, s) ==
    /\ At(c, "idle")
    /\ sessionLock[s] = NoClient
    /\ MayPublish(s)
    /\ sessionLock' = [sessionLock EXCEPT ![s] = c]
    /\ Start(c, s, "lock publish")
    /\ UNCHANGED <<session, target, route, pending, lock, fresh, caught,
                   reopened, stale>>

\* Mutant of LockForDelete: the drafts are deleted before anything is locked.
DeleteUnlocked(c, s) ==
    /\ At(c, "idle")
    /\ Live(s)
    /\ Start(c, s, "lock delete")
    /\ UNCHANGED <<session, sessionLock, target, route, pending, lock, fresh,
                   caught, reopened, stale>>

\* Delete locks the session row first.
LockForDelete(c, s) ==
    /\ At(c, "idle")
    /\ sessionLock[s] = NoClient
    /\ Live(s)
    /\ sessionLock' = [sessionLock EXCEPT ![s] = c]
    /\ Start(c, s, "lock delete")
    /\ UNCHANGED <<session, target, route, pending, lock, fresh, caught,
                   reopened, stale>>

\* The statement gets hold of its next row and changes it if it still matches.
LockRow(c, r) ==
    LET p == client[c].pc
        x == View(c, r)
        m == Matches(p, client[c].s, r, x)
    IN  /\ p \in Statements
        /\ r \in client[c].todo
        /\ lock[r] \in {c, NoClient}
        /\ p = "drop" => ~Targeted(r)
        /\ lock' = [lock EXCEPT ![r] = IF m THEN c ELSE @]
        /\ pending' = [pending EXCEPT ![r] = IF m THEN Changed(p, x) ELSE @]
        /\ client' = [client EXCEPT ![c].todo = @ \ {r},
                                    ![c].swept = IF m /\ p = "strip walls"
                                                 THEN @ \cup {r} ELSE @]
        /\ UNCHANGED <<session, sessionLock, target, route, fresh, caught,
                       reopened, stale>>

NextStatement(c) ==
    /\ client[c].pc \in Statements
    /\ client[c].todo = {}
    /\ Start(c, client[c].s, client[c].pc)
    /\ UNCHANGED <<session, sessionLock, target, route, pending, lock, fresh,
                   caught, reopened, stale>>

Held(c)  == {r \in Routes : lock[r] = c}

\* Mutant of Release: the pending versions outlive the transaction.
ReleaseKeepsPending(c, committed) ==
    /\ route' = committed
    /\ lock' = [r \in Routes |-> IF lock[r] = c THEN NoClient ELSE lock[r]]
    /\ sessionLock' = [s \in Sessions |->
                         IF sessionLock[s] = c THEN NoClient
                         ELSE sessionLock[s]]
    /\ client' = [client EXCEPT ![c] = Idle]
    /\ UNCHANGED pending

\* The end of a transaction: its rows are the committed ones, its locks free.
Release(c, committed) ==
    /\ route' = committed
    /\ pending' = [r \in Routes |-> IF lock[r] = c THEN committed[r]
                                    ELSE pending[r]]
    /\ lock' = [r \in Routes |-> IF lock[r] = c THEN NoClient ELSE lock[r]]
    /\ sessionLock' = [s \in Sessions |->
                         IF sessionLock[s] = c THEN NoClient
                         ELSE sessionLock[s]]
    /\ client' = [client EXCEPT ![c] = Idle]

\* What the transaction makes of the routes.
Outcome(c) == [r \in Routes |-> View(c, r)]

\* The session becomes complete and PublishSession commits.
CommitPublish(c) ==
    LET s == client[c].s
        own  == {r \in Routes : \/ fresh[r] = s
                                \/ /\ route[r].status = "draft"
                                   /\ route[r].session = s}
    IN  /\ At(c, "complete")
        /\ sessionLock[s] \in {c, NoClient}
        /\ Release(c, Outcome(c))
        /\ session' = [session EXCEPT ![s] = "complete"]
        /\ fresh' = [r \in Routes |->
                       IF r \in Held(c) /\ pending[r].status = "active"
                       THEN s ELSE fresh[r]]
        /\ caught' = caught \cup (client[c].swept \cap own)
        /\ UNCHANGED <<target, reopened, stale>>

\* Delete removes the session, with its targets, and commits.
CommitDelete(c) ==
    LET s == client[c].s
    IN  /\ At(c, "remove")
        /\ sessionLock[s] \in {c, NoClient}
        /\ Release(c, Outcome(c))
        /\ session' = [session EXCEPT ![s] = "gone"]
        /\ target' = [target EXCEPT ![s] = {}]
        /\ UNCHANGED <<fresh, caught, reopened, stale>>

\* A statement fails, the deadline passes, the instance dies, or the database
\* breaks a cycle of waiting transactions: everything is rolled back.
Abort(c) ==
    /\ client[c].pc \in Statements \cup {"complete", "remove"}
    /\ Release(c, route)
    /\ UNCHANGED <<session, target, fresh, caught, reopened, stale>>

-----------------------------------------------------------------------------
(* Requests of two steps that lock nothing in between. *)

\* AddRoute sees that the session is not complete...
CheckOpen(c, s) ==
    /\ At(c, "idle")
    /\ Live(s) /\ session[s] # "complete"
    /\ client' = [client EXCEPT ![c] = [Idle EXCEPT !.pc = "add", !.s = s]]
    /\ UNCHANGED <<session, sessionLock, target, route, pending, lock, fresh,
                   caught, reopened, stale>>

\* ... and inserts the draft, which waits for the session row (foreign key).
InsertDraft(c, r) ==
    LET s == client[c].s
        x == [status |-> "draft", session |-> s, dated |-> "no"]
    IN  /\ At(c, "add")
        /\ sessionLock[s] = NoClient
        /\ route[r].status = "absent"
        /\ IF Live(s)
           THEN /\ route' = [route EXCEPT ![r] = x]
                /\ pending' = [pending EXCEPT ![r] = x]
           ELSE UNCHANGED <<route, pending>>
        /\ client' = [client EXCEPT ![c] = Idle]
        /\ UNCHANGED <<session, sessionLock, target, lock, fresh, caught,
                       reopened, stale>>

\* EditRoute reads a draft (GetSessionDraftRoute), RouteHandler.Update any
\* route...
ReadForEdit(c, r) ==
    /\ At(c, "idle")
    /\ Up(r)
    /\ client' = [client EXCEPT ![c] =
                    [Idle EXCEPT !.pc = "edit", !.r = r,
                                 !.seen = route[r].status,
                                 !.dated = route[r].dated]]
    /\ UNCHANGED <<session, sessionLock, target, route, pending, lock, fresh,
                   caught, reopened, stale>>

\* The route as the editor loaded it, with the fields of the form replaced:
\* its status and date are those it was loaded with.
WrittenBack(c, x) == [x EXCEPT !.status = client[c].seen, !.dated = client[c].dated]

\* ... and RouteRepo.Update writes every column back, status and date too.
WriteBack(c) ==
    LET r == client[c].r
        x == IF Up(r) THEN WrittenBack(c, route[r]) ELSE route[r]
    IN  /\ At(c, "edit")
        /\ lock[r] = NoClient
        /\ route' = [route EXCEPT ![r] = x]
        /\ pending' = [pending EXCEPT ![r] = x]
        /\ client' = [client EXCEPT ![c] = Idle]
        /\ stale' = IF x # route[r] THEN stale \cup {r} ELSE stale
        /\ UNCHANGED <<session, sessionLock, target, lock, fresh, caught,
                       reopened>>

-----------------------------------------------------------------------------
(* Single statements. *)

SetRoute(r, x) ==
    /\ lock[r] = NoClient
    /\ route' = [route EXCEPT ![r] = x]
    /\ pending' = [pending EXCEPT ![r] = x]
    /\ UNCHANGED <<session, sessionLock, target, lock, client, fresh, caught,
                   reopened, stale>>

\* Mutant of SetRouteStatus: a route that is put back up loses its date.
SetRouteStatusUndated(r, st) ==
    /\ Up(r)
    /\ SetRoute(r, IF st = "archived" THEN Stripped(route[r])
                   ELSE [route[r] EXCEPT !.status = st, !.dated = "no"])

\* RouteRepo.UpdateStatus.
SetRouteStatus(r, st) ==
    /\ Up(r)
    /\ SetRoute(r, IF st = "archived" THEN Stripped(route[r])
                   ELSE [route[r] EXCEPT !.status = st])

DeleteSessionRoute(r) ==
    /\ route[r].status = "draft" /\ route[r].session # NoSession
    /\ ~Targeted(r)
    /\ SetRoute(r, [route[r] EXCEPT !.status = "deleted",
                                    !.session = NoSession])

\* SessionRepo.UpdateStatus: from any status to any other.
SetSessionStatus(s, st) ==
    /\ Live(s) /\ sessionLock[s] = NoClient
    /\ session[s] # st
    /\ session' = [session EXCEPT ![s] = st]
    /\ reopened' = IF session[s] = "complete" THEN reopened \cup {s}
                   ELSE reopened
    /\ UNCHANGED <<sessionLock, target, route, pending, lock, client, fresh,
                   caught, stale>>

\* AddStripTarget; the insert waits for the session row (foreign key).
AddStripTarget(s, t) ==
    /\ Live(s) /\ sessionLock[s] = NoClient
    /\ t \in Routes => Up(t)
    /\ target' = [target EXCEPT ![s] = @ \cup {t}]
    /\ UNCHANGED <<session, sessionLock, route, pending, lock, client, fresh,
                   caught, reopened, stale>>

RemoveStripTarget(s, t) ==
    /\ t \in target[s]
    /\ target' = [target EXCEPT ![s] = @ \ {t}]
    /\ UNCHANGED <<session, sessionLock, route, pending, lock, client, fresh,
                   caught, reopened, stale>>

-----------------------------------------------------------------------------

Next ==
    \/ \E c \in Clients :
          \/ \E s \in Sessions : \/ LockForPublish(c, s)
                                 \/ LockForDelete(c, s)
                                 \/ CheckOpen(c, s)
          \/ \E r \in Routes : \/ LockRow(c, r)
                               \/ InsertDraft(c, r)
                               \/ ReadForEdit(c, r)
          \/ NextStatement(c)
          \/ CommitPublish(c)
          \/ CommitDelete(c)
          \/ Abort(c)
          \/ WriteBack(c)
    \/ \E r \in Routes : \/ \E st \in RouteStatuses : SetRouteStatus(r, st)
                         \/ DeleteSessionRoute(r)
    \/ \E s \in Sessions :
          \/ \E st \in NewStatuses : SetSessionStatus(s, st)
          \/ \E t \in Walls \cup Routes : \/ AddStripTarget(s, t)
                                          \/ RemoveStripTarget(s, t)

Spec == Init /\ [][Next]_vars

-----------------------------------------------------------------------------

Row == [status : {"absent", "draft", "active", "flagged", "archived",
                  "deleted"},
        session : Sessions \cup {NoSession}, dated : {"yes", "no"}]

TypeOK ==
    /\ session \in [Sessions -> {"planning", "in_progress", "complete",
                                 "cancelled", "gone"}]
    /\ sessionLock \in [Sessions -> Clients \cup {NoClient}]
    /\ target \in [Sessions -> SUBSET (Walls \cup Routes)]
    /\ route \in [Routes -> Row]
    /\ pending \in [Routes -> Row]
    /\ \A r \in Routes : lock[r] = NoClient => pending[r] = route[r]
    /\ lock \in [Routes -> Clients \cup {NoClient}]
    /\ \A c \in Clients : client[c].todo \subseteq Routes
    /\ fresh \in [Routes -> Sessions \cup {NoSession}]
    /\ caught \subseteq Routes
    /\ reopened \subseteq Sessions
    /\ stale \subseteq Routes

\* A route that a session put up is not taken down by a wall strip of that
\* same session, however often and from however many tabs it is published,
\* and whatever fails in between, unless the session was reopened
\* (PublishSession's lock, guard and order).
FreshRoutesSurvive == \A r \in caught : fresh[r] \in reopened

\* An archived route has its strip date, on every path that archives, races
\* with edits included (COALESCE in the three archiving statements).
ArchivedIsDated ==
    \A r \in Routes : route[r].status = "archived" => route[r].dated = "yes"

\* A draft always belongs to a session that exists: deleting a session takes
\* its drafts with it, also those that are added meanwhile (Delete).  Only an
\* edit that writes back what it loaded long before can break this.
DraftsHaveSession ==
    \A r \in Routes \ stale : route[r].status = "draft" =>
        route[r].session # NoSession /\ Live(route[r].session)

\* What a session leaves behind is in order: its drafts have it, its archived
\* routes have a date.
RoutesAreInOrder == TypeOK /\ ArchivedIsDated /\ DraftsHaveSession

\* No publish, delete, strip or change of status turns a published route into
\* a draft again or loses the date of its first strip (the WHERE clauses and
\* the COALESCE of route.go and session.go); only such a stale edit does.
OnlyStaleEditsUndo ==
    [][\A r \in Routes \ stale' :
          /\ route[r].status = "active" => route'[r].status # "draft"
          /\ route[r].dated = "yes" => route'[r].dated = "yes"]_vars

\* A client waits for the rows its statement still has to change: routes, and
\* at the end of its transaction the row of the session.
WaitsFor(c, d) ==
    \/ \E r \in client[c].todo : lock[r] = d
    \/ client[c].pc \in {"complete", "remove"} /\ sessionLock[client[c].s] = d

\* Two transactions on the same session, publishes or deletes, never wait for
\* each other, neither for routes nor for the row of the session: none has
\* locked a route before it holds that row (the AB-BA deadlock that Delete's
\* comment describes; transactions of different sessions are not compared).
\* Who waits for the session to begin with holds nothing yet.
NoLockCycle ==
    \A c, d \in Clients :
        c # d /\ client[c].s = client[d].s => ~(WaitsFor(c, d) /\ WaitsFor(d, c))

=============================================================================
