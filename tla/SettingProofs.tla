----------------------------- MODULE SettingProofs -----------------------------
(***************************************************************************)
(* Setting: sessions for any number of requests, sessions, routes and      *)
(* walls (SettingSession), and the components around them that the run     *)
(* `setting` looks at (MCSetting): row sets, the playbook, plans, photos,  *)
(* card batches and card sheets.                                           *)
(***************************************************************************)
EXTENDS SettingSession, MCSetting, FiniteSetTheorems, TLAPS

-----------------------------------------------------------------------------
(* SettingSession: rows, locks and transactions.                            *)


InTransaction == Statements \cup {"complete", "remove"}

Request == [pc : {"idle", "add", "edit"} \cup InTransaction,
            s : Sessions \cup {NoSession}, todo : SUBSET Routes,
            r : Routes \cup {"none"},
            seen : {"none", "absent", "draft", "active", "flagged", "archived",
                    "deleted"},
            dated : {"yes", "no"}, swept : SUBSET Routes]

\* The form of an edit shows a route.
Loaded(q) == q.r \in Routes /\ q.seen # "none"

Rows == /\ route \in [Routes -> Row] /\ pending \in [Routes -> Row]
        /\ client \in [Clients -> Request]
        /\ \A c \in Clients : client[c].pc = "edit" => Loaded(client[c])

\* A transaction holds the row of its session from its first statement on, and
\* only a transaction has rows to wait for.
SessionHeld ==
    /\ sessionLock \in [Sessions -> Clients \cup {NoClient}]
    /\ \A c \in Clients :
          /\ client[c].pc \in InTransaction
             => client[c].s \in Sessions /\ sessionLock[client[c].s] = c
          /\ client[c].todo # {} => client[c].pc \in InTransaction

Dated(x) == x.status = "archived" => x.dated = "yes"

\* Every version of a route is dated: committed, pending, or loaded into a form.
AllDated ==
    /\ \A r \in Routes : Dated(route[r]) /\ Dated(pending[r])
    /\ \A c \in Clients : client[c].seen = "archived" => client[c].dated = "yes"

SessionInv == Rows /\ SessionHeld /\ AllDated

\* A request that is free is well formed.
LEMMA IdleRequest == Idle \in Request /\ Idle.pc = "idle" /\ Idle.todo = {}
                     /\ Idle.seen = "none"
  BY DEF Idle, Request

\* The invariant at the start.
LEMMA SessionInvInit == Init => SessionInv
<1> SUFFICES ASSUME Init
             PROVE  SessionInv
  OBVIOUS
<1>0. PICK up \in SUBSET SetBefore :
         route = [r \in Routes |->
                    [status |-> IF r \in up THEN "active" ELSE "absent",
                     session |-> NoSession, dated |-> "no"]]
  BY DEF Init
<1>1. \A r \in Routes : route[r] \in Row /\ route[r].status # "archived"
  BY <1>0 DEF Row
<1>2. route \in [Routes -> Row] /\ pending = route
  BY <1>0, <1>1 DEF Init
<1>3. \A c \in Clients : client[c] = Idle
  BY DEF Init
<1>4. client \in [Clients -> Request]
  BY IdleRequest DEF Init
<1>5. QED
  BY <1>1, <1>2, <1>3, <1>4, IdleRequest, SettingSessionAssumption
     DEF Init, SessionInv, Rows, SessionHeld, AllDated, Dated, InTransaction,
         Statements

\* The next statement of a transaction is one of its own session.
LEMMA StartStep ==
    ASSUME SessionInv, NEW c \in Clients, NEW s \in Sessions, NEW p, Start(c, s, p),
           p \in Statements \cup {"lock publish", "lock delete"},
           UNCHANGED <<route, pending>>,
           sessionLock' \in [Sessions -> Clients \cup {NoClient}],
           sessionLock'[s] = c,
           \A t \in Sessions : sessionLock[t] \in Clients
                               => sessionLock'[t] = sessionLock[t]
    PROVE  SessionInv'
<1>1. PICK next \in InTransaction : next = Following(p)
  BY DEF Following, InTransaction, Statements
<1>2. PICK mine \in SUBSET Routes :
         mine = {r \in Routes : Matches(Following(p), s, r, View(c, r))}
  OBVIOUS
<1>3. client' = [client EXCEPT ![c] =
                   [client[c] EXCEPT !.pc = next, !.s = s, !.todo = mine]]
  BY <1>1, <1>2 DEF Start
<1>4. client[c] \in Request
  BY DEF SessionInv, Rows
<1>5. PICK q \in Request : /\ q = [client[c] EXCEPT !.pc = next, !.s = s, !.todo = mine]
                           /\ q.pc = next /\ q.s = s /\ q.todo = mine
                           /\ q.seen = client[c].seen /\ q.dated = client[c].dated
  <2> DEFINE q == [client[c] EXCEPT !.pc = next, !.s = s, !.todo = mine]
  <2>1. /\ q \in Request /\ q.pc = next /\ q.s = s /\ q.todo = mine
        /\ q.seen = client[c].seen /\ q.dated = client[c].dated
    BY <1>4 DEF Request
  <2>2. QED
    BY <2>1
<1>6. client' = [client EXCEPT ![c] = q]
  BY <1>3, <1>5
<1>7. q.pc # "edit"
  BY <1>5 DEF InTransaction, Statements
<1>8. Rows'
  BY <1>6, <1>7 DEF SessionInv, Rows
<1>9. SessionHeld'
  <2>1. client'[c] = q /\ \A d \in Clients \ {c} : client'[d] = client[d]
    BY <1>6 DEF SessionInv, Rows
  <2>2. ASSUME NEW d \in Clients \ {c}
        PROVE  /\ client'[d].pc \in InTransaction
                  => client'[d].s \in Sessions /\ sessionLock'[client'[d].s] = d
               /\ client'[d].todo # {} => client'[d].pc \in InTransaction
    <3>1. client'[d] = client[d]
      BY <2>1
    <3>2. /\ client[d].pc \in InTransaction
             => client[d].s \in Sessions /\ sessionLock[client[d].s] = d
          /\ client[d].todo # {} => client[d].pc \in InTransaction
      BY DEF SessionInv, SessionHeld
    <3>3. client[d].pc \in InTransaction => sessionLock'[client[d].s] = d
      BY <3>2
    <3>4. QED
      BY <3>1, <3>2, <3>3
  <2>3. client'[c].pc \in InTransaction /\ client'[c].s = s /\ sessionLock'[s] = c
    BY <1>5, <2>1
  <2>4. QED
    BY <2>2, <2>3 DEF SessionHeld
<1>10. AllDated'
  BY <1>5, <1>6 DEF SessionInv, AllDated, Dated, Rows
<1>11. QED
  BY <1>8, <1>9, <1>10 DEF SessionInv

\* A request that is in no transaction goes from one step to the next.
LEMMA PlainStep ==
    ASSUME SessionInv, NEW c \in Clients, NEW q \in Request,
           client' = [client EXCEPT ![c] = q], q.todo = {},
           q.pc \notin InTransaction, q.pc = "edit" => Loaded(q),
           q.seen = "archived" => q.dated = "yes",
           UNCHANGED sessionLock,
           route' \in [Routes -> Row], pending' \in [Routes -> Row],
           \A r \in Routes : Dated(route'[r]) /\ Dated(pending'[r])
    PROVE  SessionInv'
<1>1. Rows'
  BY DEF SessionInv, Rows
<1>2. SessionHeld'
  BY DEF SessionInv, SessionHeld, Rows
<1>3. AllDated'
  BY DEF SessionInv, AllDated, Dated, Rows
<1>4. QED
  BY <1>1, <1>2, <1>3 DEF SessionInv

\* The end of a transaction frees its locks and nobody else's.
LEMMA ReleaseStep ==
    ASSUME SessionInv, NEW c \in Clients, NEW committed \in [Routes -> Row],
           Release(c, committed), \A r \in Routes : Dated(committed[r])
    PROVE  SessionInv'
<1>1. /\ route' = committed /\ client' = [client EXCEPT ![c] = Idle]
      /\ pending' = [r \in Routes |-> IF lock[r] = c THEN committed[r] ELSE pending[r]]
      /\ sessionLock' = [s \in Sessions |-> IF sessionLock[s] = c THEN NoClient
                                            ELSE sessionLock[s]]
  BY DEF Release
<1>2. Rows'
  BY <1>1, IdleRequest DEF SessionInv, Rows
<1>3. SessionHeld'
  <2>1. sessionLock' \in [Sessions -> Clients \cup {NoClient}]
    BY <1>1 DEF SessionInv, SessionHeld
  <2>2. ASSUME NEW d \in Clients \ {c}
        PROVE  /\ client'[d].pc \in InTransaction
                  => client'[d].s \in Sessions /\ sessionLock'[client'[d].s] = d
               /\ client'[d].todo # {} => client'[d].pc \in InTransaction
    BY <1>1 DEF SessionInv, SessionHeld, Rows
  <2>3. client'[c].pc \notin InTransaction /\ client'[c].todo = {}
    BY <1>1, IdleRequest DEF SessionInv, Rows, InTransaction, Statements
  <2>4. QED
    BY <2>1, <2>2, <2>3 DEF SessionHeld
<1>4. AllDated'
  BY <1>1, IdleRequest DEF SessionInv, AllDated, Dated, Rows
<1>5. QED
  BY <1>2, <1>3, <1>4 DEF SessionInv

\* A single statement changes a route nobody has locked.
LEMMA RouteStep ==
    ASSUME SessionInv, NEW r \in Routes, NEW x \in Row, Dated(x), SetRoute(r, x)
    PROVE  SessionInv'
<1>1. /\ route' = [route EXCEPT ![r] = x] /\ pending' = [pending EXCEPT ![r] = x]
      /\ UNCHANGED <<client, sessionLock>>
  BY DEF SetRoute
<1>2. Rows' /\ SessionHeld'
  BY <1>1 DEF SessionInv, Rows, SessionHeld
<1>3. AllDated'
  BY <1>1 DEF SessionInv, AllDated, Dated, Rows
<1>4. QED
  BY <1>2, <1>3 DEF SessionInv

\* What a statement of a transaction makes of a row is dated.
LEMMA ChangedRow ==
    ASSUME NEW p \in Statements, NEW x \in Row, Dated(x)
    PROVE  Changed(p, x) \in Row /\ Dated(Changed(p, x))
<1>1. CASE p \in {"strip walls", "strip routes"}
  BY <1>1 DEF Changed, Stripped, Archived, Row, Dated
<1>2. CASE p = "activate"
  BY <1>2 DEF Changed, Row, Dated
<1>3. CASE p = "drop"
  BY <1>3 DEF Changed, Row, Dated
<1>4. CASE p = "unlink"
  BY <1>4 DEF Changed, Row, Dated
<1>5. QED
  BY <1>1, <1>2, <1>3, <1>4 DEF Statements

\* A row is locked and changed.
LEMMA LockRowStep ==
    ASSUME SessionInv, NEW c \in Clients, NEW r \in Routes, LockRow(c, r)
    PROVE  SessionInv'
<1>0. PICK x \in Row : x = View(c, r) /\ Dated(x)
  BY DEF SessionInv, Rows, AllDated, View
<1>1. PICK p \in Statements, m \in BOOLEAN :
         /\ p = client[c].pc
         /\ pending' = [pending EXCEPT ![r] = IF m THEN Changed(p, x) ELSE @]
         /\ client' = [client EXCEPT ![c].todo = @ \ {r},
                                     ![c].swept = IF m /\ p = "strip walls"
                                                  THEN @ \cup {r} ELSE @]
         /\ UNCHANGED <<route, sessionLock>>
  <2>1. Matches(client[c].pc, client[c].s, r, View(c, r)) \in BOOLEAN
    BY DEF Matches
  <2>2. QED
    BY <1>0, <2>1 DEF LockRow
<1>3. pending' \in [Routes -> Row] /\ \A k \in Routes : Dated(pending'[k])
  <2>1. Changed(p, x) \in Row /\ Dated(Changed(p, x))
    BY <1>0, ChangedRow
  <2>2. QED
    BY <1>1, <2>1 DEF SessionInv, Rows, AllDated
<1>4. client[c] \in Request
  BY DEF SessionInv, Rows
<1>5. PICK q \in Request :
         /\ client' = [client EXCEPT ![c] = q]
         /\ q.pc = client[c].pc /\ q.s = client[c].s /\ q.todo \subseteq client[c].todo
         /\ q.r = client[c].r
         /\ q.seen = client[c].seen /\ q.dated = client[c].dated
  <2> DEFINE swept == IF m /\ p = "strip walls" THEN client[c].swept \cup {r}
                      ELSE client[c].swept
             q == [client[c] EXCEPT !.todo = client[c].todo \ {r}, !.swept = swept]
  <2>1. swept \subseteq Routes
    BY <1>4 DEF Request
  <2> HIDE DEF swept
  <2>2. /\ q \in Request
        /\ q.pc = client[c].pc /\ q.s = client[c].s /\ q.todo \subseteq client[c].todo
        /\ q.r = client[c].r
        /\ q.seen = client[c].seen /\ q.dated = client[c].dated
    BY <1>4, <2>1 DEF Request
  <2>3. client' = [client EXCEPT ![c] = q]
    BY <1>1, <1>4 DEF Request, swept
  <2>4. QED
    BY <2>2, <2>3
<1>6. Rows' /\ SessionHeld'
  <2>1. client' \in [Clients -> Request] /\ client'[c] = q
        /\ \A d \in Clients \ {c} : client'[d] = client[d]
    BY <1>5 DEF SessionInv, Rows
  <2>2. \A d \in Clients : client'[d].pc = "edit" => Loaded(client'[d])
    BY <1>5, <2>1 DEF SessionInv, Rows, Loaded
  <2>3. \A d \in Clients :
           /\ client'[d].pc \in InTransaction
              => client'[d].s \in Sessions /\ sessionLock[client'[d].s] = d
           /\ client'[d].todo # {} => client'[d].pc \in InTransaction
    BY <1>5, <2>1 DEF SessionInv, SessionHeld
  <2>4. QED
    BY <1>1, <1>3, <2>1, <2>2, <2>3 DEF SessionInv, Rows, SessionHeld
<1>7. AllDated'
  <2>1. \A d \in Clients : client'[d].seen = "archived" => client'[d].dated = "yes"
    BY <1>5 DEF SessionInv, Rows, AllDated
  <2>2. QED
    BY <1>1, <1>3, <2>1 DEF SessionInv, AllDated, Dated
<1>8. QED
  BY <1>6, <1>7 DEF SessionInv

\* Every step keeps the invariant.
LEMMA SessionInvStep == SessionInv /\ [Next]_vars => SessionInv'
<1> SUFFICES ASSUME SessionInv, [Next]_vars
             PROVE  SessionInv'
  OBVIOUS
<1>0. /\ route \in [Routes -> Row] /\ pending \in [Routes -> Row]
      /\ client \in [Clients -> Request]
      /\ sessionLock \in [Sessions -> Clients \cup {NoClient}]
      /\ \A r \in Routes : Dated(route[r]) /\ Dated(pending[r])
  BY DEF SessionInv, Rows, SessionHeld, AllDated
<1>1. ASSUME NEW c \in Clients, NEW s \in Sessions,
             LockForPublish(c, s) \/ LockForDelete(c, s)
      PROVE  SessionInv'
  <2>1. PICK p \in {"lock publish", "lock delete"} :
           /\ Start(c, s, p) /\ UNCHANGED <<route, pending>>
           /\ sessionLock[s] = NoClient
           /\ sessionLock' = [sessionLock EXCEPT ![s] = c]
    BY <1>1 DEF LockForPublish, LockForDelete
  <2>2. QED
    BY <1>0, <2>1, StartStep, SettingSessionAssumption
<1>2. ASSUME NEW c \in Clients, NEW s \in Sessions, CheckOpen(c, s)
      PROVE  SessionInv'
  <2> DEFINE q == [Idle EXCEPT !.pc = "add", !.s = s]
  <2>1. /\ q \in Request /\ q.todo = {} /\ q.pc = "add" /\ q.seen = "none"
    BY IdleRequest DEF Idle, Request
  <2>2. client' = [client EXCEPT ![c] = q] /\ UNCHANGED <<route, pending, sessionLock>>
    BY <1>2 DEF CheckOpen
  <2> HIDE DEF q
  <2>3. QED
    BY <1>0, <2>1, <2>2, PlainStep DEF InTransaction, Statements
<1>3. ASSUME NEW c \in Clients, NEW r \in Routes, LockRow(c, r)
      PROVE  SessionInv'
  BY <1>3, LockRowStep
<1>4. ASSUME NEW c \in Clients, NEW r \in Routes, InsertDraft(c, r)
      PROVE  SessionInv'
  <2> DEFINE x == [status |-> "draft", session |-> client[c].s, dated |-> "no"]
  <2>1. x \in Row /\ Dated(x)
    BY <1>0 DEF Row, Request, Dated
  <2>2. /\ client' = [client EXCEPT ![c] = Idle] /\ UNCHANGED sessionLock
        /\ \/ UNCHANGED <<route, pending>>
           \/ /\ route' = [route EXCEPT ![r] = x]
              /\ pending' = [pending EXCEPT ![r] = x]
    BY <1>4 DEF InsertDraft
  <2> HIDE DEF x
  <2>3. /\ route' \in [Routes -> Row] /\ pending' \in [Routes -> Row]
        /\ \A k \in Routes : Dated(route'[k]) /\ Dated(pending'[k])
    BY <1>0, <2>1, <2>2
  <2>4. QED
    BY <2>2, <2>3, IdleRequest, PlainStep DEF InTransaction, Statements
<1>5. ASSUME NEW c \in Clients, NEW r \in Routes, ReadForEdit(c, r)
      PROVE  SessionInv'
  <2> DEFINE q == [Idle EXCEPT !.pc = "edit", !.r = r, !.seen = route[r].status,
                               !.dated = route[r].dated]
  <2>1. /\ q \in Request /\ q.todo = {} /\ q.pc = "edit" /\ q.r = r
        /\ q.seen = route[r].status /\ q.dated = route[r].dated
    BY <1>0 DEF Idle, Request, Row
  <2>2. client' = [client EXCEPT ![c] = q] /\ UNCHANGED <<route, pending, sessionLock>>
    BY <1>5 DEF ReadForEdit
  <2>3. q.seen = "archived" => q.dated = "yes"
    BY <1>0, <2>1 DEF Dated
  <2>4. Loaded(q)
    BY <1>0, <2>1 DEF Loaded, Row
  <2> HIDE DEF q
  <2>5. QED
    BY <1>0, <2>1, <2>2, <2>3, <2>4, PlainStep DEF InTransaction, Statements
<1>6. ASSUME NEW c \in Clients, NextStatement(c)
      PROVE  SessionInv'
  <2>1. /\ client[c].pc \in Statements /\ Start(c, client[c].s, client[c].pc)
        /\ UNCHANGED <<route, pending, sessionLock>>
    BY <1>6 DEF NextStatement
  <2>2. client[c].s \in Sessions /\ sessionLock[client[c].s] = c
    BY <2>1 DEF SessionInv, SessionHeld, InTransaction
  <2>3. QED
    BY <1>0, <2>1, <2>2, StartStep
<1>7. ASSUME NEW c \in Clients, CommitPublish(c) \/ CommitDelete(c)
      PROVE  SessionInv'
  <2>1. Release(c, Outcome(c))
    BY <1>7 DEF CommitPublish, CommitDelete
  <2>2. /\ Outcome(c) \in [Routes -> Row]
        /\ \A r \in Routes : Dated(Outcome(c)[r])
    BY <1>0 DEF Outcome, View
  <2>3. QED
    BY <2>1, <2>2, ReleaseStep
<1>8. ASSUME NEW c \in Clients, Abort(c)
      PROVE  SessionInv'
  BY <1>0, <1>8, ReleaseStep DEF Abort
<1>9. ASSUME NEW c \in Clients, WriteBack(c)
      PROVE  SessionInv'
  <2>1. client[c] \in Request /\ client[c].r \in Routes /\ client[c].seen # "none"
    BY <1>0, <1>9 DEF WriteBack, At, SessionInv, Rows, Loaded
  <2>2. PICK r \in Routes : r = client[c].r
    BY <2>1
  <2> DEFINE x == IF Up(r) THEN WrittenBack(c, route[r]) ELSE route[r]
  <2>3. /\ client' = [client EXCEPT ![c] = Idle] /\ UNCHANGED sessionLock
        /\ route' = [route EXCEPT ![r] = x] /\ pending' = [pending EXCEPT ![r] = x]
    BY <1>9, <2>2 DEF WriteBack
  <2>4. x \in Row /\ Dated(x)
    <3>1. WrittenBack(c, route[r]) \in Row
      <4>1. /\ route[r] \in Row /\ client[c].dated \in {"yes", "no"}
            /\ client[c].seen \in {"absent", "draft", "active", "flagged",
                                   "archived", "deleted"}
        BY <1>0, <2>1 DEF Request
      <4>2. \A st, date : \A y \in Row :
               /\ st \in {"absent", "draft", "active", "flagged", "archived",
                          "deleted"}
               /\ date \in {"yes", "no"}
               => [y EXCEPT !.status = st, !.dated = date] \in Row
        BY DEF Row
      <4>3. QED
        BY <4>1, <4>2 DEF WrittenBack
    <3>2. Dated(WrittenBack(c, route[r]))
      BY <1>0, <2>1 DEF WrittenBack, Row, Dated, SessionInv, AllDated
    <3>3. QED
      BY <1>0, <3>1, <3>2
  <2> HIDE DEF x
  <2>5. /\ route' \in [Routes -> Row] /\ pending' \in [Routes -> Row]
        /\ \A k \in Routes : Dated(route'[k]) /\ Dated(pending'[k])
    BY <1>0, <2>3, <2>4
  <2>6. QED
    BY <2>3, <2>5, IdleRequest, PlainStep DEF InTransaction, Statements
<1>10. ASSUME NEW r \in Routes, NEW st \in RouteStatuses, SetRouteStatus(r, st)
       PROVE  SessionInv'
  <2> DEFINE x == IF st = "archived" THEN Stripped(route[r])
                  ELSE [route[r] EXCEPT !.status = st]
  <2>1. x \in Row /\ Dated(x)
    <3>1. route[r] \in Row /\ st \in {"active", "flagged", "archived"}
      BY <1>0, SettingSessionAssumption
    <3>2. Stripped(route[r]) \in Row /\ Dated(Stripped(route[r]))
      BY <3>1 DEF Row, Dated, Stripped, Archived
    <3>3. st # "archived" => /\ [route[r] EXCEPT !.status = st] \in Row
                             /\ Dated([route[r] EXCEPT !.status = st])
      BY <3>1 DEF Row, Dated
    <3>4. QED
      BY <3>2, <3>3
  <2>2. SetRoute(r, x)
    BY <1>10 DEF SetRouteStatus
  <2> HIDE DEF x
  <2>3. QED
    BY <2>1, <2>2, RouteStep
<1>11. ASSUME NEW r \in Routes, DeleteSessionRoute(r)
       PROVE  SessionInv'
  <2> DEFINE x == [route[r] EXCEPT !.status = "deleted", !.session = NoSession]
  <2>1. x \in Row /\ Dated(x)
    BY <1>0 DEF Row, Dated
  <2>2. SetRoute(r, x)
    BY <1>11 DEF DeleteSessionRoute
  <2> HIDE DEF x
  <2>3. QED
    BY <2>1, <2>2, RouteStep
<1>12. CASE \/ \E s \in Sessions : \/ \E st \in NewStatuses : SetSessionStatus(s, st)
                                   \/ \E t \in Walls \cup Routes :
                                         \/ AddStripTarget(s, t)
                                         \/ RemoveStripTarget(s, t)
            \/ UNCHANGED vars
  <2>1. UNCHANGED <<route, pending, client, sessionLock>>
    BY <1>12 DEF SetSessionStatus, AddStripTarget, RemoveStripTarget, vars
  <2>2. QED
    BY <2>1 DEF SessionInv, Rows, SessionHeld, AllDated
<1>13. QED
  BY <1>1, <1>2, <1>3, <1>4, <1>5, <1>6, <1>7, <1>8, <1>9, <1>10, <1>11, <1>12
     DEF Next

\* ... so it holds throughout.
LEMMA SessionInvAlways == Spec => []SessionInv
  BY SessionInvInit, SessionInvStep, PTL DEF Spec

\* Two transactions on the same session never wait for each other, for a route
\* or for the row of the session, however many requests there are: only one of
\* them has got past its first statement, which locks that row (PublishSession,
\* Delete).
THEOREM NobodyWaitsInACycle == Spec => []NoLockCycle
<1>1. SessionInv => NoLockCycle
  <2> SUFFICES ASSUME SessionInv, NEW c \in Clients, NEW d \in Clients,
                      client[c].s = client[d].s, WaitsFor(c, d), WaitsFor(d, c)
               PROVE  c = d
    BY DEF NoLockCycle
  <2>1. ASSUME NEW x \in Clients, NEW y \in Clients, WaitsFor(x, y)
        PROVE  sessionLock[client[x].s] = x
    <3>1. client[x].todo # {} \/ client[x].pc \in {"complete", "remove"}
      BY <2>1 DEF WaitsFor
    <3>2. QED
      BY <3>1 DEF SessionInv, SessionHeld, InTransaction
  <2>2. sessionLock[client[c].s] = c /\ sessionLock[client[d].s] = d
    BY <2>1
  <2>3. QED
    BY <2>2
<1>2. QED
  BY <1>1, SessionInvAlways, PTL

-----------------------------------------------------------------------------
(* Drafts. *)

\* The other variables have their types.
Types ==
    /\ session \in [Sessions -> {"planning", "in_progress", "complete",
                                 "cancelled", "gone"}]
    /\ target \in [Sessions -> SUBSET (Walls \cup Routes)]
    /\ lock \in [Routes -> Clients \cup {NoClient}]
    /\ fresh \in [Routes -> Sessions \cup {NoSession}]
    /\ caught \subseteq Routes /\ reopened \subseteq Sessions /\ stale \subseteq Routes

\* A row version that is a draft of session s.
DraftOf(x, s) == x.status = "draft" /\ x.session = s

\* A row that a transaction holds exists, and without a stale edit what the
\* transaction made of it is no draft.
PendingHolds ==
    \A r \in Routes :
        /\ lock[r] = NoClient => pending[r] = route[r]
        /\ lock[r] # NoClient => route[r].status # "absent"
        /\ lock[r] # NoClient /\ r \notin stale => pending[r].status # "draft"

\* While Delete drops the drafts of its session all that are left are on its
\* list, and afterwards none is left.
DeletionSweeps ==
    \A c \in Clients, r \in Routes \ stale :
        DraftOf(View(c, r), client[c].s) =>
            /\ client[c].pc = "drop" => r \in client[c].todo
            /\ client[c].pc \notin {"unlink", "remove"}

\* Transactions and additions are of sessions that exist.
SessionsLive ==
    \A c \in Clients : client[c].pc \in InTransaction => Live(client[c].s)

Added == \A c \in Clients : client[c].pc = "add" => client[c].s \in Sessions

DraftInv == /\ SessionInv /\ Types /\ PendingHolds /\ DeletionSweeps
            /\ SessionsLive /\ Added /\ DraftsHaveSession

\* A free request is in no transaction.
LEMMA Transactions ==
    /\ {"drop", "unlink", "remove"} \subseteq InTransaction
    /\ Statements \subseteq InTransaction
    /\ \A p \in {"idle", "add", "edit"} : p \notin InTransaction
  BY DEF InTransaction, Statements

\* No draft, no lock and no transaction at the start.
LEMMA DraftInvInit == Init => DraftInv
<1> SUFFICES ASSUME Init
             PROVE  DraftInv
  OBVIOUS
<1>1. SessionInv
  BY SessionInvInit
<1>2. \A r \in Routes : /\ route[r].status # "draft" /\ pending[r] = route[r]
                        /\ lock[r] = NoClient
  BY DEF Init
<1>3. \A c \in Clients : client[c].pc = "idle" /\ client[c].s = NoSession
  BY DEF Init, Idle
<1>4. Types
  BY DEF Init, Types
<1>5. PendingHolds /\ DraftsHaveSession
  BY <1>2 DEF PendingHolds, DraftsHaveSession
<1>6. DeletionSweeps /\ SessionsLive /\ Added
  BY <1>2, <1>3, Transactions DEF DeletionSweeps, SessionsLive, Added
<1>7. QED
  BY <1>1, <1>4, <1>5, <1>6 DEF DraftInv

\* A step that leaves the rows and their locks alone.
LEMMA DraftMoves ==
    ASSUME DraftInv, SessionInv', Types', NEW c \in Clients,
           UNCHANGED <<route, pending, lock, session, stale>>,
           \A d \in Clients \ {c} : client'[d] = client[d],
           client'[c].pc \in InTransaction => Live(client'[c].s),
           client'[c].pc = "add" => client'[c].s \in Sessions,
           \A r \in Routes \ stale : DraftOf(View(c, r), client'[c].s) =>
              /\ client'[c].pc = "drop" => r \in client'[c].todo
              /\ client'[c].pc \notin {"unlink", "remove"}
    PROVE  DraftInv'
<1>1. PendingHolds' /\ DraftsHaveSession'
  BY DEF DraftInv, PendingHolds, DraftsHaveSession, Live
<1>2. \A d \in Clients, r \in Routes : View(d, r)' = View(d, r)
  BY DEF View
<1>3. DeletionSweeps'
  <2> SUFFICES ASSUME NEW d \in Clients, NEW r \in Routes \ stale,
                      DraftOf(View(d, r), client'[d].s)
               PROVE  /\ client'[d].pc = "drop" => r \in client'[d].todo
                      /\ client'[d].pc \notin {"unlink", "remove"}
    BY <1>2 DEF DeletionSweeps, DraftOf
  <2>1. QED
    BY DEF DraftInv, DeletionSweeps
<1>4. SessionsLive' /\ Added'
  BY DEF DraftInv, SessionsLive, Added, Live
<1>5. QED
  BY <1>1, <1>3, <1>4 DEF DraftInv

\* A statement starts with the drafts it is to drop on its list; the one after
\* starts when the list is empty.
LEMMA StartKeepsDrafts ==
    ASSUME DraftInv, SessionInv', Types', NEW c \in Clients, NEW s \in Sessions,
           NEW p \in Statements \cup {"lock publish", "lock delete"},
           Start(c, s, p), Live(s),
           UNCHANGED <<route, pending, lock, session, stale>>,
           p = "drop" => \A r \in Routes \ stale : ~DraftOf(View(c, r), s),
           p = "unlink" => \A r \in Routes \ stale : ~DraftOf(View(c, r), s)
    PROVE  DraftInv'
<1>1. PICK next : next = Following(p)
  OBVIOUS
<1>2. next \in InTransaction
  BY <1>1 DEF Following, InTransaction, Statements
<1>3. PICK mine : mine = {r \in Routes : Matches(Following(p), s, r, View(c, r))}
  OBVIOUS
<1>4. client' = [client EXCEPT ![c] =
                   [client[c] EXCEPT !.pc = next, !.s = s, !.todo = mine]]
  BY <1>1, <1>3 DEF Start
<1>5. client[c] \in Request /\ client \in [Clients -> Request]
  BY DEF DraftInv, SessionInv, Rows
<1>6. /\ client'[c].pc = next /\ client'[c].s = s /\ client'[c].todo = mine
      /\ \A d \in Clients \ {c} : client'[d] = client[d]
  BY <1>4, <1>5 DEF Request
<1>7. next = "drop" => \A r \in Routes : DraftOf(View(c, r), s) => r \in mine
  BY <1>1, <1>3 DEF Matches, DraftOf
<1>8. next \in {"unlink", "remove"} => p \in {"drop", "unlink"}
  BY <1>1 DEF Following, Statements
<1>9. next # "add"
  BY <1>2, Transactions
<1>10. QED
  BY <1>6, <1>7, <1>8, <1>9, DraftMoves DEF Live

\* A statement gets hold of a row: it drops the draft, or it was none by now.
LEMMA LockRowKeepsDrafts ==
    ASSUME DraftInv, SessionInv', Types', NEW c \in Clients, NEW r \in Routes,
           LockRow(c, r)
    PROVE  DraftInv'
<1>1. PICK p \in Statements, m \in BOOLEAN :
         /\ p = client[c].pc
         /\ m <=> Matches(p, client[c].s, r, View(c, r))
         /\ lock[r] \in {c, NoClient}
         /\ lock' = [lock EXCEPT ![r] = IF m THEN c ELSE @]
         /\ pending' = [pending EXCEPT ![r] = IF m THEN Changed(p, View(c, r)) ELSE @]
         /\ client' = [client EXCEPT ![c].todo = @ \ {r},
                                     ![c].swept = IF m /\ p = "strip walls"
                                                  THEN @ \cup {r} ELSE @]
         /\ UNCHANGED <<route, session, stale>>
  <2>1. Matches(client[c].pc, client[c].s, r, View(c, r)) \in BOOLEAN
    BY DEF Matches
  <2>2. QED
    BY <2>1 DEF LockRow
<1>2. /\ client \in [Clients -> Request] /\ client[c] \in Request
      /\ route \in [Routes -> Row] /\ pending \in [Routes -> Row]
      /\ lock \in [Routes -> Clients \cup {NoClient}] /\ c # NoClient
      /\ View(c, r) \in Row
  BY SettingSessionAssumption DEF DraftInv, SessionInv, Rows, Types, View
<1>3. /\ client'[c].pc = p /\ client'[c].s = client[c].s
      /\ client'[c].todo = client[c].todo \ {r}
      /\ \A d \in Clients \ {c} : client'[d] = client[d]
  BY <1>1, <1>2 DEF Request
<1>4. \A k \in Routes \ {r} : lock'[k] = lock[k] /\ pending'[k] = pending[k]
  BY <1>1, <1>2
<1>5. ~m => lock'[r] = lock[r] /\ pending'[r] = pending[r]
  BY <1>1, <1>2
<1>6. m => lock'[r] = c /\ pending'[r] = Changed(p, View(c, r))
  BY <1>1, <1>2
<1>7. ASSUME m, r \notin stale
      PROVE  pending'[r].status # "draft"
  <2>1. CASE p \in {"strip walls", "strip routes", "activate", "drop"}
    BY <1>2, <1>6, <1>7, <2>1 DEF Changed, Stripped, Archived, Row
  <2>2. CASE p = "unlink"
    <3>1. View(c, r).session = client[c].s
      BY <1>1, <1>7, <2>2 DEF Matches
    <3>2. ~DraftOf(View(c, r), client[c].s)
      BY <1>1, <1>7, <2>2 DEF DraftInv, DeletionSweeps
    <3>3. View(c, r).status # "draft"
      BY <3>1, <3>2 DEF DraftOf
    <3>4. QED
      BY <1>2, <1>6, <1>7, <2>2, <3>3 DEF Changed, Row
  <2>3. QED
    BY <2>1, <2>2 DEF Statements
<1>8. PendingHolds'
  <2>1. m => route[r].status # "absent"
    <3>1. CASE lock[r] = c
      BY <1>2, <3>1 DEF DraftInv, PendingHolds
    <3>2. CASE lock[r] # c
      BY <1>1, <3>2 DEF Matches, View, Statements
    <3>3. QED
      BY <3>1, <3>2
  <2>2. QED
    BY <1>1, <1>2, <1>4, <1>5, <1>6, <1>7, <2>1 DEF DraftInv, PendingHolds
<1>9. DeletionSweeps'
  <2> SUFFICES ASSUME NEW d \in Clients, NEW k \in Routes \ stale,
                      DraftOf(View(d, k)', client'[d].s)
               PROVE  /\ client'[d].pc = "drop" => k \in client'[d].todo
                      /\ client'[d].pc \notin {"unlink", "remove"}
    BY <1>1 DEF DeletionSweeps, DraftOf
  <2>1. CASE k # r
    <3>1. View(d, k)' = View(d, k)
      BY <1>1, <1>4, <2>1 DEF View
    <3>2. DraftOf(View(d, k), client[d].s)
      BY <1>3, <3>1
    <3>3. QED
      BY <1>1, <1>3, <2>1, <3>2 DEF DraftInv, DeletionSweeps
  <2>2. CASE k = r /\ d # c
    <3>1. lock[r] # d /\ lock'[r] # d
      <4>1. d # NoClient /\ d # c
        BY <2>2, SettingSessionAssumption
      <4>2. lock[r] \in {c, NoClient} /\ lock'[r] \in {c, lock[r]}
        BY <1>1, <1>5, <1>6
      <4>3. QED
        BY <4>1, <4>2
    <3>2. View(d, k)' = View(d, k)
      BY <1>1, <2>2, <3>1 DEF View
    <3>3. QED
      BY <1>3, <2>2, <3>2 DEF DraftInv, DeletionSweeps
  <2>3. CASE k = r /\ d = c /\ m
    <3>1. View(d, k)' = pending'[r]
      BY <1>6, <2>3 DEF View
    <3>2. QED
      BY <1>7, <2>3, <3>1 DEF DraftOf
  <2>4. CASE k = r /\ d = c /\ ~m
    <3>1. View(d, k)' = View(c, r)
      BY <1>1, <1>5, <2>4 DEF View
    <3>2. p # "drop"
      BY <1>1, <1>3, <2>4, <3>1 DEF Matches, DraftOf
    <3>3. p # "unlink" /\ p # "remove"
      BY <1>1, <1>3, <2>4, <3>1 DEF DraftInv, DeletionSweeps
    <3>4. QED
      BY <1>3, <2>4, <3>2, <3>3
  <2>5. QED
    BY <2>1, <2>2, <2>3, <2>4
<1>10. SessionsLive' /\ Added'
  <2>1. \A d \in Clients : client'[d].pc = client[d].pc /\ client'[d].s = client[d].s
    BY <1>1, <1>3
  <2>2. QED
    BY <1>1, <2>1 DEF DraftInv, SessionsLive, Added, Live
<1>11. DraftsHaveSession'
  BY <1>1 DEF DraftInv, DraftsHaveSession, Live
<1>12. QED
  BY <1>8, <1>9, <1>10, <1>11 DEF DraftInv

\* A transaction ends: what it made of the rows holds no draft, and none is left
\* of a session it deletes.
LEMMA ReleaseKeepsDrafts ==
    ASSUME DraftInv, SessionInv', Types', NEW c \in Clients,
           NEW committed \in {Outcome(c), route}, Release(c, committed),
           client[c].pc \in InTransaction, UNCHANGED stale,
           \/ \A s \in Sessions : Live(s) => session'[s] # "gone"
           \/ /\ client[c].pc = "remove" /\ committed = Outcome(c)
              /\ session' = [session EXCEPT ![client[c].s] = "gone"]
    PROVE  DraftInv'
<1>1. /\ route' = committed /\ client' = [client EXCEPT ![c] = Idle]
      /\ pending' = [r \in Routes |-> IF lock[r] = c THEN committed[r] ELSE pending[r]]
      /\ lock' = [r \in Routes |-> IF lock[r] = c THEN NoClient ELSE lock[r]]
  BY DEF Release
<1>2. /\ client \in [Clients -> Request] /\ session \in [Sessions -> {"planning",
            "in_progress", "complete", "cancelled", "gone"}]
      /\ lock \in [Routes -> Clients \cup {NoClient}] /\ c # NoClient
  BY SettingSessionAssumption DEF DraftInv, SessionInv, Rows, Types
<1>3. \A r \in Routes : /\ lock[r] # c => committed[r] = route[r]
                        /\ lock[r] = c => committed[r] \in {pending[r], route[r]}
  BY DEF Outcome, View
<1>4. \A r \in Routes \ stale : route'[r].status = "draft" => route'[r] = route[r]
  BY <1>1, <1>2, <1>3 DEF DraftInv, PendingHolds
<1>5. PendingHolds'
  BY <1>1, <1>2, <1>3 DEF DraftInv, PendingHolds
<1>6. \A d \in Clients \ {c} : client'[d] = client[d]
  BY <1>1, <1>2
<1>7. client'[c].pc = "idle"
  BY <1>1, <1>2, IdleRequest
<1>8. DeletionSweeps'
  <2> SUFFICES ASSUME NEW d \in Clients, NEW r \in Routes \ stale,
                      DraftOf(View(d, r)', client'[d].s)
               PROVE  /\ client'[d].pc = "drop" => r \in client'[d].todo
                      /\ client'[d].pc \notin {"unlink", "remove"}
    BY DEF DeletionSweeps, DraftOf
  <2>1. CASE d = c
    BY <1>7, <2>1
  <2>2. CASE d # c
    <3>1. View(d, r)' = View(d, r)
      <4>1. CASE lock[r] = d
        BY <1>1, <1>2, <2>2, <4>1 DEF View
      <4>2. CASE lock[r] # d
        <5>1. lock'[r] # d
          BY <1>1, <1>2, <4>2, SettingSessionAssumption
        <5>2. View(d, r)' = route'[r] /\ View(d, r) = route[r]
          BY <4>2, <5>1 DEF View
        <5>3. QED
          BY <1>4, <5>2 DEF DraftOf
      <4>3. QED
        BY <4>1, <4>2
    <3>2. QED
      BY <1>6, <2>2, <3>1 DEF DraftInv, DeletionSweeps
  <2>3. QED
    BY <2>1, <2>2
<1>9. SessionsLive'
  <2> SUFFICES ASSUME NEW d \in Clients, client'[d].pc \in InTransaction
               PROVE  session'[client'[d].s] # "gone"
    BY DEF SessionsLive, Live
  <2>1. d # c /\ client'[d] = client[d]
    BY <1>6, <1>7, Transactions
  <2>2. /\ client[d].s \in Sessions /\ sessionLock[client[d].s] = d
        /\ client[c].s \in Sessions /\ sessionLock[client[c].s] = c
    BY <2>1 DEF DraftInv, SessionInv, SessionHeld
  <2>3. Live(client[d].s) /\ client[d].s # client[c].s
    BY <2>1, <2>2 DEF DraftInv, SessionsLive
  <2>4. QED
    BY <1>2, <2>1, <2>2, <2>3 DEF Live
<1>10. Added'
  BY <1>6, <1>7 DEF DraftInv, Added
<1>11. DraftsHaveSession'
  <2> SUFFICES ASSUME NEW r \in Routes \ stale, route'[r].status = "draft"
               PROVE  route'[r].session # NoSession /\ session'[route'[r].session] # "gone"
    BY DEF DraftsHaveSession, Live
  <2>1. route'[r] = route[r] /\ route[r].status = "draft"
    BY <1>4
  <2>2. route[r].session # NoSession /\ Live(route[r].session)
    BY <2>1 DEF DraftInv, DraftsHaveSession
  <2>3. route[r].session \in Sessions
    BY <2>2 DEF DraftInv, SessionInv, Rows, Row
  <2>4. CASE \A s \in Sessions : Live(s) => session'[s] # "gone"
    BY <2>1, <2>2, <2>3, <2>4
  <2>5. CASE /\ client[c].pc = "remove" /\ committed = Outcome(c)
             /\ session' = [session EXCEPT ![client[c].s] = "gone"]
    <3>1. View(c, r).status = "draft" => View(c, r) = route[r]
      BY <1>2 DEF View, DraftInv, PendingHolds
    <3>2. lock[r] # c
      BY <1>1, <1>2, <2>1, <2>5 DEF Outcome, View, DraftInv, PendingHolds
    <3>3. View(c, r) = route[r]
      BY <3>2 DEF View
    <3>4. ~DraftOf(View(c, r), client[c].s)
      BY <2>5 DEF DraftInv, DeletionSweeps
    <3>5. route[r].session # client[c].s
      BY <2>1, <3>3, <3>4 DEF DraftOf
    <3>6. QED
      BY <1>2, <2>1, <2>2, <2>3, <2>5, <3>5 DEF Live
  <2>6. QED
    BY <2>4, <2>5
<1>12. QED
  BY <1>5, <1>8, <1>9, <1>10, <1>11 DEF DraftInv

\* A single statement changes a route nobody has locked, and makes no draft; or
\* a form writes back what it loaded, which is a stale edit unless it changes
\* nothing.
LEMMA SetKeepsDrafts ==
    ASSUME DraftInv, SessionInv', Types', NEW r \in Routes, NEW x \in Row,
           lock[r] = NoClient,
           route' = [route EXCEPT ![r] = x], pending' = [pending EXCEPT ![r] = x],
           UNCHANGED <<lock, session>>, stale \subseteq stale',
           r \notin stale' => x.status # "draft" \/ x = route[r],
           \A d \in Clients : client'[d] = client[d] \/ client'[d].pc = "idle"
    PROVE  DraftInv'
<1>1. /\ route \in [Routes -> Row] /\ pending \in [Routes -> Row]
      /\ \A d \in Clients : lock[r] # d
      /\ stale' \subseteq Routes
  BY SettingSessionAssumption DEF DraftInv, SessionInv, Rows, Types
<1>2. route'[r] = x /\ pending'[r] = x
      /\ \A k \in Routes \ {r} : route'[k] = route[k] /\ pending'[k] = pending[k]
  BY <1>1
<1>3. \A d \in Clients, k \in Routes \ stale' :
         View(d, k)' = View(d, k) \/ View(d, k)'.status # "draft"
  BY <1>1, <1>2 DEF View
<1>4. PendingHolds'
  BY <1>2 DEF DraftInv, PendingHolds
<1>5. DeletionSweeps'
  <2> SUFFICES ASSUME NEW d \in Clients, NEW k \in Routes \ stale',
                      DraftOf(View(d, k)', client'[d].s)
               PROVE  /\ client'[d].pc = "drop" => k \in client'[d].todo
                      /\ client'[d].pc \notin {"unlink", "remove"}
    BY DEF DeletionSweeps, DraftOf
  <2>1. View(d, k)' = View(d, k) /\ k \in Routes \ stale
    BY <1>3 DEF DraftOf
  <2>2. QED
    BY <2>1 DEF DraftInv, DeletionSweeps
<1>6. SessionsLive' /\ Added'
  BY Transactions DEF DraftInv, SessionsLive, Added, Live
<1>7. DraftsHaveSession'
  BY <1>2 DEF DraftInv, DraftsHaveSession, Live
<1>8. QED
  BY <1>4, <1>5, <1>6, <1>7 DEF DraftInv

\* A draft is added while nobody has its session locked, so no deletion of the
\* session is under way.
LEMMA InsertKeepsDrafts ==
    ASSUME DraftInv, SessionInv', Types', NEW c \in Clients, NEW r \in Routes,
           InsertDraft(c, r)
    PROVE  DraftInv'
<1>1. /\ client' = [client EXCEPT ![c] = Idle] /\ client \in [Clients -> Request]
      /\ UNCHANGED <<lock, session, stale, sessionLock>>
      /\ client[c].s \in Sessions /\ sessionLock[client[c].s] = NoClient
      /\ route[r].status = "absent"
  BY DEF InsertDraft, At, DraftInv, Added, SessionInv, Rows
<1>2. client'[c].pc = "idle" /\ \A d \in Clients \ {c} : client'[d] = client[d]
  BY <1>1, IdleRequest
<1>3. CASE UNCHANGED <<route, pending>>
  BY <1>1, <1>2, <1>3, DraftMoves, Transactions
<1>4. CASE Live(client[c].s) /\ ~UNCHANGED <<route, pending>>
  <2>1. PICK x : /\ x = [status |-> "draft", session |-> client[c].s, dated |-> "no"]
                 /\ route' = [route EXCEPT ![r] = x]
                 /\ pending' = [pending EXCEPT ![r] = x]
    BY <1>4 DEF InsertDraft
  <2>2. /\ route \in [Routes -> Row] /\ pending \in [Routes -> Row]
        /\ lock[r] = NoClient
        /\ \A d \in Clients : lock[r] # d
    BY <1>1, SettingSessionAssumption DEF DraftInv, SessionInv, Rows, PendingHolds
  <2>3. route'[r] = x /\ pending'[r] = x
        /\ \A k \in Routes \ {r} : route'[k] = route[k] /\ pending'[k] = pending[k]
    BY <2>1, <2>2
  <2>4. PendingHolds'
    BY <1>1, <2>2, <2>3 DEF DraftInv, PendingHolds
  <2>5. DeletionSweeps'
    <3> SUFFICES ASSUME NEW d \in Clients, NEW k \in Routes \ stale,
                        DraftOf(View(d, k)', client'[d].s)
                 PROVE  /\ client'[d].pc = "drop" => k \in client'[d].todo
                        /\ client'[d].pc \notin {"unlink", "remove"}
      BY <1>1 DEF DeletionSweeps, DraftOf
    <3>1. CASE k # r
      <4>1. View(d, k)' = View(d, k)
        BY <1>1, <2>3, <3>1 DEF View
      <4>2. QED
        BY <1>2, <4>1 DEF DraftInv, DeletionSweeps
    <3>2. CASE k = r
      <4>1. View(d, k)' = x
        BY <1>1, <2>2, <2>3, <3>2 DEF View
      <4>2. sessionLock'[client'[d].s] # d
        BY <1>1, <2>1, <4>1, SettingSessionAssumption DEF DraftOf
      <4>3. client'[d].pc \notin InTransaction
        BY <4>2 DEF SessionInv, SessionHeld
      <4>4. QED
        BY <4>3, Transactions
    <3>3. QED
      BY <3>1, <3>2
  <2>6. SessionsLive' /\ Added'
    BY <1>1, <1>2, Transactions DEF DraftInv, SessionsLive, Added, Live
  <2>7. DraftsHaveSession'
    BY <1>1, <1>4, <2>1, <2>3, SettingSessionAssumption
       DEF DraftInv, DraftsHaveSession, Live
  <2>8. QED
    BY <2>4, <2>5, <2>6, <2>7 DEF DraftInv
<1>5. QED
  BY <1>3, <1>4 DEF InsertDraft

\* The other variables keep their types.
LEMMA TypesStep == Types /\ SessionInv /\ [Next]_vars => Types'
<1> SUFFICES ASSUME Types, SessionInv, [Next]_vars
             PROVE  Types'
  OBVIOUS
<1>1. ASSUME NEW c \in Clients, NEW s \in Sessions,
             LockForPublish(c, s) \/ LockForDelete(c, s) \/ CheckOpen(c, s)
      PROVE  Types'
  BY <1>1 DEF Types, LockForPublish, LockForDelete, CheckOpen
<1>2. ASSUME NEW c \in Clients, NEW r \in Routes, LockRow(c, r)
      PROVE  Types'
  BY <1>2 DEF Types, LockRow
<1>3. ASSUME NEW c \in Clients, NEW r \in Routes, InsertDraft(c, r) \/ ReadForEdit(c, r)
      PROVE  Types'
  BY <1>3 DEF Types, InsertDraft, ReadForEdit
<1>4. ASSUME NEW c \in Clients, NextStatement(c)
      PROVE  Types'
  BY <1>4 DEF Types, NextStatement
<1>5. ASSUME NEW c \in Clients, CommitPublish(c)
      PROVE  Types'
  <2>1. /\ client[c].s \in Sessions /\ client[c] \in Request
    BY <1>5 DEF SessionInv, Rows, SessionHeld, InTransaction, CommitPublish, At
  <2>2. lock' \in [Routes -> Clients \cup {NoClient}]
    BY <1>5 DEF Types, CommitPublish, Release
  <2>3. fresh' \in [Routes -> Sessions \cup {NoSession}]
    BY <1>5, <2>1 DEF Types, CommitPublish
  <2>4. caught' \subseteq Routes
    BY <1>5 DEF Types, CommitPublish
  <2>5. QED
    BY <1>5, <2>1, <2>2, <2>3, <2>4 DEF Types, CommitPublish
<1>6. ASSUME NEW c \in Clients, CommitDelete(c)
      PROVE  Types'
  <2>1. lock' \in [Routes -> Clients \cup {NoClient}]
    BY <1>6 DEF Types, CommitDelete, Release
  <2>2. QED
    BY <1>6, <2>1 DEF Types, CommitDelete
<1>7. ASSUME NEW c \in Clients, Abort(c)
      PROVE  Types'
  <2>1. lock' \in [Routes -> Clients \cup {NoClient}]
    BY <1>7 DEF Types, Abort, Release
  <2>2. QED
    BY <1>7, <2>1 DEF Types, Abort
<1>8. ASSUME NEW c \in Clients, WriteBack(c)
      PROVE  Types'
  <2>1. client[c].r \in Routes
    BY <1>8 DEF SessionInv, Rows, Loaded, WriteBack, At
  <2>2. stale' \subseteq Routes
    BY <1>8, <2>1 DEF Types, WriteBack
  <2>3. QED
    BY <1>8, <2>2 DEF Types, WriteBack
<1>9. ASSUME NEW r \in Routes,
             DeleteSessionRoute(r) \/ \E st \in RouteStatuses : SetRouteStatus(r, st)
      PROVE  Types'
  BY <1>9 DEF Types, DeleteSessionRoute, SetRouteStatus, SetRoute
<1>10. ASSUME NEW s \in Sessions, NEW st \in NewStatuses, SetSessionStatus(s, st)
       PROVE  Types'
  BY <1>10, SettingSessionAssumption DEF Types, SetSessionStatus
<1>11. ASSUME NEW s \in Sessions, NEW t \in Walls \cup Routes,
              AddStripTarget(s, t) \/ RemoveStripTarget(s, t)
       PROVE  Types'
  BY <1>11 DEF Types, AddStripTarget, RemoveStripTarget
<1>12. CASE UNCHANGED vars
  BY <1>12 DEF Types, vars
<1>13. QED
  BY <1>1, <1>2, <1>3, <1>4, <1>5, <1>6, <1>7, <1>8, <1>9, <1>10, <1>11, <1>12
     DEF Next

\* Every step keeps the invariant of the drafts.
LEMMA DraftInvStep == DraftInv /\ [Next]_vars => DraftInv'
<1> SUFFICES ASSUME DraftInv, [Next]_vars
             PROVE  DraftInv'
  OBVIOUS
<1>0. /\ SessionInv' /\ Types'
      /\ route \in [Routes -> Row] /\ pending \in [Routes -> Row]
      /\ client \in [Clients -> Request]
  BY SessionInvStep, TypesStep DEF DraftInv, SessionInv, Rows
<1>1. ASSUME NEW c \in Clients, NEW s \in Sessions,
             LockForPublish(c, s) \/ LockForDelete(c, s)
      PROVE  DraftInv'
  <2>1. PICK p \in {"lock publish", "lock delete"} :
           /\ Start(c, s, p) /\ Live(s)
           /\ UNCHANGED <<route, pending, lock, session, stale>>
    BY <1>1 DEF LockForPublish, LockForDelete, MayPublish
  <2>2. QED
    BY <1>0, <2>1, StartKeepsDrafts
<1>2. ASSUME NEW c \in Clients, NEW s \in Sessions, CheckOpen(c, s)
      PROVE  DraftInv'
  <2>1. PICK q : q = [Idle EXCEPT !.pc = "add", !.s = s]
    OBVIOUS
  <2>2. q.pc = "add" /\ q.s = s
    BY <2>1 DEF Idle
  <2>3. /\ client' = [client EXCEPT ![c] = q]
        /\ UNCHANGED <<route, pending, lock, session, stale>>
    BY <1>2, <2>1 DEF CheckOpen
  <2>4. client'[c] = q /\ \A d \in Clients \ {c} : client'[d] = client[d]
    BY <1>0, <2>3
  <2>5. QED
    BY <1>0, <2>2, <2>3, <2>4, DraftMoves, Transactions
<1>3. ASSUME NEW c \in Clients, NEW r \in Routes, LockRow(c, r)
      PROVE  DraftInv'
  BY <1>0, <1>3, LockRowKeepsDrafts
<1>4. ASSUME NEW c \in Clients, NEW r \in Routes, InsertDraft(c, r)
      PROVE  DraftInv'
  BY <1>0, <1>4, InsertKeepsDrafts
<1>5. ASSUME NEW c \in Clients, NEW r \in Routes, ReadForEdit(c, r)
      PROVE  DraftInv'
  <2>1. client'[c].pc = "edit" /\ \A d \in Clients \ {c} : client'[d] = client[d]
    BY <1>0, <1>5 DEF ReadForEdit, Idle
  <2>2. UNCHANGED <<route, pending, lock, session, stale>>
    BY <1>5 DEF ReadForEdit
  <2>3. QED
    BY <1>0, <2>1, <2>2, DraftMoves, Transactions
<1>6. ASSUME NEW c \in Clients, NextStatement(c)
      PROVE  DraftInv'
  <2>1. /\ client[c].pc \in Statements /\ client[c].todo = {}
        /\ Start(c, client[c].s, client[c].pc)
        /\ UNCHANGED <<route, pending, lock, session, stale>>
    BY <1>6 DEF NextStatement
  <2>2. client[c].s \in Sessions /\ Live(client[c].s)
    BY <2>1, Transactions DEF DraftInv, SessionInv, SessionHeld, SessionsLive
  <2>3. client[c].pc \in {"drop", "unlink"} =>
           \A r \in Routes \ stale : ~DraftOf(View(c, r), client[c].s)
    BY <2>1 DEF DraftInv, DeletionSweeps
  <2>4. QED
    BY <1>0, <2>1, <2>2, <2>3, StartKeepsDrafts
<1>7. ASSUME NEW c \in Clients, CommitPublish(c)
      PROVE  DraftInv'
  <2>1. /\ Release(c, Outcome(c)) /\ client[c].pc \in InTransaction
        /\ UNCHANGED stale /\ session' = [session EXCEPT ![client[c].s] = "complete"]
    BY <1>7 DEF CommitPublish, At, InTransaction
  <2>2. \A s \in Sessions : Live(s) => session'[s] # "gone"
    BY <2>1 DEF Live, DraftInv, Types
  <2>3. QED
    BY <1>0, <2>1, <2>2, ReleaseKeepsDrafts
<1>8. ASSUME NEW c \in Clients, CommitDelete(c)
      PROVE  DraftInv'
  <2>1. /\ Release(c, Outcome(c)) /\ client[c].pc = "remove"
        /\ UNCHANGED stale /\ session' = [session EXCEPT ![client[c].s] = "gone"]
    BY <1>8 DEF CommitDelete, At
  <2>2. QED
    BY <1>0, <2>1, ReleaseKeepsDrafts, Transactions
<1>9. ASSUME NEW c \in Clients, Abort(c)
      PROVE  DraftInv'
  <2>1. /\ Release(c, route) /\ client[c].pc \in InTransaction
        /\ UNCHANGED <<session, stale>>
    BY <1>9 DEF Abort, InTransaction
  <2>2. \A s \in Sessions : Live(s) => session'[s] # "gone"
    BY <2>1 DEF Live
  <2>3. QED
    BY <1>0, <2>1, <2>2, ReleaseKeepsDrafts
<1>10. ASSUME NEW c \in Clients, WriteBack(c)
       PROVE  DraftInv'
  <2>1. PICK r \in Routes : r = client[c].r
    BY <1>10 DEF DraftInv, SessionInv, Rows, Loaded, WriteBack, At
  <2>2. PICK x : x = IF Up(r) THEN WrittenBack(c, route[r]) ELSE route[r]
    OBVIOUS
  <2>3. /\ lock[r] = NoClient /\ client' = [client EXCEPT ![c] = Idle]
        /\ route' = [route EXCEPT ![r] = x] /\ pending' = [pending EXCEPT ![r] = x]
        /\ UNCHANGED <<lock, session>>
        /\ stale' = IF x # route[r] THEN stale \cup {r} ELSE stale
    BY <1>10, <2>1, <2>2 DEF WriteBack
  <2>4. x \in Row
    BY <1>0, <2>3 DEF SessionInv, Rows
  <2>5. \A d \in Clients : client'[d] = client[d] \/ client'[d].pc = "idle"
    BY <1>0, <2>3, IdleRequest
  <2>6. QED
    BY <1>0, <2>3, <2>4, <2>5, SetKeepsDrafts
<1>11. ASSUME NEW r \in Routes, NEW st \in RouteStatuses, SetRouteStatus(r, st)
       PROVE  DraftInv'
  <2>1. PICK x : /\ x = IF st = "archived" THEN Stripped(route[r])
                        ELSE [route[r] EXCEPT !.status = st]
                 /\ SetRoute(r, x)
    BY <1>11 DEF SetRouteStatus
  <2>2. st \in {"active", "flagged", "archived"}
    BY SettingSessionAssumption
  <2>3. x.status # "draft" /\ x \in Row
    BY <1>0, <2>1, <2>2 DEF Stripped, Archived, Row
  <2>4. QED
    BY <1>0, <2>1, <2>3, SetKeepsDrafts DEF SetRoute
<1>12. ASSUME NEW r \in Routes, DeleteSessionRoute(r)
       PROVE  DraftInv'
  <2>1. PICK x : /\ x = [route[r] EXCEPT !.status = "deleted", !.session = NoSession]
                 /\ SetRoute(r, x)
    BY <1>12 DEF DeleteSessionRoute
  <2>2. x.status # "draft" /\ x \in Row
    BY <1>0, <2>1 DEF Row
  <2>3. QED
    BY <1>0, <2>1, <2>2, SetKeepsDrafts DEF SetRoute
<1>13. CASE \/ \E s \in Sessions : \/ \E st \in NewStatuses : SetSessionStatus(s, st)
                                   \/ \E t \in Walls \cup Routes :
                                         \/ AddStripTarget(s, t)
                                         \/ RemoveStripTarget(s, t)
            \/ UNCHANGED vars
  <2>1. UNCHANGED <<route, pending, lock, client, stale>>
    BY <1>13 DEF SetSessionStatus, AddStripTarget, RemoveStripTarget, vars
  <2>2. \A s \in Sessions : Live(s) => session'[s] # "gone"
    BY <1>13, SettingSessionAssumption
       DEF SetSessionStatus, AddStripTarget, RemoveStripTarget, vars, Live,
           DraftInv, Types
  <2>3. PendingHolds' /\ DeletionSweeps' /\ Added'
    BY <2>1 DEF DraftInv, PendingHolds, DeletionSweeps, Added, View
  <2>4. SessionsLive'
    BY <2>1, <2>2 DEF DraftInv, SessionInv, SessionHeld, SessionsLive, Live
  <2>5. DraftsHaveSession'
    BY <1>0, <2>1, <2>2 DEF DraftInv, DraftsHaveSession, Live, Row
  <2>6. QED
    BY <1>0, <2>3, <2>4, <2>5 DEF DraftInv
<1>14. QED
  BY <1>1, <1>2, <1>3, <1>4, <1>5, <1>6, <1>7, <1>8, <1>9, <1>10, <1>11, <1>12,
     <1>13 DEF Next

\* Deleting a session takes its drafts with it, those that are added meanwhile
\* included, whatever is published, stripped, edited and rolled back at the same
\* time (Delete, AddRoute); and an archived route has its date.
THEOREM SessionsAreLeftInOrder == Spec => []RoutesAreInOrder
<1>1. DraftInv => RoutesAreInOrder
  <2> SUFFICES ASSUME DraftInv
               PROVE  RoutesAreInOrder
    OBVIOUS
  <2>1. TypeOK
    BY DEF DraftInv, Types, SessionInv, Rows, SessionHeld, PendingHolds, TypeOK,
           Request
  <2>2. ArchivedIsDated
    BY DEF DraftInv, SessionInv, AllDated, Dated, ArchivedIsDated
  <2>3. QED
    BY <2>1, <2>2 DEF DraftInv, RoutesAreInOrder
<1>2. QED
  BY <1>1, DraftInvInit, DraftInvStep, PTL DEF Spec
-----------------------------------------------------------------------------
(* What is never undone. *)

\* A transaction works on rows that exist and keeps their dates, a route that
\* is yet to come has none, and a form shows a route that exists.
DatesCarry ==
    /\ \A r \in Routes :
          /\ route[r].dated = "yes" => pending[r].dated = "yes"
          /\ lock[r] # NoClient => pending[r].status # "absent"
          /\ route[r].status = "absent" => route[r].dated = "no"
    /\ \A c \in Clients : client[c].seen # "absent"

\* The body of OnlyStaleEditsUndo.
Kept ==
    \A r \in Routes \ stale' :
        /\ route[r].status = "active" => route'[r].status # "draft"
        /\ route[r].dated = "yes" => route'[r].dated = "yes"

\* A row version that follows another one without undoing it.
Carries(x, y) == /\ x.dated = "yes" => y.dated = "yes"
                 /\ y.status # "absent"

\* A step that leaves the rows and their locks alone.
LEMMA QuietKeeps ==
    ASSUME DraftInv, DatesCarry, UNCHANGED <<route, pending, lock>>,
           \A c \in Clients : client'[c].seen # "absent"
    PROVE  DatesCarry' /\ Kept
  BY DEF DatesCarry, Kept

\* A statement keeps what it does not change.
LEMMA LockRowKeeps ==
    ASSUME DraftInv, DatesCarry, NEW c \in Clients, NEW r \in Routes, LockRow(c, r)
    PROVE  DatesCarry' /\ Kept
<1>1. PICK p \in Statements, m \in BOOLEAN :
         /\ p = client[c].pc
         /\ m <=> Matches(p, client[c].s, r, View(c, r))
         /\ lock[r] \in {c, NoClient}
         /\ lock' = [lock EXCEPT ![r] = IF m THEN c ELSE @]
         /\ pending' = [pending EXCEPT ![r] = IF m THEN Changed(p, View(c, r)) ELSE @]
         /\ client' = [client EXCEPT ![c].todo = @ \ {r},
                                     ![c].swept = IF m /\ p = "strip walls"
                                                  THEN @ \cup {r} ELSE @]
         /\ UNCHANGED <<route, session, stale>>
  <2>1. Matches(client[c].pc, client[c].s, r, View(c, r)) \in BOOLEAN
    BY DEF Matches
  <2>2. QED
    BY <2>1 DEF LockRow
<1>2. /\ client \in [Clients -> Request] /\ client[c] \in Request
      /\ pending \in [Routes -> Row] /\ lock \in [Routes -> Clients \cup {NoClient}]
      /\ View(c, r) \in Row
  BY DEF DraftInv, SessionInv, Rows, Types, View
<1>3. \A d \in Clients : client'[d].seen = client[d].seen
  BY <1>1, <1>2 DEF Request
<1>4. m => View(c, r).status # "absent"
  BY <1>1 DEF Matches, Statements
<1>5. m => Carries(View(c, r), Changed(p, View(c, r)))
  BY <1>2, <1>4 DEF Changed, Stripped, Archived, Row, Carries, Statements
<1>6. route[r].dated = "yes" => View(c, r).dated = "yes"
  BY DEF DatesCarry, View
<1>7. /\ m => pending'[r] = Changed(p, View(c, r))
      /\ ~m => pending'[r] = pending[r] /\ lock'[r] = lock[r]
      /\ \A k \in Routes \ {r} : pending'[k] = pending[k] /\ lock'[k] = lock[k]
  BY <1>1, <1>2
<1>8. DatesCarry'
  <2>1. m => /\ pending'[r].status # "absent"
             /\ route[r].dated = "yes" => pending'[r].dated = "yes"
    BY <1>5, <1>6, <1>7 DEF Carries
  <2>2. \A k \in Routes : /\ route[k].dated = "yes" => pending'[k].dated = "yes"
                          /\ lock'[k] # NoClient => pending'[k].status # "absent"
    BY <1>7, <2>1 DEF DatesCarry
  <2>3. route' = route
    BY <1>1
  <2>4. \A k \in Routes : /\ route'[k].dated = "yes" => pending'[k].dated = "yes"
                          /\ lock'[k] # NoClient => pending'[k].status # "absent"
                          /\ route'[k].status = "absent" => route'[k].dated = "no"
    BY <2>2, <2>3 DEF DatesCarry
  <2>5. \A d \in Clients : client'[d].seen # "absent"
    BY <1>3 DEF DatesCarry
  <2>6. QED
    BY <2>4, <2>5 DEF DatesCarry
<1>9. Kept
  BY <1>1 DEF Kept
<1>10. QED
  BY <1>8, <1>9

\* A transaction commits what it made of its rows, or nothing.
LEMMA ReleaseKeeps ==
    ASSUME DraftInv, DatesCarry, NEW c \in Clients,
           NEW committed \in {Outcome(c), route}, Release(c, committed),
           UNCHANGED stale
    PROVE  DatesCarry' /\ Kept
<1>1. /\ route' = committed /\ client' = [client EXCEPT ![c] = Idle]
      /\ pending' = [r \in Routes |-> IF lock[r] = c THEN committed[r] ELSE pending[r]]
      /\ lock' = [r \in Routes |-> IF lock[r] = c THEN NoClient ELSE lock[r]]
  BY DEF Release
<1>2. c # NoClient /\ client \in [Clients -> Request]
  BY SettingSessionAssumption DEF DraftInv, SessionInv, Rows
<1>3. \A r \in Routes : /\ lock[r] # c => committed[r] = route[r]
                        /\ lock[r] = c => committed[r] \in {pending[r], route[r]}
  BY DEF Outcome, View
<1>4. \A d \in Clients : client'[d].seen # "absent"
  BY <1>1, <1>2, IdleRequest DEF DatesCarry
<1>5. DatesCarry'
  BY <1>1, <1>2, <1>3, <1>4 DEF DatesCarry
<1>6. Kept
  BY <1>1, <1>2, <1>3 DEF Kept, DatesCarry, DraftInv, PendingHolds
<1>7. QED
  BY <1>5, <1>6

\* A single statement changes a route nobody has locked.
LEMMA SetKeeps ==
    ASSUME DraftInv, DatesCarry, NEW r \in Routes, NEW x, lock[r] = NoClient,
           route' = [route EXCEPT ![r] = x], pending' = [pending EXCEPT ![r] = x],
           UNCHANGED lock, \A c \in Clients : client'[c].seen # "absent",
           x.status = "absent" => x.dated = "no",
           r \notin stale' => \/ x = route[r]
                              \/ Carries(route[r], x) /\ x.status # "draft"
                              \/ route[r].status = "absent"
    PROVE  DatesCarry' /\ Kept
<1>1. /\ route \in [Routes -> Row] /\ pending \in [Routes -> Row]
  BY DEF DraftInv, SessionInv, Rows
<1>2. route'[r] = x /\ pending'[r] = x
      /\ \A k \in Routes \ {r} : route'[k] = route[k] /\ pending'[k] = pending[k]
  BY <1>1
<1>3. DatesCarry'
  BY <1>2 DEF DatesCarry
<1>4. Kept
  BY <1>2 DEF Kept, DatesCarry, Carries
<1>5. QED
  BY <1>3, <1>4

\* No step undoes anything.
LEMMA KeptStep == DraftInv /\ DatesCarry /\ [Next]_vars => DatesCarry' /\ Kept
<1> SUFFICES ASSUME DraftInv, DatesCarry, [Next]_vars
             PROVE  DatesCarry' /\ Kept
  OBVIOUS
<1>0. /\ route \in [Routes -> Row] /\ client \in [Clients -> Request]
  BY DEF DraftInv, SessionInv, Rows
<1>1. ASSUME NEW c \in Clients, NEW s, NEW p, Start(c, s, p),
             UNCHANGED <<route, pending, lock>>
      PROVE  DatesCarry' /\ Kept
  <2>1. PICK next, mine : client' = [client EXCEPT ![c] =
           [client[c] EXCEPT !.pc = next, !.s = s, !.todo = mine]]
    BY <1>1 DEF Start
  <2>2. client[c] \in Request
    BY <1>0
  <2>3. \A d \in Clients : client'[d].seen # "absent"
    BY <1>0, <2>1, <2>2 DEF Request, DatesCarry
  <2>4. QED
    BY <1>1, <2>3, QuietKeeps
<1>2. ASSUME NEW c \in Clients,
              \/ NextStatement(c)
              \/ \E s \in Sessions : LockForPublish(c, s) \/ LockForDelete(c, s)
       PROVE  DatesCarry' /\ Kept
  BY <1>1, <1>2 DEF NextStatement, LockForPublish, LockForDelete
<1>3. ASSUME NEW c \in Clients,
              \/ \E s \in Sessions : CheckOpen(c, s)
              \/ \E r \in Routes : ReadForEdit(c, r)
       PROVE  DatesCarry' /\ Kept
  <2>1. PICK q : /\ client' = [client EXCEPT ![c] = q] /\ q.seen # "absent"
                 /\ UNCHANGED <<route, pending, lock>>
    <3>1. CASE \E s \in Sessions : CheckOpen(c, s)
      <4>1. PICK s \in Sessions : CheckOpen(c, s)
        BY <3>1
      <4>2. PICK q : q = [Idle EXCEPT !.pc = "add", !.s = s]
        OBVIOUS
      <4>3. q.seen = "none"
        BY <4>2 DEF Idle
      <4>4. client' = [client EXCEPT ![c] = q] /\ UNCHANGED <<route, pending, lock>>
        BY <4>1, <4>2 DEF CheckOpen
      <4>5. QED
        BY <4>3, <4>4
    <3>2. CASE \E r \in Routes : ReadForEdit(c, r)
      <4>1. PICK r \in Routes : ReadForEdit(c, r)
        BY <3>2
      <4>2. PICK q : q = [Idle EXCEPT !.pc = "edit", !.r = r, !.seen = route[r].status,
                                      !.dated = route[r].dated]
        OBVIOUS
      <4>3. q.seen = route[r].status
        BY <4>2 DEF Idle
      <4>4. client' = [client EXCEPT ![c] = q] /\ UNCHANGED <<route, pending, lock>>
        BY <4>1, <4>2 DEF ReadForEdit
      <4>5. QED
        BY <4>1, <4>3, <4>4 DEF ReadForEdit, Up
    <3>3. QED
      BY <1>3, <3>1, <3>2
  <2>2. \A d \in Clients : client'[d].seen # "absent"
    BY <1>0, <2>1 DEF DatesCarry
  <2>3. QED
    BY <2>1, <2>2, QuietKeeps
<1>4. ASSUME NEW c \in Clients, NEW r \in Routes, LockRow(c, r)
      PROVE  DatesCarry' /\ Kept
  BY <1>4, LockRowKeeps
<1>5. ASSUME NEW c \in Clients, NEW r \in Routes, InsertDraft(c, r)
      PROVE  DatesCarry' /\ Kept
  <2>1. PICK x : x = [status |-> "draft", session |-> client[c].s, dated |-> "no"]
    OBVIOUS
  <2>2. /\ \/ UNCHANGED <<route, pending>>
           \/ /\ route' = [route EXCEPT ![r] = x]
              /\ pending' = [pending EXCEPT ![r] = x]
        /\ client' = [client EXCEPT ![c] = Idle] /\ UNCHANGED <<lock, stale>>
        /\ route[r].status = "absent"
    BY <1>5, <2>1 DEF InsertDraft
  <2>3. lock[r] = NoClient /\ x.status # "absent"
    BY <2>1, <2>2 DEF DraftInv, PendingHolds
  <2>4. \A d \in Clients : client'[d].seen # "absent"
    BY <1>0, <2>2, IdleRequest DEF DatesCarry
  <2>5. QED
    BY <2>2, <2>3, <2>4, QuietKeeps, SetKeeps
<1>6. ASSUME NEW c \in Clients, CommitPublish(c) \/ CommitDelete(c) \/ Abort(c)
      PROVE  DatesCarry' /\ Kept
  BY <1>6, ReleaseKeeps DEF CommitPublish, CommitDelete, Abort
<1>7. ASSUME NEW c \in Clients, WriteBack(c)
      PROVE  DatesCarry' /\ Kept
  <2>1. PICK r \in Routes : r = client[c].r
    BY <1>7 DEF DraftInv, SessionInv, Rows, Loaded, WriteBack, At
  <2>2. PICK x : x = IF Up(r) THEN WrittenBack(c, route[r]) ELSE route[r]
    OBVIOUS
  <2>3. /\ lock[r] = NoClient /\ client' = [client EXCEPT ![c] = Idle]
        /\ route' = [route EXCEPT ![r] = x] /\ pending' = [pending EXCEPT ![r] = x]
        /\ UNCHANGED lock
        /\ stale' = IF x # route[r] THEN stale \cup {r} ELSE stale
    BY <1>7, <2>1, <2>2 DEF WriteBack
  <2>4. x.status = "absent" => x.dated = "no"
    BY <1>0, <2>2 DEF WrittenBack, DatesCarry, Row
  <2>5. \A d \in Clients : client'[d].seen # "absent"
    BY <1>0, <2>3, IdleRequest DEF DatesCarry
  <2>6. QED
    BY <2>3, <2>4, <2>5, SetKeeps
<1>8. ASSUME NEW r \in Routes, NEW st \in RouteStatuses, SetRouteStatus(r, st)
      PROVE  DatesCarry' /\ Kept
  <2>1. PICK x : /\ x = IF st = "archived" THEN Stripped(route[r])
                        ELSE [route[r] EXCEPT !.status = st]
                 /\ SetRoute(r, x)
    BY <1>8 DEF SetRouteStatus
  <2>2. st \in {"active", "flagged", "archived"}
    BY SettingSessionAssumption
  <2>3. Carries(route[r], x) /\ x.status # "draft"
    BY <1>0, <2>1, <2>2 DEF Stripped, Archived, Row, Carries
  <2>4. QED
    BY <2>1, <2>3, SetKeeps DEF SetRoute, Carries, DatesCarry
<1>9. ASSUME NEW r \in Routes, DeleteSessionRoute(r)
      PROVE  DatesCarry' /\ Kept
  <2>1. PICK x : /\ x = [route[r] EXCEPT !.status = "deleted", !.session = NoSession]
                 /\ SetRoute(r, x)
    BY <1>9 DEF DeleteSessionRoute
  <2>2. Carries(route[r], x) /\ x.status # "draft"
    BY <1>0, <2>1 DEF Row, Carries
  <2>3. QED
    BY <2>1, <2>2, SetKeeps DEF SetRoute, Carries, DatesCarry
<1>10. CASE \/ \E s \in Sessions : \/ \E st \in NewStatuses : SetSessionStatus(s, st)
                                  \/ \E t \in Walls \cup Routes :
                                        \/ AddStripTarget(s, t)
                                        \/ RemoveStripTarget(s, t)
           \/ UNCHANGED vars
  <2>1. UNCHANGED <<route, pending, lock, client>>
    BY <1>10 DEF SetSessionStatus, AddStripTarget, RemoveStripTarget, vars
  <2>2. QED
    BY <2>1, QuietKeeps DEF DatesCarry
<1>11. QED
  BY <1>2, <1>3, <1>4, <1>5, <1>6, <1>7, <1>8, <1>9, <1>10 DEF Next

\* Nothing that publishes, strips, deletes or changes a status turns a published
\* route into a draft or loses the date of its first strip; only a form that
\* writes back what it loaded before another change does (RouteRepo.Update).
THEOREM NothingElseUndoes == Spec => OnlyStaleEditsUndo
<1>1. Init => DatesCarry
  BY IdleRequest DEF Init, DatesCarry
<1>2. DraftInv /\ DatesCarry /\ [Next]_vars => DraftInv' /\ DatesCarry'
  BY DraftInvStep, KeptStep
<1>3. DraftInv /\ DatesCarry /\ [Next]_vars => [Kept]_vars
  BY KeptStep
<1>4. Spec => [][Kept]_vars
  BY <1>1, <1>2, <1>3, DraftInvInit, PTL DEF Spec
<1>5. QED
  BY <1>4 DEF OnlyStaleEditsUndo, Kept
-----------------------------------------------------------------------------
(* What a session put up stays up. *)

Publishing == {"strip walls", "strip routes", "activate", "complete"}

\* What a session published is what it published last: the row belongs to no
\* other session, and the session is complete, gone or was reopened.
Published ==
    \A r \in Routes : fresh[r] # NoSession =>
        /\ route[r].status # "absent"
        /\ route[r].session \in {fresh[r], NoSession}
        /\ pending[r].session \in {fresh[r], NoSession}
        /\ session[fresh[r]] \in {"complete", "gone"} \/ fresh[r] \in reopened

\* A session that is being published is not complete, and a route that it is
\* putting up is its own.
PublishesOwn ==
    \A c \in Clients : client[c].pc \in Publishing =>
        /\ session[client[c].s] # "complete"
        /\ \A r \in Routes : lock[r] = c /\ pending[r].status = "active"
                             => pending[r].session = client[c].s

\* Only a transaction holds rows; what it has swept off the walls was up when it
\* came and is down for it, and at first it holds nothing else.
SweptBy(c, r) == /\ lock[r] = c
                 /\ route[r].status = "active"
                 /\ pending[r].status = "archived"

SweepsFrom(c) ==
    /\ client[c].pc \notin Publishing => client[c].swept = {}
    /\ \A r \in Routes : lock[r] = c =>
          /\ client[c].pc \in InTransaction
          /\ client[c].pc = "strip walls" => r \in client[c].swept

Sweeping == \A c \in Clients : SweepsFrom(c) /\ \A r \in client[c].swept : SweptBy(c, r)

Survival == Published /\ PublishesOwn /\ Sweeping /\ FreshRoutesSurvive

PublishInv == DraftInv /\ DatesCarry /\ Survival

\* The steps of a publish are the ones of a transaction.
LEMMA PublishingIs ==
    /\ Publishing \subseteq InTransaction
    /\ \A p \in Statements \cup {"lock publish", "lock delete"} :
          /\ Following(p) \in InTransaction
          /\ Following(p) \in Publishing => p \in Publishing \cup {"lock publish"}
          /\ Following(p) = "strip walls" => p = "lock publish"
          /\ p \in Publishing \cup {"lock publish"} => Following(p) \in Publishing
  BY DEF Publishing, InTransaction, Statements, Following

\* Nothing is published at the start.
LEMMA SurvivalInit == Init => Survival
<1> SUFFICES ASSUME Init
             PROVE  Survival
  OBVIOUS
<1>1. \A c \in Clients : client[c].pc = "idle" /\ client[c].swept = {}
  BY DEF Init, Idle
<1>2. \A r \in Routes : fresh[r] = NoSession /\ \A c \in Clients : lock[r] # c
  BY SettingSessionAssumption DEF Init
<1>3. caught = {}
  BY DEF Init
<1>4. \A c \in Clients : client[c].pc \notin Publishing
  BY <1>1 DEF Publishing
<1>5. QED
  BY <1>1, <1>2, <1>3, <1>4
     DEF Survival, Published, PublishesOwn, Sweeping, SweepsFrom, SweptBy, FreshRoutesSurvive

\* What is swept stays so while nobody moves.
LEMMA SweepingStays ==
    ASSUME Sweeping, UNCHANGED <<route, pending, lock, client>>
    PROVE  Sweeping'
<1> SUFFICES ASSUME NEW d \in Clients
             PROVE  SweepsFrom(d)' /\ \A k \in client'[d].swept : SweptBy(d, k)'
  BY DEF Sweeping
<1>1. SweepsFrom(d)'
  BY DEF Sweeping, SweepsFrom
<1>2. \A k \in client'[d].swept : SweptBy(d, k)'
  BY DEF Sweeping, SweptBy
<1>3. QED
  BY <1>1, <1>2

\* A step of one request that leaves the rows and the sessions alone.
LEMMA SurvivalMoves ==
    ASSUME DraftInv, Survival, NEW c \in Clients,
           UNCHANGED <<route, pending, lock, session, fresh, caught, reopened>>,
           \A d \in Clients \ {c} : client'[d] = client[d],
           client'[c].swept = client[c].swept \/ client'[c].swept = {},
           client'[c].pc \in Publishing =>
              /\ session[client'[c].s] # "complete"
              /\ \A r \in Routes : lock[r] = c /\ pending[r].status = "active"
                                   => pending[r].session = client'[c].s,
           client'[c].pc \notin Publishing => client'[c].swept = {},
           \A r \in Routes : lock[r] = c =>
              /\ client'[c].pc \in InTransaction
              /\ client'[c].pc = "strip walls" => r \in client'[c].swept
    PROVE  Survival'
<1>1. Published' /\ FreshRoutesSurvive'
  BY DEF Survival, Published, FreshRoutesSurvive
<1>2. PublishesOwn'
  <2> SUFFICES ASSUME NEW d \in Clients, client'[d].pc \in Publishing
               PROVE  /\ session'[client'[d].s] # "complete"
                      /\ \A k \in Routes : lock'[k] = d /\ pending'[k].status = "active"
                                           => pending'[k].session = client'[d].s
    BY DEF PublishesOwn
  <2>1. CASE d = c
    BY <2>1
  <2>2. CASE d # c
    <3>1. /\ client'[d] = client[d] /\ session' = session /\ lock' = lock
          /\ pending' = pending
      BY <2>2
    <3>2. /\ session[client[d].s] # "complete"
          /\ \A k \in Routes : lock[k] = d /\ pending[k].status = "active"
                               => pending[k].session = client[d].s
      BY <3>1 DEF Survival, PublishesOwn
    <3>3. QED
      BY <3>1, <3>2
  <2>3. QED
    BY <2>1, <2>2
<1>3. Sweeping'
  <2> SUFFICES ASSUME NEW d \in Clients
               PROVE  /\ client'[d].pc \notin Publishing => client'[d].swept = {}
                      /\ \A k \in client'[d].swept : /\ lock'[k] = d
                                                     /\ route'[k].status = "active"
                                                     /\ pending'[k].status = "archived"
                      /\ \A k \in Routes : lock'[k] = d =>
                            /\ client'[d].pc \in InTransaction
                            /\ client'[d].pc = "strip walls" => k \in client'[d].swept
    BY DEF Sweeping, SweptBy, SweepsFrom
  <2>1. ASSUME NEW k \in client'[d].swept
        PROVE  /\ lock'[k] = d
               /\ route'[k].status = "active"
               /\ pending'[k].status = "archived"
    <3>1. k \in client[d].swept
      OBVIOUS
    <3>2. SweptBy(d, k)
      BY <3>1 DEF Survival, Sweeping
    <3>3. QED
      BY <3>2 DEF SweptBy
  <2>2. \A k \in client'[d].swept : /\ lock'[k] = d
                                    /\ route'[k].status = "active"
                                    /\ pending'[k].status = "archived"
    BY <2>1
  <2>3. CASE d = c
    BY <2>2, <2>3
  <2>4. CASE d # c
    <3>1. client'[d] = client[d] /\ lock' = lock
      BY <2>4
    <3>2. SweepsFrom(d)
      BY DEF Survival, Sweeping
    <3>3. QED
      BY <2>2, <3>1, <3>2 DEF SweepsFrom
  <2>5. QED
    BY <2>3, <2>4
<1>4. QED
  BY <1>1, <1>2, <1>3 DEF Survival

\* A single statement changes a route nobody has locked, and gives it to no
\* other session.
LEMMA SetSurvives ==
    ASSUME DraftInv, Survival, NEW r \in Routes, NEW x, lock[r] = NoClient,
           route' = [route EXCEPT ![r] = x], pending' = [pending EXCEPT ![r] = x],
           UNCHANGED <<lock, session, fresh, caught, reopened>>,
           fresh[r] # NoSession => /\ x.status # "absent"
                                   /\ x.session \in {fresh[r], NoSession},
           \A d \in Clients : \/ client'[d] = client[d]
                              \/ /\ client'[d] = Idle
                                 /\ client[d].pc \notin InTransaction
    PROVE  Survival'
<1>1. /\ route \in [Routes -> Row] /\ pending \in [Routes -> Row]
      /\ \A d \in Clients : lock[r] # d
  BY SettingSessionAssumption DEF DraftInv, SessionInv, Rows
<1>2. route'[r] = x /\ pending'[r] = x
      /\ \A k \in Routes \ {r} : route'[k] = route[k] /\ pending'[k] = pending[k]
  BY <1>1
<1>3. /\ Idle.pc \notin Publishing /\ Idle.swept = {}
  BY DEF Idle, Publishing
<1>4. Published' /\ FreshRoutesSurvive'
  BY <1>2 DEF Survival, Published, FreshRoutesSurvive
<1>5. PublishesOwn'
  BY <1>1, <1>2, <1>3 DEF Survival, PublishesOwn
<1>6. Sweeping'
  <2> SUFFICES ASSUME NEW d \in Clients
               PROVE  /\ client'[d].pc \notin Publishing => client'[d].swept = {}
                      /\ \A k \in client'[d].swept : /\ lock'[k] = d
                                                     /\ route'[k].status = "active"
                                                     /\ pending'[k].status = "archived"
                      /\ \A k \in Routes : lock'[k] = d =>
                            /\ client'[d].pc \in InTransaction
                            /\ client'[d].pc = "strip walls" => k \in client'[d].swept
    BY DEF Sweeping, SweptBy, SweepsFrom
  <2>1. CASE client'[d] = Idle /\ client[d].pc \notin InTransaction
    <3>1. SweepsFrom(d)
      BY DEF Survival, Sweeping
    <3>2. \A k \in Routes : lock'[k] # d
      BY <2>1, <3>1 DEF SweepsFrom
    <3>3. QED
      BY <1>3, <2>1, <3>2
  <2>2. CASE client'[d] = client[d]
    <3>1. client[d].swept \subseteq Routes
      BY DEF DraftInv, SessionInv, Rows, Request
    <3>2. ASSUME NEW k \in client[d].swept
          PROVE  /\ lock'[k] = d /\ route'[k].status = "active"
                 /\ pending'[k].status = "archived"
      <4>1. k \in Routes /\ SweptBy(d, k)
        BY <3>1 DEF Survival, Sweeping
      <4>2. k # r
        BY <1>1, <4>1 DEF SweptBy
      <4>3. lock' = lock
        OBVIOUS
      <4>4. QED
        BY <1>2, <4>1, <4>2, <4>3 DEF SweptBy
    <3>3. SweepsFrom(d) /\ lock' = lock
      BY DEF Survival, Sweeping
    <3>4. QED
      BY <2>2, <3>2, <3>3 DEF SweepsFrom
  <2>3. QED
    BY <2>1, <2>2
<1>7. QED
  BY <1>4, <1>5, <1>6 DEF Survival

\* A statement takes a row down, puts up a draft of its own session, or lets go
\* of it.
LEMMA LockRowSurvives ==
    ASSUME DraftInv, Survival, NEW c \in Clients, NEW r \in Routes, LockRow(c, r)
    PROVE  Survival'
<1>1. PICK p \in Statements, m \in BOOLEAN :
         /\ p = client[c].pc
         /\ m <=> Matches(p, client[c].s, r, View(c, r))
         /\ lock[r] \in {c, NoClient}
         /\ lock' = [lock EXCEPT ![r] = IF m THEN c ELSE @]
         /\ pending' = [pending EXCEPT ![r] = IF m THEN Changed(p, View(c, r)) ELSE @]
         /\ client' = [client EXCEPT ![c].todo = @ \ {r},
                                     ![c].swept = IF m /\ p = "strip walls"
                                                  THEN @ \cup {r} ELSE @]
         /\ UNCHANGED <<route, session, fresh, caught, reopened>>
  <2>1. Matches(client[c].pc, client[c].s, r, View(c, r)) \in BOOLEAN
    BY DEF Matches
  <2>2. QED
    BY <2>1 DEF LockRow
<1>2. /\ client \in [Clients -> Request] /\ client[c] \in Request
      /\ route \in [Routes -> Row] /\ pending \in [Routes -> Row]
      /\ lock \in [Routes -> Clients \cup {NoClient}] /\ c # NoClient
      /\ View(c, r) \in Row
  BY SettingSessionAssumption DEF DraftInv, SessionInv, Rows, Types, View
<1>3. /\ client'[c].pc = p /\ client'[c].s = client[c].s
      /\ client'[c].swept = IF m /\ p = "strip walls" THEN client[c].swept \cup {r}
                            ELSE client[c].swept
      /\ \A d \in Clients \ {c} : client'[d] = client[d]
  BY <1>1, <1>2 DEF Request
<1>4. /\ \A k \in Routes \ {r} : lock'[k] = lock[k] /\ pending'[k] = pending[k]
      /\ ~m => lock'[r] = lock[r] /\ pending'[r] = pending[r]
      /\ m => lock'[r] = c /\ pending'[r] = Changed(p, View(c, r))
  BY <1>1, <1>2
<1>5. \A d \in Clients \ {c} : lock[r] # d /\ lock'[r] # d
  <2>1. c # NoClient /\ \A d \in Clients : d # NoClient
    BY SettingSessionAssumption
  <2>2. lock[r] \in {c, NoClient} /\ lock'[r] \in {c, lock[r]}
    BY <1>1, <1>4
  <2>3. QED
    BY <2>1, <2>2
<1>6. m => /\ p = "strip walls" => View(c, r).status = "active"
           /\ p = "activate" => View(c, r).status = "draft"
                                /\ View(c, r).session = client[c].s
  BY <1>1 DEF Matches
<1>7. m => /\ p \in {"strip walls", "strip routes"} => pending'[r].status = "archived"
           /\ p = "activate" => pending'[r].session = client[c].s
           /\ pending'[r].session \in {View(c, r).session, NoSession}
  BY <1>2, <1>4, <1>6 DEF Changed, Stripped, Archived, Row, Statements
<1>8. r \in client[c].swept => View(c, r).status = "archived"
  BY DEF Survival, Sweeping, SweptBy, View
<1>9. Published' /\ FreshRoutesSurvive'
  <2>1. fresh[r] # NoSession => pending'[r].session \in {fresh[r], NoSession}
    <3>1. fresh[r] # NoSession => View(c, r).session \in {fresh[r], NoSession}
      BY DEF Survival, Published, View
    <3>2. QED
      BY <1>4, <1>7, <3>1 DEF Survival, Published
  <2>2. FreshRoutesSurvive'
    BY <1>1 DEF Survival, FreshRoutesSurvive
  <2>3. /\ route' = route /\ session' = session /\ fresh' = fresh
        /\ reopened' = reopened
    BY <1>1
  <2>4. Published'
    BY <1>4, <2>1, <2>3 DEF Survival, Published
  <2>5. QED
    BY <2>2, <2>4
<1>10. PublishesOwn'
  <2> SUFFICES ASSUME NEW d \in Clients, client'[d].pc \in Publishing
               PROVE  /\ session'[client'[d].s] # "complete"
                      /\ \A k \in Routes : lock'[k] = d /\ pending'[k].status = "active"
                                           => pending'[k].session = client'[d].s
    BY DEF PublishesOwn
  <2>1. client[d].pc \in Publishing /\ client'[d].s = client[d].s
    BY <1>1, <1>3
  <2>2. session'[client'[d].s] # "complete"
    BY <1>1, <2>1 DEF Survival, PublishesOwn
  <2>3. ASSUME NEW k \in Routes, lock'[k] = d, pending'[k].status = "active"
        PROVE  pending'[k].session = client'[d].s
    <3>1. CASE k # r \/ ~m
      BY <1>4, <2>1, <2>3, <3>1 DEF Survival, PublishesOwn
    <3>2. CASE k = r /\ m
      <4>1. d = c /\ p \in {"strip walls", "strip routes", "activate"}
        BY <1>1, <1>5, <2>1, <2>3, <3>2 DEF Publishing, Statements
      <4>2. QED
        BY <1>7, <2>1, <2>3, <3>2, <4>1
    <3>3. QED
      BY <3>1, <3>2
  <2>4. QED
    BY <2>2, <2>3
<1>11. Sweeping'
  <2> SUFFICES ASSUME NEW d \in Clients
               PROVE  /\ client'[d].pc \notin Publishing => client'[d].swept = {}
                      /\ \A k \in client'[d].swept : /\ lock'[k] = d
                                                     /\ route'[k].status = "active"
                                                     /\ pending'[k].status = "archived"
                      /\ \A k \in Routes : lock'[k] = d =>
                            /\ client'[d].pc \in InTransaction
                            /\ client'[d].pc = "strip walls" => k \in client'[d].swept
    BY DEF Sweeping, SweptBy, SweepsFrom
  <2>1. client[d].swept \subseteq Routes /\ route' = route
    BY <1>1, <1>2 DEF Request
  <2>2. CASE d # c
    <3>1. client'[d] = client[d]
      BY <1>3, <2>2
    <3>2. ASSUME NEW k \in client[d].swept
          PROVE  /\ lock'[k] = d /\ route'[k].status = "active"
                 /\ pending'[k].status = "archived"
      <4>1. k \in Routes /\ SweptBy(d, k)
        BY <2>1 DEF Survival, Sweeping
      <4>2. k # r
        BY <1>5, <2>2, <4>1 DEF SweptBy
      <4>3. QED
        BY <1>4, <2>1, <4>1, <4>2 DEF SweptBy
    <3>3. \A k \in Routes : lock'[k] = d => lock[k] = d
      BY <1>4, <1>5, <2>2
    <3>4. SweepsFrom(d)
      BY DEF Survival, Sweeping
    <3>5. QED
      BY <3>1, <3>2, <3>3, <3>4 DEF SweepsFrom
  <2>3. CASE d = c
    <3>1. client'[c].pc \notin Publishing => client'[c].swept = {}
      BY <1>1, <1>3 DEF Survival, Sweeping, SweepsFrom, Publishing
    <3>2. ASSUME NEW k \in client'[c].swept
          PROVE  lock'[k] = c /\ route[k].status = "active" /\ pending'[k].status = "archived"
      <4>1. CASE m /\ p = "strip walls" /\ k = r
        <5>1. r \notin client[c].swept
          BY <1>6, <1>8, <4>1
        <5>2. View(c, r) = route[r]
          <6>1. SweepsFrom(c)
            BY DEF Survival, Sweeping
          <6>2. lock[r] # c
            BY <1>1, <4>1, <5>1, <6>1 DEF SweepsFrom
          <6>3. QED
            BY <6>2 DEF View
        <5>3. QED
          BY <1>4, <1>6, <1>7, <4>1, <5>2
      <4>2. CASE ~(m /\ p = "strip walls" /\ k = r)
        <5>1. k \in client[c].swept
          BY <1>3, <4>2
        <5>2. lock[k] = c /\ route[k].status = "active" /\ pending[k].status = "archived"
          BY <5>1 DEF Survival, Sweeping, SweepsFrom, SweptBy
        <5>3. p \in Publishing
          BY <1>1, <5>1 DEF Survival, Sweeping, SweepsFrom, SweptBy
        <5>4. CASE k = r /\ m
          <6>1. p \in {"strip walls", "strip routes", "activate"}
            BY <5>3 DEF Publishing, Statements
          <6>2. p # "activate" /\ p # "strip walls"
            BY <1>6, <1>8, <5>1, <5>4
          <6>3. QED
            BY <1>4, <1>7, <5>2, <5>4, <6>1, <6>2
        <5>5. CASE k # r \/ ~m
          BY <1>4, <2>1, <2>3, <5>1, <5>2, <5>5
        <5>6. QED
          BY <5>4, <5>5
      <4>3. QED
        BY <4>1, <4>2
    <3>3. ASSUME NEW k \in Routes, lock'[k] = c
          PROVE  /\ p \in InTransaction
                 /\ p = "strip walls" => k \in client'[c].swept
      <4>1. p \in InTransaction
        BY Transactions
      <4>2. lock[k] = c \/ (k = r /\ m)
        BY <1>4, <3>3
      <4>3. p = "strip walls" => k \in client'[c].swept
        <5>1. p = "strip walls" /\ lock[k] = c => k \in client[c].swept
          BY <1>1 DEF Survival, Sweeping, SweepsFrom, SweptBy
        <5>2. client[c].swept \subseteq client'[c].swept
          BY <1>3
        <5>3. m /\ p = "strip walls" => r \in client'[c].swept
          BY <1>3
        <5>4. QED
          BY <4>2, <5>1, <5>2, <5>3
      <4>4. QED
        BY <4>1, <4>3
    <3>4. QED
      BY <1>3, <2>1, <2>3, <3>1, <3>2, <3>3
  <2>4. QED
    BY <2>2, <2>3
<1>12. QED
  BY <1>9, <1>10, <1>11 DEF Survival

\* A transaction ends: what it took down or put up for its session is so for
\* everybody, and nobody else notices.
LEMMA ReleaseSurvives ==
    ASSUME DraftInv, DatesCarry, Survival, NEW c \in Clients,
           NEW committed \in {Outcome(c), route}, Release(c, committed),
           \A s \in Sessions : session'[s] = session[s] \/ session'[s] = "gone",
           UNCHANGED <<fresh, caught, reopened>>
    PROVE  Survival'
<1>1. /\ route' = committed /\ client' = [client EXCEPT ![c] = Idle]
      /\ pending' = [r \in Routes |-> IF lock[r] = c THEN committed[r] ELSE pending[r]]
      /\ lock' = [r \in Routes |-> IF lock[r] = c THEN NoClient ELSE lock[r]]
  BY DEF Release
<1>2. /\ client \in [Clients -> Request]
      /\ \A d \in Clients : d # NoClient /\ client[d].swept \subseteq Routes
  BY SettingSessionAssumption DEF DraftInv, SessionInv, Rows, Request
<1>3. \A r \in Routes : /\ lock[r] # c => committed[r] = route[r]
                        /\ lock[r] = c => committed[r] \in {pending[r], route[r]}
  BY DEF Outcome, View
<1>4. /\ client'[c] = Idle /\ Idle.pc \notin Publishing /\ Idle.swept = {}
      /\ \A d \in Clients \ {c} : client'[d] = client[d]
  BY <1>1, <1>2 DEF Idle, Publishing
<1>5. ASSUME NEW d \in Clients \ {c}, NEW r \in Routes
      PROVE  /\ lock'[r] = d <=> lock[r] = d
             /\ lock'[r] = d => route'[r] = route[r] /\ pending'[r] = pending[r]
  BY <1>1, <1>2, <1>3
<1>6. \A r \in Routes : lock'[r] # c
  BY <1>1, <1>2
<1>7. Published' /\ FreshRoutesSurvive'
  <2>1. ASSUME NEW r \in Routes, fresh[r] # NoSession
        PROVE  /\ route'[r].status # "absent"
               /\ route'[r].session \in {fresh[r], NoSession}
               /\ pending'[r].session \in {fresh[r], NoSession}
    <3>1. CASE lock[r] = c
      <4>1. /\ route'[r] \in {pending[r], route[r]} /\ pending'[r] = route'[r]
            /\ lock[r] # NoClient
        BY <1>1, <1>2, <1>3, <3>1
      <4>2. pending[r].status # "absent"
        BY <4>1 DEF DatesCarry
      <4>3. QED
        BY <2>1, <4>1, <4>2 DEF Survival, Published
    <3>2. CASE lock[r] # c
      <4>1. route'[r] = route[r] /\ pending'[r] = pending[r]
        BY <1>1, <1>3, <3>2
      <4>2. QED
        BY <2>1, <4>1 DEF Survival, Published
    <3>3. QED
      BY <3>1, <3>2
  <2>2. \A r \in Routes : fresh[r] # NoSession =>
           session'[fresh[r]] \in {"complete", "gone"} \/ fresh[r] \in reopened
    BY DEF Survival, Published, DraftInv, Types
  <2>3. fresh' = fresh /\ reopened' = reopened /\ caught' = caught
    OBVIOUS
  <2>4. QED
    BY <2>1, <2>2, <2>3 DEF Survival, Published, FreshRoutesSurvive
<1>8. PublishesOwn'
  <2> SUFFICES ASSUME NEW d \in Clients, client'[d].pc \in Publishing
               PROVE  /\ session'[client'[d].s] # "complete"
                      /\ \A r \in Routes : lock'[r] = d /\ pending'[r].status = "active"
                                           => pending'[r].session = client'[d].s
    BY DEF PublishesOwn
  <2>1. d # c /\ client'[d] = client[d]
    BY <1>4
  <2>2. client[d].s \in Sessions
    BY <2>1, PublishingIs DEF DraftInv, SessionInv, SessionHeld
  <2>3. session'[client[d].s] # "complete"
    BY <2>1, <2>2 DEF Survival, PublishesOwn
  <2>4. \A r \in Routes : lock'[r] = d /\ pending'[r].status = "active"
                          => pending'[r].session = client'[d].s
    BY <1>5, <2>1 DEF Survival, PublishesOwn
  <2>5. QED
    BY <2>1, <2>3, <2>4
<1>9. Sweeping'
  <2> SUFFICES ASSUME NEW d \in Clients
               PROVE  SweepsFrom(d)' /\ \A r \in client'[d].swept : SweptBy(d, r)'
    BY DEF Sweeping
  <2>1. CASE d = c
    BY <1>4, <1>6, <2>1 DEF SweepsFrom
  <2>2. CASE d # c
    <3>1. client'[d] = client[d] /\ SweepsFrom(d)
      BY <1>4, <2>2 DEF Survival, Sweeping
    <3>2. SweepsFrom(d)'
      BY <1>5, <2>2, <3>1 DEF SweepsFrom
    <3>3. ASSUME NEW r \in client[d].swept
          PROVE  SweptBy(d, r)'
      <4>1. r \in Routes /\ SweptBy(d, r)
        BY <1>2 DEF Survival, Sweeping
      <4>2. QED
        BY <1>5, <2>2, <4>1 DEF SweptBy
    <3>4. QED
      BY <3>1, <3>2, <3>3
  <2>3. QED
    BY <2>1, <2>2
<1>10. QED
  BY <1>7, <1>8, <1>9 DEF Survival

\* A publish commits.  What its wall strip took down was up when it came, so it
\* was none of its drafts; what it put up before, it put up before it was
\* reopened.
LEMMA CommitSurvives ==
    ASSUME DraftInv, DatesCarry, Survival, NEW c \in Clients, CommitPublish(c)
    PROVE  Survival'
<1>1. PICK s \in Sessions : s = client[c].s
  <2>1. client[c].pc \in InTransaction
    BY DEF CommitPublish, At, InTransaction
  <2>2. QED
    BY <2>1 DEF DraftInv, SessionInv, SessionHeld
<1>2. /\ client[c].pc = "complete" /\ client[c].pc \in Publishing
      /\ session' = [session EXCEPT ![s] = "complete"]
      /\ Release(c, Outcome(c)) /\ reopened' = reopened
      /\ fresh' = [r \in Routes |-> IF r \in Held(c) /\ pending[r].status = "active"
                                    THEN s ELSE fresh[r]]
  BY <1>1 DEF CommitPublish, At, Publishing
<1>3. /\ route' = Outcome(c) /\ client' = [client EXCEPT ![c] = Idle]
      /\ pending' = [r \in Routes |-> IF lock[r] = c THEN Outcome(c)[r] ELSE pending[r]]
      /\ lock' = [r \in Routes |-> IF lock[r] = c THEN NoClient ELSE lock[r]]
  BY <1>2 DEF Release
<1>4. /\ client \in [Clients -> Request]
      /\ session \in [Sessions -> {"planning", "in_progress", "complete",
                                   "cancelled", "gone"}]
      /\ \A d \in Clients : d # NoClient /\ client[d].swept \subseteq Routes
      /\ s # NoSession
  BY SettingSessionAssumption DEF DraftInv, SessionInv, Rows, Request, Types
<1>5. \A r \in Routes :
         /\ route'[r] = IF lock[r] = c THEN pending[r] ELSE route[r]
         /\ pending'[r] = IF lock[r] = c THEN pending[r] ELSE pending[r]
         /\ fresh'[r] = IF lock[r] = c /\ pending[r].status = "active" THEN s ELSE fresh[r]
         /\ lock[r] = c => lock[r] # NoClient
  BY <1>2, <1>3, <1>4 DEF Outcome, View, Held
<1>6. \A r \in Routes : lock[r] = c /\ pending[r].status = "active"
                        => pending[r].session = s
  BY <1>1, <1>2 DEF Survival, PublishesOwn
<1>7. session'[s] = "complete" /\ \A t \in Sessions \ {s} : session'[t] = session[t]
  BY <1>2, <1>4
<1>8. /\ client'[c] = Idle /\ Idle.pc \notin Publishing /\ Idle.swept = {}
      /\ \A d \in Clients \ {c} : client'[d] = client[d]
  BY <1>3, <1>4 DEF Idle, Publishing
<1>9. ASSUME NEW d \in Clients \ {c}, NEW r \in Routes
      PROVE  /\ lock'[r] = d <=> lock[r] = d
             /\ lock'[r] = d => route'[r] = route[r] /\ pending'[r] = pending[r]
  BY <1>3, <1>4, <1>5
<1>10. \A r \in Routes : lock'[r] # c
  BY <1>3, <1>4
<1>11. Published'
  <2> SUFFICES ASSUME NEW r \in Routes, fresh'[r] # NoSession
               PROVE  /\ route'[r].status # "absent"
                      /\ route'[r].session \in {fresh'[r], NoSession}
                      /\ pending'[r].session \in {fresh'[r], NoSession}
                      /\ session'[fresh'[r]] \in {"complete", "gone"}
                         \/ fresh'[r] \in reopened'
    BY DEF Published
  <2>1. CASE lock[r] = c /\ pending[r].status = "active"
    BY <1>5, <1>6, <1>7, <2>1
  <2>2. CASE ~(lock[r] = c /\ pending[r].status = "active")
    <3>1. fresh'[r] = fresh[r]
      BY <1>5, <2>2
    <3>2. /\ route[r].status # "absent"
          /\ route[r].session \in {fresh[r], NoSession}
          /\ pending[r].session \in {fresh[r], NoSession}
          /\ session[fresh[r]] \in {"complete", "gone"} \/ fresh[r] \in reopened
      BY <3>1 DEF Survival, Published
    <3>3. lock[r] = c => pending[r].status # "absent"
      BY <1>5 DEF DatesCarry
    <3>4. fresh[r] \in Sessions
      BY <3>1 DEF DraftInv, Types
    <3>5. session'[fresh[r]] \in {"complete", "gone"} \/ fresh[r] \in reopened'
      BY <1>2, <1>7, <3>2, <3>4
    <3>6. QED
      BY <1>5, <3>1, <3>2, <3>3, <3>5
  <2>3. QED
    BY <2>1, <2>2
<1>12. FreshRoutesSurvive'
  <2>1. ASSUME NEW r \in caught
        PROVE  fresh'[r] \in reopened'
    <3>1. fresh[r] \in reopened /\ r \in Routes /\ fresh[r] # NoSession
      BY SettingSessionAssumption DEF Survival, FreshRoutesSurvive, DraftInv, Types
    <3>2. CASE lock[r] = c /\ pending[r].status = "active"
      <4>1. pending[r].session \in {fresh[r], NoSession}
        BY <3>1 DEF Survival, Published
      <4>2. fresh[r] = s
        BY <1>4, <1>6, <3>1, <3>2, <4>1
      <4>3. QED
        BY <1>2, <1>5, <3>1, <3>2, <4>2
    <3>3. CASE ~(lock[r] = c /\ pending[r].status = "active")
      BY <1>2, <1>5, <3>1, <3>3
    <3>4. QED
      BY <3>2, <3>3
  <2>2. ASSUME NEW r \in client[c].swept, fresh[r] = s \/ route[r].status = "draft"
        PROVE  fresh'[r] \in reopened'
    <3>1. r \in Routes /\ SweptBy(c, r)
      BY <1>4 DEF Survival, Sweeping
    <3>2. fresh[r] = s /\ fresh'[r] = s
      BY <1>5, <2>2, <3>1 DEF SweptBy
    <3>3. session[s] \in {"complete", "gone"} \/ s \in reopened
      BY <1>4, <3>1, <3>2 DEF Survival, Published
    <3>4. session[s] # "complete"
      BY <1>1, <1>2 DEF Survival, PublishesOwn
    <3>5. session[s] # "gone"
      BY <1>1, <1>2, PublishingIs DEF DraftInv, SessionsLive, Live
    <3>6. QED
      BY <1>2, <3>2, <3>3, <3>4, <3>5
  <2>3. \A r \in caught' : \/ r \in caught
                           \/ /\ r \in client[c].swept
                              /\ fresh[r] = s \/ route[r].status = "draft"
    BY <1>1 DEF CommitPublish
  <2>4. QED
    BY <2>1, <2>2, <2>3 DEF FreshRoutesSurvive
<1>13. PublishesOwn'
  <2> SUFFICES ASSUME NEW d \in Clients, client'[d].pc \in Publishing
               PROVE  /\ session'[client'[d].s] # "complete"
                      /\ \A r \in Routes : lock'[r] = d /\ pending'[r].status = "active"
                                           => pending'[r].session = client'[d].s
    BY DEF PublishesOwn
  <2>1. d # c /\ client'[d] = client[d]
    BY <1>8
  <2>2. /\ client[d].s \in Sessions /\ sessionLock[client[d].s] = d
        /\ sessionLock[s] = c
    BY <1>1, <1>2, <2>1, PublishingIs DEF DraftInv, SessionInv, SessionHeld
  <2>3. session'[client[d].s] # "complete"
    BY <1>7, <2>1, <2>2 DEF Survival, PublishesOwn
  <2>4. \A r \in Routes : lock'[r] = d /\ pending'[r].status = "active"
                          => pending'[r].session = client'[d].s
    BY <1>9, <2>1 DEF Survival, PublishesOwn
  <2>5. QED
    BY <2>1, <2>3, <2>4
<1>14. Sweeping'
  <2> SUFFICES ASSUME NEW d \in Clients
               PROVE  SweepsFrom(d)' /\ \A r \in client'[d].swept : SweptBy(d, r)'
    BY DEF Sweeping
  <2>1. CASE d = c
    BY <1>8, <1>10, <2>1 DEF SweepsFrom
  <2>2. CASE d # c
    <3>1. client'[d] = client[d] /\ SweepsFrom(d)
      BY <1>8, <2>2 DEF Survival, Sweeping
    <3>2. SweepsFrom(d)'
      BY <1>9, <2>2, <3>1 DEF SweepsFrom
    <3>3. ASSUME NEW r \in client[d].swept
          PROVE  SweptBy(d, r)'
      <4>1. r \in Routes /\ SweptBy(d, r)
        BY <1>4 DEF Survival, Sweeping
      <4>2. QED
        BY <1>9, <2>2, <4>1 DEF SweptBy
    <3>4. QED
      BY <3>1, <3>2, <3>3
  <2>3. QED
    BY <2>1, <2>2
<1>15. QED
  BY <1>11, <1>12, <1>13, <1>14 DEF Survival

\* Every step keeps what a session put up.
LEMMA SurvivalStep ==
    DraftInv /\ DatesCarry /\ Survival /\ [Next]_vars => Survival'
<1> SUFFICES ASSUME DraftInv, DatesCarry, Survival, [Next]_vars
             PROVE  Survival'
  OBVIOUS
<1>0. /\ route \in [Routes -> Row] /\ pending \in [Routes -> Row]
      /\ client \in [Clients -> Request]
  BY DEF DraftInv, SessionInv, Rows
<1>1. ASSUME NEW c \in Clients, NEW s \in Sessions,
             NEW p \in Statements \cup {"lock publish", "lock delete"},
             Start(c, s, p), session[s] # "complete" \/ p # "lock publish",
             p \notin Statements => client[c].pc = "idle",
             p \in Statements => client[c].pc = p /\ client[c].s = s,
             UNCHANGED <<route, pending, lock, session, fresh, caught, reopened>>
      PROVE  Survival'
  <2>1. PICK next, mine : /\ next = Following(p)
                          /\ client' = [client EXCEPT ![c] =
                                [client[c] EXCEPT !.pc = next, !.s = s, !.todo = mine]]
    BY <1>1 DEF Start
  <2>2. /\ client'[c].pc = next /\ client'[c].s = s
        /\ client'[c].swept = client[c].swept
        /\ \A d \in Clients \ {c} : client'[d] = client[d]
    BY <1>0, <2>1 DEF Request
  <2>3. client[c].pc \in Publishing => session[s] # "complete"
    BY <1>1, Transactions DEF Survival, PublishesOwn, Publishing
  <2>4. next \in InTransaction /\ ("idle" \notin InTransaction)
        /\ ("idle" \notin Publishing)
    BY <2>1, PublishingIs, Transactions DEF Publishing
  <2>5. next \in Publishing => session[s] # "complete"
    <3>1. CASE p = "lock publish"
      BY <1>1, <3>1
    <3>2. CASE p # "lock publish"
      <4>1. next \in Publishing => p \in Publishing
        BY <2>1, <3>2, PublishingIs
      <4>2. p \in Publishing => p \in Statements
        BY DEF Publishing, Statements
      <4>3. QED
        BY <1>1, <2>3, <4>1, <4>2
    <3>3. QED
      BY <3>1, <3>2
  <2>6. next \in Publishing => \A r \in Routes :
           lock[r] = c /\ pending[r].status = "active" => pending[r].session = s
    <3>1. CASE p \in Statements
      BY <1>1, <2>1, <3>1, PublishingIs DEF Survival, PublishesOwn, Statements
    <3>2. CASE p \notin Statements
      BY <1>1, <2>4, <3>2 DEF Survival, Sweeping, SweepsFrom
    <3>3. QED
      BY <3>1, <3>2
  <2>7. next \notin Publishing => client[c].swept = {}
    BY <1>1, <2>1, <2>4, PublishingIs DEF Survival, Sweeping, SweepsFrom
  <2>8. \A r \in Routes : lock[r] = c => next # "strip walls"
    BY <1>1, <2>1, <2>4, PublishingIs DEF Survival, Sweeping, SweepsFrom, Statements
  <2>9. QED
    BY <1>1, <2>2, <2>4, <2>5, <2>6, <2>7, <2>8, SurvivalMoves
<1>2. ASSUME NEW c \in Clients, NEW s \in Sessions,
             LockForPublish(c, s) \/ LockForDelete(c, s)
      PROVE  Survival'
  <2>1. PICK p \in {"lock publish", "lock delete"} :
           /\ Start(c, s, p)
           /\ session[s] # "complete" \/ p # "lock publish"
           /\ client[c].pc = "idle"
           /\ UNCHANGED <<route, pending, lock, session, fresh, caught, reopened>>
    BY <1>2 DEF LockForPublish, LockForDelete, MayPublish, At
  <2>2. p \notin Statements
    BY DEF Statements
  <2>3. QED
    BY <1>1, <2>1, <2>2
<1>3. ASSUME NEW c \in Clients, NextStatement(c)
      PROVE  Survival'
  <2>1. /\ client[c].pc \in Statements /\ Start(c, client[c].s, client[c].pc)
        /\ UNCHANGED <<route, pending, lock, session, fresh, caught, reopened>>
    BY <1>3 DEF NextStatement
  <2>2. client[c].s \in Sessions /\ client[c].pc # "lock publish"
    BY <2>1, Transactions DEF DraftInv, SessionInv, SessionHeld, Statements
  <2>3. QED
    BY <1>1, <2>1, <2>2
<1>4. ASSUME NEW c \in Clients,
             \/ \E s \in Sessions : CheckOpen(c, s)
             \/ \E r \in Routes : ReadForEdit(c, r)
      PROVE  Survival'
  <2>1. PICK q : /\ client' = [client EXCEPT ![c] = q] /\ q.pc \notin Publishing
                 /\ q.swept = {} /\ client[c].pc = "idle"
                 /\ UNCHANGED <<route, pending, lock, session, fresh, caught, reopened>>
    <3>1. CASE \E s \in Sessions : CheckOpen(c, s)
      <4>1. PICK s \in Sessions : CheckOpen(c, s)
        BY <3>1
      <4>2. PICK q : q = [Idle EXCEPT !.pc = "add", !.s = s]
        OBVIOUS
      <4>3. q.pc \notin Publishing /\ q.swept = {}
        BY <4>2 DEF Idle, Publishing
      <4>4. QED
        BY <4>1, <4>2, <4>3 DEF CheckOpen, At
    <3>2. CASE \E r \in Routes : ReadForEdit(c, r)
      <4>1. PICK r \in Routes : ReadForEdit(c, r)
        BY <3>2
      <4>2. PICK q : q = [Idle EXCEPT !.pc = "edit", !.r = r, !.seen = route[r].status,
                                      !.dated = route[r].dated]
        OBVIOUS
      <4>3. q.pc \notin Publishing /\ q.swept = {}
        BY <4>2 DEF Idle, Publishing
      <4>4. QED
        BY <4>1, <4>2, <4>3 DEF ReadForEdit, At
    <3>3. QED
      BY <1>4, <3>1, <3>2
  <2>2. client'[c] = q /\ \A d \in Clients \ {c} : client'[d] = client[d]
    BY <1>0, <2>1
  <2>3. \A r \in Routes : lock[r] # c
    BY <2>1, Transactions DEF Survival, Sweeping, SweepsFrom
  <2>4. QED
    BY <2>1, <2>2, <2>3, SurvivalMoves
<1>5. ASSUME NEW c \in Clients, NEW r \in Routes, LockRow(c, r)
      PROVE  Survival'
  BY <1>5, LockRowSurvives
<1>6. ASSUME NEW c \in Clients, NEW r \in Routes, InsertDraft(c, r)
      PROVE  Survival'
  <2>1. PICK x : x = [status |-> "draft", session |-> client[c].s, dated |-> "no"]
    OBVIOUS
  <2>2. /\ \/ UNCHANGED <<route, pending>>
           \/ /\ route' = [route EXCEPT ![r] = x]
              /\ pending' = [pending EXCEPT ![r] = x]
        /\ client' = [client EXCEPT ![c] = Idle] /\ client[c].pc = "add"
        /\ UNCHANGED <<lock, session, fresh, caught, reopened>>
        /\ route[r].status = "absent"
    BY <1>6, <2>1 DEF InsertDraft, At
  <2>3. lock[r] = NoClient /\ fresh[r] = NoSession
    BY <2>2 DEF DraftInv, PendingHolds, Survival, Published
  <2>4. /\ client[c].pc \notin InTransaction
        /\ client'[c] = Idle /\ \A d \in Clients \ {c} : client'[d] = client[d]
    BY <1>0, <2>2, Transactions
  <2>5. CASE UNCHANGED <<route, pending>>
    <3>1. Idle.pc \notin Publishing /\ Idle.swept = {}
      BY DEF Idle, Publishing
    <3>2. \A k \in Routes : lock[k] # c
      BY <2>4 DEF Survival, Sweeping, SweepsFrom
    <3>3. QED
      BY <2>2, <2>4, <2>5, <3>1, <3>2, SurvivalMoves
  <2>6. CASE ~UNCHANGED <<route, pending>>
    BY <2>2, <2>3, <2>4, <2>6, SetSurvives
  <2>7. QED
    BY <2>5, <2>6
<1>7. ASSUME NEW c \in Clients, CommitPublish(c)
      PROVE  Survival'
  BY <1>7, CommitSurvives
<1>8. ASSUME NEW c \in Clients, CommitDelete(c) \/ Abort(c)
      PROVE  Survival'
  <2>1. PICK committed \in {Outcome(c), route} :
           /\ Release(c, committed) /\ UNCHANGED <<fresh, caught, reopened>>
           /\ session' = [session EXCEPT ![client[c].s] = "gone"] \/ session' = session
    BY <1>8 DEF CommitDelete, Abort
  <2>2. \A s \in Sessions : session'[s] = session[s] \/ session'[s] = "gone"
    BY <2>1 DEF DraftInv, Types
  <2>3. QED
    BY <2>1, <2>2, ReleaseSurvives
<1>9. ASSUME NEW c \in Clients, WriteBack(c)
      PROVE  Survival'
  <2>1. PICK r \in Routes : r = client[c].r
    BY <1>9 DEF DraftInv, SessionInv, Rows, Loaded, WriteBack, At
  <2>2. PICK x : x = IF Up(r) THEN WrittenBack(c, route[r]) ELSE route[r]
    OBVIOUS
  <2>3. /\ lock[r] = NoClient /\ client' = [client EXCEPT ![c] = Idle]
        /\ route' = [route EXCEPT ![r] = x] /\ pending' = [pending EXCEPT ![r] = x]
        /\ UNCHANGED <<lock, session, fresh, caught, reopened>>
        /\ client[c].pc = "edit"
    BY <1>9, <2>1, <2>2 DEF WriteBack, At
  <2>4. x.session = route[r].session /\ (x.status # "absent" \/ x = route[r])
    BY <1>0, <2>2 DEF WrittenBack, DatesCarry, Row
  <2>5. \A d \in Clients : \/ client'[d] = client[d]
                           \/ client'[d] = Idle /\ client[d].pc \notin InTransaction
    BY <1>0, <2>3, Transactions
  <2>6. fresh[r] # NoSession => /\ x.status # "absent"
                                /\ x.session \in {fresh[r], NoSession}
    BY <2>4 DEF Survival, Published
  <2>7. QED
    BY <2>3, <2>5, <2>6, SetSurvives
<1>10. ASSUME NEW r \in Routes,
              DeleteSessionRoute(r) \/ \E st \in RouteStatuses : SetRouteStatus(r, st)
       PROVE  Survival'
  <2>1. PICK x : SetRoute(r, x) /\ x.status # "absent"
                 /\ x.session \in {route[r].session, NoSession}
    <3>1. CASE DeleteSessionRoute(r)
      <4>1. PICK x : /\ x = [route[r] EXCEPT !.status = "deleted", !.session = NoSession]
                     /\ SetRoute(r, x)
        BY <3>1 DEF DeleteSessionRoute
      <4>2. x.status # "absent" /\ x.session = NoSession
        BY <1>0, <4>1 DEF Row
      <4>3. QED
        BY <4>1, <4>2
    <3>2. CASE \E st \in RouteStatuses : SetRouteStatus(r, st)
      <4>1. PICK st \in RouteStatuses : SetRouteStatus(r, st)
        BY <3>2
      <4>2. PICK x : /\ x = IF st = "archived" THEN Stripped(route[r])
                            ELSE [route[r] EXCEPT !.status = st]
                     /\ SetRoute(r, x)
        BY <4>1 DEF SetRouteStatus
      <4>3. st \in {"active", "flagged", "archived"}
        BY SettingSessionAssumption
      <4>4. x.status # "absent" /\ x.session = route[r].session
        BY <1>0, <4>2, <4>3 DEF Stripped, Archived, Row
      <4>5. QED
        BY <4>2, <4>4
    <3>3. QED
      BY <1>10, <3>1, <3>2
  <2>2. fresh[r] # NoSession => x.session \in {fresh[r], NoSession}
    BY <2>1 DEF Survival, Published
  <2>3. QED
    BY <2>1, <2>2, SetSurvives DEF SetRoute
<1>11. ASSUME NEW s \in Sessions, NEW st \in NewStatuses, SetSessionStatus(s, st)
       PROVE  Survival'
  <2>1. /\ session' = [session EXCEPT ![s] = st] /\ sessionLock[s] = NoClient
        /\ reopened' = IF session[s] = "complete" THEN reopened \cup {s} ELSE reopened
        /\ UNCHANGED <<route, pending, lock, client, fresh, caught>>
        /\ session[s] # "gone"
    BY <1>11 DEF SetSessionStatus, Live
  <2>2. \A t \in Sessions \ {s} : session'[t] = session[t]
    BY <2>1 DEF DraftInv, Types
  <2>3. Published' /\ FreshRoutesSurvive'
    <3>1. \A r \in Routes : fresh[r] # NoSession =>
             session'[fresh[r]] \in {"complete", "gone"} \/ fresh[r] \in reopened'
      BY <2>1, <2>2 DEF Survival, Published, DraftInv, Types
    <3>2. QED
      BY <2>1, <3>1 DEF Survival, Published, FreshRoutesSurvive
  <2>4. PublishesOwn'
    <3>1. \A c \in Clients : client[c].pc \in Publishing =>
             client[c].s \in Sessions \ {s}
      <4>1. SessionHeld /\ NoClient \notin Clients
        BY SettingSessionAssumption DEF DraftInv, SessionInv
      <4>2. QED
        BY <2>1, <4>1, PublishingIs DEF SessionHeld
    <3>2. QED
      BY <2>1, <2>2, <3>1 DEF Survival, PublishesOwn
  <2>5. Sweeping'
    <3>1. route' = route /\ pending' = pending /\ lock' = lock /\ client' = client
      BY <2>1
    <3>2. QED
      BY <3>1, SweepingStays DEF Survival
  <2>6. QED
    BY <2>3, <2>4, <2>5 DEF Survival
<1>12. CASE \/ \E s \in Sessions, t \in Walls \cup Routes :
                  AddStripTarget(s, t) \/ RemoveStripTarget(s, t)
            \/ UNCHANGED vars
  <2>1. UNCHANGED <<route, pending, lock, client, session, fresh, caught, reopened>>
    BY <1>12 DEF AddStripTarget, RemoveStripTarget, vars
  <2>2. QED
    <3>1. Published' /\ FreshRoutesSurvive'
      BY <2>1 DEF Survival, Published, FreshRoutesSurvive
    <3>2. PublishesOwn'
      BY <2>1 DEF Survival, PublishesOwn
    <3>3. Sweeping'
      BY <2>1, SweepingStays DEF Survival
    <3>4. QED
      BY <3>1, <3>2, <3>3 DEF Survival
<1>13. QED
  BY <1>2, <1>3, <1>4, <1>5, <1>6, <1>7, <1>8, <1>9, <1>10, <1>11, <1>12 DEF Next

\* However often and from however many tabs a session is published, and whatever
\* is edited, deleted and rolled back in between, its wall strip takes down no
\* route that the session itself put up, unless somebody reopened it
\* (PublishSession's lock, its guard and the order of its statements).
THEOREM PublishingTwiceIsSafe == Spec => []FreshRoutesSurvive
<1>1. Init => PublishInv
  <2> SUFFICES ASSUME Init
               PROVE  PublishInv
    OBVIOUS
  <2>1. \A r \in Routes : pending[r] = route[r] /\ route[r].dated = "no" /\ lock[r] = NoClient
    BY DEF Init
  <2>2. \A c \in Clients : client[c].seen # "absent"
    BY DEF Init, Idle
  <2>3. DatesCarry
    BY <2>1, <2>2 DEF DatesCarry
  <2>4. QED
    BY <2>3, DraftInvInit, SurvivalInit DEF PublishInv
<1>2. PublishInv /\ [Next]_vars => PublishInv'
  BY DraftInvStep, KeptStep, SurvivalStep DEF PublishInv
<1>3. PublishInv => FreshRoutesSurvive
  BY DEF PublishInv, Survival
<1>4. QED
  BY <1>1, <1>2, <1>3, PTL DEF Spec

-----------------------------------------------------------------------------
(* Row sets: transactions that replace a set, and others that drop a tag.   *)

SaveRow == [op : {"replace", "delete"}, asked : SUBSET Keys, gone : SUBSET Keys,
            new : SUBSET Keys, step : {"asked", "wiping", "wiped", "filled"}]

\* Only tags and targets are replaced, and only an INSERT has new rows.
SavesHold ==
    /\ save \in [Savers -> {NoSave} \cup SaveRow]
    /\ \A s \in Savers : save[s] # NoSave =>
          /\ family \in {"tags", "targets"}
          /\ save[s].op = "delete" \/ save[s].step # "filled" => save[s].new = {}

Filling(s) == save[s] # NoSave /\ save[s].op = "replace" /\ save[s].step = "filled"
Removing(s) == save[s] # NoSave /\ save[s].op = "delete" /\ save[s].step = "filled"

\* The foreign key: what is about to be carried is there, and what is about to be
\* removed is carried by no row that stays and no row to come.
TagsStay ==
    /\ family = "tags" => rows \subseteq tags
    /\ \A s \in Savers : Filling(s) => save[s].new \subseteq tags
    /\ \A s \in Savers : Removing(s) => save[s].asked \cap (rows \ save[s].gone) = {}
    /\ \A s, o \in Savers : Removing(s) /\ Filling(o) => save[o].new \cap save[s].asked = {}

\* Without a crossing one transaction at most is at work, on the rows there are.
OneAtATime ==
    /\ family \in {"tags", "targets"} => rows = wanted
    /\ \A s, o \in Savers : InTx(s) /\ InTx(o) => s = o
    /\ \A s \in Savers : InTx(s) =>
          /\ save[s].gone = Covered(save[s])
          /\ Filling(s) => save[s].new = save[s].asked

RowSetsInv == RowSetsTypeOK /\ SavesHold /\ TagsStay /\ (~crossed => OneAtATime)

LEMMA RowSetsBegin == RowSetsInit => RowSetsInv
<1> SUFFICES ASSUME RowSetsInit
             PROVE  RowSetsInv
  OBVIOUS
<1> USE DEF RowSetsInit
<1>1. \A s \in Savers : save[s] = NoSave
  OBVIOUS
<1>2. RowSetsTypeOK
  <2>1. /\ rows \subseteq Keys /\ family \notin {"tags", "targets"} => rows = {}
        /\ family \in Families /\ tags \subseteq Keys
    BY DEF Families
  <2>2. saves \in 0 .. MaxSaves
    BY RowSetsAssumption
  <2>3. wanted \subseteq Keys /\ submitted \subseteq SUBSET Keys /\ crossed \in BOOLEAN
    BY <2>1
  <2>4. rows \subseteq IF family \in {"tags", "targets"} THEN Keys ELSE Pairs
    BY <2>1
  <2>5. QED
    BY <1>1, <2>1, <2>2, <2>3, <2>4 DEF RowSetsTypeOK
<1>3. SavesHold
  BY <1>1 DEF SavesHold
<1>4. TagsStay
  BY <1>1 DEF TagsStay, Filling, Removing
<1>5. OneAtATime
  BY <1>1 DEF OneAtATime, InTx
<1>6. QED
  BY <1>2, <1>3, <1>4, <1>5 DEF RowSetsInv

\* The rows of the community are changed by single statements, while no transaction is
\* open.
LEMMA RowChanges ==
    ASSUME RowSetsInv, NEW k \in {"votes", "follows"}, NEW rest, rest \subseteq Pairs,
           family = k, rows' = rest,
           UNCHANGED <<family, tags, save, saves, wanted, submitted, crossed>>
    PROVE  RowSetsInv'
<1>1. \A s \in Savers : save[s] = NoSave
  BY DEF RowSetsInv, SavesHold
<1>2. RowSetsTypeOK'
  BY <1>1 DEF RowSetsInv, RowSetsTypeOK, Families, Pairs
<1>3. SavesHold'
  BY <1>1 DEF RowSetsInv, SavesHold
<1>4. TagsStay'
  BY <1>1 DEF TagsStay, Filling, Removing
<1>5. OneAtATime'
  BY <1>1 DEF OneAtATime, InTx
<1>6. QED
  BY <1>2, <1>3, <1>4, <1>5 DEF RowSetsInv

\* A transaction takes a step and the rows stay.
LEMMA SaveSteps ==
    ASSUME RowSetsInv, NEW s \in Savers, NEW y \in SaveRow,
           save' = [save EXCEPT ![s] = y], family \in {"tags", "targets"},
           UNCHANGED <<family, rows, tags, wanted, submitted>>,
           saves' \in 0 .. MaxSaves, crossed' \in BOOLEAN
    PROVE  /\ RowSetsTypeOK'
           /\ save' \in [Savers -> {NoSave} \cup SaveRow]
           /\ save'[s] = y /\ y # NoSave
           /\ \A o \in Savers \ {s} : save'[o] = save[o]
<1>1. y # NoSave
  BY DEF SaveRow, NoSave
<1>2. save' \in [Savers -> {NoSave} \cup SaveRow] /\ save'[s] = y
      /\ \A o \in Savers \ {s} : save'[o] = save[o]
  BY DEF RowSetsInv, SavesHold
<1>3. RowSetsTypeOK'
  <2>1. \A o \in Savers : save'[o] # NoSave => save'[o] \in SaveRow
    BY <1>2
  <2>2. \A x \in SaveRow : /\ x.op \in {"replace", "delete"} /\ x.asked \subseteq Keys
                           /\ x.gone \subseteq Keys /\ x.new \subseteq Keys
                           /\ x.step \in {"asked", "wiping", "wiped", "filled"}
    BY DEF SaveRow
  <2>3. QED
    BY <2>1, <2>2 DEF RowSetsInv, RowSetsTypeOK, Families, Pairs
<1>4. QED
  BY <1>1, <1>2, <1>3

LEMMA RowSetsStep == RowSetsInv /\ [RowSetsNext]_setVars => RowSetsInv'
<1> SUFFICES ASSUME RowSetsInv, [RowSetsNext]_setVars
             PROVE  RowSetsInv'
  OBVIOUS
<1>a. /\ RowSetsTypeOK /\ SavesHold /\ TagsStay /\ (~crossed => OneAtATime)
      /\ rows \subseteq IF family \in {"tags", "targets"} THEN Keys ELSE Pairs
      /\ family \in Families /\ wanted \subseteq Keys /\ submitted \subseteq SUBSET Keys
      /\ tags \subseteq Keys /\ saves \in 0 .. MaxSaves /\ crossed \in BOOLEAN
  BY DEF RowSetsInv, RowSetsTypeOK
<1>b. \A s \in Savers : save[s] # NoSave =>
         /\ save[s] \in SaveRow /\ family \in {"tags", "targets"}
         /\ save[s].op \in {"replace", "delete"} /\ save[s].asked \subseteq Keys
         /\ save[s].gone \subseteq Keys /\ save[s].new \subseteq Keys
         /\ save[s].step \in {"asked", "wiping", "wiped", "filled"}
         /\ save[s].op = "delete" \/ save[s].step # "filled" => save[s].new = {}
  BY <1>a DEF SavesHold, SaveRow
<1>1. ASSUME NEW s \in Savers, NEW op \in {"replace", "delete"}, NEW want \in SUBSET Keys,
             family \in {"tags", "targets"}, Begin(s, op, want)
      PROVE  RowSetsInv'
  <2> DEFINE y == [op |-> op, asked |-> want, gone |-> {}, new |-> {}, step |-> "asked"]
  <2>1. y \in SaveRow /\ y.step = "asked" /\ y.new = {}
    BY DEF SaveRow
  <2>2. /\ save' = [save EXCEPT ![s] = y] /\ save[s] = NoSave
        /\ UNCHANGED <<family, rows, tags, wanted, submitted, crossed>>
        /\ saves' \in 0 .. MaxSaves /\ crossed' \in BOOLEAN
    BY <1>1, <1>a, RowSetsAssumption DEF Begin
  <2> HIDE DEF y
  <2>3. /\ RowSetsTypeOK' /\ save' \in [Savers -> {NoSave} \cup SaveRow]
        /\ save'[s] = y /\ y # NoSave /\ \A o \in Savers \ {s} : save'[o] = save[o]
    BY <2>1, <2>2, <1>1, SaveSteps
  <2>4. SavesHold'
    BY <2>1, <2>2, <2>3, <1>1, <1>b DEF SavesHold
  <2>5. TagsStay'
    BY <2>1, <2>2, <2>3, <1>a DEF TagsStay, Filling, Removing
  <2>6. ~crossed' => OneAtATime'
    BY <2>1, <2>2, <2>3, <1>a DEF OneAtATime, InTx, Filling, Covered
  <2>7. QED
    BY <2>3, <2>4, <2>5, <2>6 DEF RowSetsInv
<1>2. ASSUME NEW s \in Savers, Wipe(s)
      PROVE  RowSetsInv'
  <2> DEFINE y == [save[s] EXCEPT !.step = "wiping", !.gone = Covered(save[s])]
  <2>1. /\ y \in SaveRow /\ y.step = "wiping" /\ y.new = {} /\ y.op = save[s].op
        /\ y.gone = Covered(save[s]) /\ y.asked = save[s].asked /\ save[s].step = "asked"
        /\ family \in {"tags", "targets"} /\ save[s] # NoSave
    BY <1>2, <1>a, <1>b DEF Wipe, SaveRow, Covered
  <2>2. /\ save' = [save EXCEPT ![s] = y]
        /\ UNCHANGED <<family, rows, tags, saves, wanted, submitted>>
        /\ crossed' = (crossed \/ Others(s) # {}) /\ crossed' \in BOOLEAN
    BY <1>2 DEF Wipe
  <2> HIDE DEF y
  <2>3. /\ RowSetsTypeOK' /\ save' \in [Savers -> {NoSave} \cup SaveRow]
        /\ save'[s] = y /\ y # NoSave /\ \A o \in Savers \ {s} : save'[o] = save[o]
    BY <2>1, <2>2, <1>a, SaveSteps
  <2>4. SavesHold'
    BY <2>1, <2>2, <2>3, <1>b DEF SavesHold
  <2>5. TagsStay'
    BY <2>1, <2>2, <2>3, <1>a DEF TagsStay, Filling, Removing
  <2>6. ~crossed' => OneAtATime'
    BY <2>1, <2>2, <2>3, <1>a DEF OneAtATime, InTx, Filling, Covered, Others
  <2>7. QED
    BY <2>3, <2>4, <2>5, <2>6 DEF RowSetsInv
<1>3. ASSUME NEW s \in Savers, Wiped(s)
      PROVE  RowSetsInv'
  <2> DEFINE y == [save[s] EXCEPT !.step = "wiped", !.gone = save[s].gone \cap rows]
  <2>1. /\ y \in SaveRow /\ y.step = "wiped" /\ y.new = {} /\ y.op = save[s].op
        /\ y.gone = save[s].gone \cap rows /\ y.asked = save[s].asked
        /\ save[s].step = "wiping"
        /\ family \in {"tags", "targets"} /\ save[s] # NoSave
    BY <1>3, <1>a, <1>b DEF Wiped, SaveRow
  <2>2. /\ save' = [save EXCEPT ![s] = y]
        /\ UNCHANGED <<family, rows, tags, saves, wanted, submitted, crossed>>
    BY <1>3 DEF Wiped
  <2> HIDE DEF y
  <2>3. /\ RowSetsTypeOK' /\ save' \in [Savers -> {NoSave} \cup SaveRow]
        /\ save'[s] = y /\ y # NoSave /\ \A o \in Savers \ {s} : save'[o] = save[o]
    BY <2>1, <2>2, <1>a, SaveSteps
  <2>4. SavesHold'
    BY <2>1, <2>2, <2>3, <1>b DEF SavesHold
  <2>5. TagsStay'
    BY <2>1, <2>2, <2>3, <1>a DEF TagsStay, Filling, Removing
  <2>6. ASSUME ~crossed'
        PROVE  OneAtATime'
    <3>1. OneAtATime /\ InTx(s)
      BY <2>1, <2>2, <2>6, <1>a DEF InTx
    <3>2. \A o \in Savers : InTx(o)' => o = s
      BY <2>3, <3>1 DEF OneAtATime, InTx
    <3>3. y.gone = Covered(y) /\ ~Filling(s)'
      <4>1. save[s].gone = IF save[s].op = "replace" THEN rows ELSE rows \cap save[s].asked
        BY <3>1 DEF OneAtATime, Covered
      <4>2. save[s].gone \cap rows = save[s].gone
        BY <4>1
      <4>3. QED
        BY <2>1, <2>3, <4>1, <4>2 DEF Covered, Filling
    <3>4. \A o \in Savers : InTx(o)' => /\ save'[o].gone = Covered(save[o])'
                                        /\ Filling(o)' => save'[o].new = save'[o].asked
      BY <2>2, <2>3, <3>2, <3>3 DEF Covered
    <3>5. family \in {"tags", "targets"} => rows' = wanted'
      BY <2>2, <3>1 DEF OneAtATime
    <3>6. \A p, o \in Savers : InTx(p)' /\ InTx(o)' => p = o
      BY <3>2
    <3>7. QED
      BY <2>2, <3>4, <3>5, <3>6 DEF OneAtATime, Covered
  <2>7. QED
    BY <2>3, <2>4, <2>5, <2>6 DEF RowSetsInv
<1>4. ASSUME NEW s \in Savers, Fill(s)
      PROVE  RowSetsInv'
  <2> DEFINE y == [save[s] EXCEPT !.step = "filled", !.new = Filled(save[s])]
  <2>1. /\ y \in SaveRow /\ y.step = "filled" /\ y.new = Filled(save[s]) /\ y.op = "replace"
        /\ save[s].op = "replace"
        /\ y.gone = save[s].gone /\ y.asked = save[s].asked /\ save[s].step = "wiped"
        /\ family \in {"tags", "targets"} /\ save[s] # NoSave
        /\ y.new \subseteq y.asked /\ y.asked \subseteq tags
    BY <1>4, <1>a, <1>b DEF Fill, SaveRow, Filled
  <2>2. /\ save' = [save EXCEPT ![s] = y]
        /\ UNCHANGED <<family, rows, tags, saves, wanted, submitted, crossed>>
        /\ \A o \in Savers \ {s} : Removing(o) => save[o].asked \cap save[s].asked = {}
    BY <1>4 DEF Fill, Removing, Others, InTx
  <2> HIDE DEF y
  <2>3. /\ RowSetsTypeOK' /\ save' \in [Savers -> {NoSave} \cup SaveRow]
        /\ save'[s] = y /\ y # NoSave /\ \A o \in Savers \ {s} : save'[o] = save[o]
    BY <2>1, <2>2, <1>a, SaveSteps
  <2>4. SavesHold'
    BY <2>1, <2>2, <2>3, <1>b DEF SavesHold
  <2>5. TagsStay'
    BY <2>1, <2>2, <2>3, <1>a DEF TagsStay, Filling, Removing
  <2>6. ~crossed' => OneAtATime'
    BY <2>1, <2>2, <2>3, <1>a DEF OneAtATime, InTx, Filling, Covered, Filled
  <2>7. QED
    BY <2>3, <2>4, <2>5, <2>6 DEF RowSetsInv
<1>5. ASSUME NEW s \in Savers, DropTag(s)
      PROVE  RowSetsInv'
  <2> DEFINE y == [save[s] EXCEPT !.step = "filled"]
  <2>1. /\ y \in SaveRow /\ y.step = "filled" /\ y.new = {} /\ y.op = "delete"
        /\ save[s].op = "delete"
        /\ y.gone = save[s].gone /\ y.asked = save[s].asked /\ save[s].step = "wiped"
        /\ family \in {"tags", "targets"} /\ save[s] # NoSave
    BY <1>5, <1>a, <1>b DEF DropTag, SaveRow
  <2>2. /\ save' = [save EXCEPT ![s] = y]
        /\ UNCHANGED <<family, rows, tags, saves, wanted, submitted, crossed>>
        /\ save[s].asked \cap (rows \ save[s].gone) = {}
        /\ \A o \in Savers \ {s} : Filling(o) => save[o].new \cap save[s].asked = {}
    BY <1>5 DEF DropTag, MayDropTag, Filling, Others, InTx
  <2> HIDE DEF y
  <2>3. /\ RowSetsTypeOK' /\ save' \in [Savers -> {NoSave} \cup SaveRow]
        /\ save'[s] = y /\ y # NoSave /\ \A o \in Savers \ {s} : save'[o] = save[o]
    BY <2>1, <2>2, <1>a, SaveSteps
  <2>4. SavesHold'
    BY <2>1, <2>2, <2>3, <1>b DEF SavesHold
  <2>5. TagsStay'
    BY <2>1, <2>2, <2>3, <1>a DEF TagsStay, Filling, Removing
  <2>6. ~crossed' => OneAtATime'
    BY <2>1, <2>2, <2>3, <1>a DEF OneAtATime, InTx, Filling, Covered
  <2>7. QED
    BY <2>3, <2>4, <2>5, <2>6 DEF RowSetsInv
<1>6. ASSUME NEW s \in Savers, SaveDone(s)
      PROVE  RowSetsInv'
  <2>1. /\ save[s] # NoSave /\ save[s].step = "filled" /\ family \in {"tags", "targets"}
        /\ save[s].op \in {"replace", "delete"} /\ save[s].asked \subseteq Keys
        /\ save[s].new \subseteq Keys
        /\ save[s].op = "delete" => save[s].new = {}
    BY <1>6, <1>b DEF SaveDone
  <2>2. /\ rows' = (rows \ save[s].gone) \cup save[s].new
        /\ tags' = IF save[s].op = "delete" THEN tags \ save[s].asked ELSE tags
        /\ wanted' = IF save[s].op = "delete" THEN wanted \ save[s].asked ELSE save[s].asked
        /\ submitted' = submitted \cup {wanted'}
        /\ save' = [save EXCEPT ![s] = NoSave]
        /\ UNCHANGED <<family, saves, crossed>>
    BY <1>6 DEF SaveDone
  <2>3. save' \in [Savers -> {NoSave} \cup SaveRow] /\ save'[s] = NoSave
        /\ \A o \in Savers \ {s} : save'[o] = save[o]
    BY <2>2, <1>a DEF SavesHold
  <2>4. RowSetsTypeOK'
    <3>1. rows \subseteq Keys /\ rows' \subseteq Keys /\ wanted' \subseteq Keys /\ tags' \subseteq Keys
      BY <2>1, <2>2, <1>a
    <3>2. submitted' \subseteq SUBSET Keys
      BY <3>1, <2>2, <1>a
    <3>3. QED
      BY <3>1, <3>2, <2>1, <2>2, <2>3, <1>a, <1>b DEF RowSetsTypeOK
  <2>5. SavesHold'
    BY <2>2, <2>3, <1>b DEF SavesHold
  <2>6. TagsStay'
    <3>1. CASE save[s].op = "delete"
      <4>1. Removing(s) /\ save[s].asked \cap (rows \ save[s].gone) = {}
            /\ rows' = rows \ save[s].gone /\ tags' = tags \ save[s].asked
        BY <3>1, <2>1, <2>2, <1>a DEF Removing, TagsStay
      <4>2. QED
        BY <4>1, <2>2, <2>3, <1>a DEF TagsStay, Removing, Filling
    <3>2. CASE save[s].op = "replace"
      <4>1. Filling(s) /\ tags' = tags
        BY <3>2, <2>1, <2>2 DEF Filling
      <4>2. QED
        BY <4>1, <2>2, <2>3, <1>a DEF TagsStay, Removing, Filling
    <3>3. QED
      BY <3>1, <3>2, <2>1
  <2>7. ASSUME ~crossed'
        PROVE  OneAtATime'
    <3>1. OneAtATime /\ InTx(s)
      BY <2>1, <2>2, <2>7, <1>a DEF InTx
    <3>2. \A o \in Savers : ~InTx(o)'
      BY <2>3, <3>1 DEF OneAtATime, InTx
    <3>3. rows = wanted /\ save[s].gone = Covered(save[s])
      BY <2>1, <3>1 DEF OneAtATime
    <3>4. rows' = wanted'
      <4>1. CASE save[s].op = "delete"
        BY <2>1, <2>2, <3>3, <4>1 DEF Covered
      <4>2. CASE save[s].op = "replace"
        <5>1. save[s].gone = rows /\ save[s].new = save[s].asked
          BY <2>1, <3>1, <3>3, <4>2 DEF OneAtATime, Covered, Filling
        <5>2. QED
          BY <2>2, <4>2, <5>1
      <4>3. QED
        BY <2>1, <4>1, <4>2
    <3>5. QED
      BY <3>2, <3>4 DEF OneAtATime
  <2>8. QED
    BY <2>4, <2>5, <2>6, <2>7 DEF RowSetsInv
<1>7. ASSUME NEW s \in Savers, SaveFails(s)
      PROVE  RowSetsInv'
  <2>1. save' = [save EXCEPT ![s] = NoSave] /\ save[s] # NoSave
        /\ UNCHANGED <<family, rows, tags, saves, wanted, submitted, crossed>>
    BY <1>7 DEF SaveFails
  <2>2. save' \in [Savers -> {NoSave} \cup SaveRow] /\ save'[s] = NoSave
        /\ \A o \in Savers \ {s} : save'[o] = save[o]
    BY <2>1, <1>a DEF SavesHold
  <2>3. RowSetsTypeOK'
    BY <2>1, <2>2, <1>a, <1>b DEF RowSetsTypeOK
  <2>4. SavesHold'
    BY <2>1, <2>2, <1>b DEF SavesHold
  <2>5. TagsStay'
    BY <2>1, <2>2, <1>a DEF TagsStay, Removing, Filling
  <2>6. ~crossed' => OneAtATime'
    BY <2>1, <2>2, <1>a DEF OneAtATime, InTx, Filling, Covered
  <2>7. QED
    BY <2>3, <2>4, <2>5, <2>6 DEF RowSetsInv
<1>8. ASSUME NEW k \in {"votes", "follows"}, NEW more, more \subseteq Pairs, PutRow(k, more)
      PROVE  RowSetsInv'
  BY <1>8, <1>a, RowChanges DEF PutRow
<1>9. ASSUME NEW k \in {"votes", "follows"}, NEW less, Take(k, less)
      PROVE  RowSetsInv'
  BY <1>9, <1>a, RowChanges DEF Take
<1>10. CASE UNCHANGED setVars
  <2>1. UNCHANGED <<family, rows, tags, save, saves, wanted, submitted, crossed>>
    BY <1>10 DEF setVars
  <2>2. QED
    BY <2>1 DEF RowSetsInv, RowSetsTypeOK, SavesHold, TagsStay, OneAtATime, Filling, Removing,
                InTx, Covered, Pairs
<1>11. ASSUME NEW u \in People, NEW t \in Keys, Add(u, t)
       PROVE  RowSetsInv'
  <2>1. PutRow("votes", {<<u, t>>}) /\ family = "votes"
    BY <1>11 DEF Add, PutRow
  <2>2. {<<u, t>>} \subseteq Pairs
    BY <2>1 DEF Pairs
  <2>3. QED
    BY <1>8, <2>1, <2>2
<1>12. ASSUME NEW u \in People, NEW v \in People, Follow(u, v)
       PROVE  RowSetsInv'
  <2>1. PutRow("follows", {<<u, v>>}) /\ family = "follows"
    BY <1>12 DEF Follow, PutRow
  <2>2. {<<u, v>>} \subseteq Pairs
    BY <2>1 DEF Pairs
  <2>3. QED
    BY <1>8, <2>1, <2>2
<1>13. ASSUME NEW s \in Savers,
              \/ \E want \in SUBSET Keys : SetTags(s, want) \/ ReplaceTargets(s, want)
              \/ \E t \in Keys : DeleteTag(s, t)
       PROVE  RowSetsInv'
  BY <1>1, <1>13 DEF SetTags, ReplaceTargets, DeleteTag
<1>14. QED
  BY <1>2, <1>3, <1>4, <1>5, <1>6, <1>7, <1>9, <1>10, <1>11, <1>12, <1>13
     DEF RowSetsNext, RemoveTag, DeleteTagFromRoute, Unfollow

LEMMA RowSetsHold == RowSetsInv => RowSetsTypeOK /\ SetIsWholeAlone
  BY DEF RowSetsInv, SetIsWholeAlone, TagsStay, OneAtATime

-----------------------------------------------------------------------------
(* The greatest of finitely many numbers.                                   *)

LEMMA NaturalsHaveALeast ==
    ASSUME NEW T, T \subseteq Nat, T # {}
    PROVE  \E n \in T : \A m \in T : n <= m
<1> DEFINE R == {ss \in Nat \X Nat : ss[1] < ss[2]}
<1>1. OpToRel(<, Nat) = R
  BY DEF OpToRel
<1>2. IsWellFoundedOn(R, Nat)
  BY <1>1, NatLessThanWellFounded
<1> HIDE DEF R
<1>3. PICK n \in T : \A m \in T : <<m, n>> \notin R
  BY <1>2, WFMin, Zenon
<1>4. \A m \in T : ~(m < n)
  BY <1>3 DEF R
<1>5. QED
  BY <1>4

\* The element that the fewest exceed is the greatest.
LEMMA FiniteMax ==
    ASSUME NEW S, IsFiniteSet(S), S \subseteq Int, S # {}
    PROVE  Max(S) \in S /\ \A x \in S : x <= Max(S)
<1> DEFINE Above(x) == {y \in S : y > x}
           T == {Cardinality(Above(x)) : x \in S}
<1>1. \A x \in S : IsFiniteSet(Above(x)) /\ Cardinality(Above(x)) \in Nat
  BY FS_Subset, FS_CardinalityType
<1>2. T \subseteq Nat /\ T # {}
  BY <1>1
<1>3. PICK n \in T : \A m \in T : n <= m
  <2> HIDE DEF T
  <2>1. QED
    BY <1>2, NaturalsHaveALeast
<1>4. PICK x \in S : n = Cardinality(Above(x))
  OBVIOUS
<1>5. ASSUME NEW y \in S, y > x
      PROVE  FALSE
  <2>1. Above(y) \subseteq Above(x) /\ y \in Above(x) /\ y \notin Above(y)
    <3>1. x \in Int /\ y \in Int /\ ~(y > y)
      OBVIOUS
    <3>2. \A z \in S : z \in Int /\ (z > y => z > x)
      BY <1>5, <3>1
    <3>3. QED
      BY <1>5, <3>1, <3>2, Zenon
  <2>2. Cardinality(Above(y)) <= Cardinality(Above(x)) /\ Cardinality(Above(y)) # n
    BY <1>1, <1>4, <2>1, FS_Subset
  <2>3. n <= Cardinality(Above(y))
    BY <1>3
  <2> HIDE DEF Above, T
  <2>4. QED
    BY <1>1, <1>4, <2>2, <2>3
<1>6. \A y \in S : x >= y
  BY <1>5
<1>7. Max(S) \in S /\ \A y \in S : Max(S) >= y
  BY <1>6 DEF Max
<1>8. QED
  BY <1>7

LEMMA FiniteImage ==
    ASSUME NEW S, IsFiniteSet(S), NEW f
    PROVE  IsFiniteSet({f[x] : x \in S})
<1> DEFINE T == {f[x] : x \in S}
           g == [x \in S |-> f[x]]
<1>1. g \in Surjection(S, T)
  BY DEF Surjection
<1> HIDE DEF T, g
<1>2. IsFiniteSet(T)
  BY <1>1, FS_Surjection
<1>3. QED
  BY <1>2 DEF T

\* The number after the greatest one.
LEMMA NextNumber ==
    ASSUME NEW S, IsFiniteSet(S), S \subseteq Nat
    PROVE  Max(S \cup {0}) \in Nat
<1>1. IsFiniteSet(S \cup {0}) /\ S \cup {0} \subseteq Int /\ S \cup {0} # {}
  BY FS_AddElement
<1>2. Max(S \cup {0}) \in S \cup {0}
  BY <1>1, FiniteMax
<1>3. S \cup {0} \subseteq Nat
  OBVIOUS
<1>4. QED
  BY <1>2, <1>3, Zenon

-----------------------------------------------------------------------------
(* Recursive functions over 0 .. N.                                         *)

LEMMA UpToInduction ==
    ASSUME NEW N \in Nat, NEW G, 0 \in G, \A m \in 1 .. N : m - 1 \in G => m \in G
    PROVE  \A m \in 0 .. N : m \in G
<1> DEFINE T == {m \in 0 .. N : m \notin G}
<1>1. SUFFICES ASSUME T # {}
               PROVE  FALSE
  BY <1>1
<1>2. PICK n \in T : \A m \in T : n <= m
  <2>1. T \subseteq Nat
    OBVIOUS
  <2> HIDE DEF T
  <2>2. QED
    BY <1>1, <2>1, NaturalsHaveALeast
<1>3. n \in 1 .. N /\ n - 1 \in 0 .. N /\ ~(n <= n - 1)
  <2>1. n \in 0 .. N /\ n # 0
    BY <1>2
  <2>2. QED
    BY <2>1
<1>4. n - 1 \notin T
  BY <1>2, <1>3
<1>5. QED
  BY <1>2, <1>3, <1>4

\* What a step makes of what it has, from a first value on.
Stepwise(it, first, step, N) ==
    it = [m \in 0 .. N |-> IF m = 0 THEN first ELSE step[<<m, it[m - 1]>>]]

LEMMA StepsExist ==
    ASSUME NEW N \in Nat, NEW first, NEW step
    PROVE  \E it : Stepwise(it, first, step, N)
<1> DEFINE G == {n \in Nat : \E it : Stepwise(it, first, step, n)}
<1>1. 0 \in G
  <2> DEFINE it == [m \in 0 .. 0 |-> first]
  <2>1. \A m \in 0 .. 0 : m = 0
    OBVIOUS
  <2>2. Stepwise(it, first, step, 0)
    BY <2>1 DEF Stepwise
  <2>3. QED
    BY <2>2
<1>2. ASSUME NEW n \in 1 .. N, n - 1 \in G
      PROVE  n \in G
  <2>1. PICK it : Stepwise(it, first, step, n - 1)
    BY <1>2
  <2> DEFINE jt == [m \in 0 .. n |-> IF m = n THEN step[<<n, it[n - 1]>>] ELSE it[m]]
  <2>2. ASSUME NEW m \in 0 .. n
        PROVE  jt[m] = IF m = 0 THEN first ELSE step[<<m, jt[m - 1]>>]
    <3>1. CASE m = n
      <4>1. m # 0 /\ n - 1 \in 0 .. n /\ n - 1 # n
        BY <3>1
      <4>2. jt[m] = step[<<n, it[n - 1]>>] /\ jt[n - 1] = it[n - 1]
        BY <3>1, <4>1
      <4>3. QED
        BY <3>1, <4>1, <4>2
    <3>2. CASE m # n /\ m # 0
      <4>1. m \in 0 .. n - 1 /\ m - 1 \in 0 .. n /\ m - 1 # n
        BY <3>2
      <4>2. jt[m] = it[m] /\ jt[m - 1] = it[m - 1]
        BY <3>2, <4>1
      <4>3. it[m] = step[<<m, it[m - 1]>>]
        BY <2>1, <3>2, <4>1 DEF Stepwise
      <4>4. QED
        BY <3>2, <4>2, <4>3
    <3>3. CASE m = 0
      <4>1. m \in 0 .. n - 1 /\ m # n
        BY <3>3
      <4>2. it[m] = first
        BY <2>1, <3>3, <4>1 DEF Stepwise
      <4>3. QED
        BY <3>3, <4>1, <4>2
    <3>4. QED
      BY <3>1, <3>2, <3>3
  <2>3. jt = [m \in 0 .. n |-> IF m = 0 THEN first ELSE step[<<m, jt[m - 1]>>]]
    BY <2>2, Zenon
  <2>4. Stepwise(jt, first, step, n)
    BY <2>3, Zenon DEF Stepwise
  <2>5. n \in Nat
    OBVIOUS
  <2>6. QED
    BY <2>4, <2>5
<1> HIDE DEF G
<1>3. N \in G
  <2>1. \A m \in 0 .. N : m \in G
    BY <1>1, <1>2, UpToInduction
  <2>2. QED
    BY <2>1
<1>4. QED
  BY <1>3 DEF G

-----------------------------------------------------------------------------
(* The playbook: steps in their places.                                     *)

Creation == [op : {"create"}, id : Steps, at : Nat]
Move == [op : {"move"}, step : Steps, direction : {"up", "down"}, held : SUBSET Steps,
         sortOrder : Nat, rest : SUBSET (Nat \X Steps), found : BOOLEAN]

\* A step to be created has an id of its own; a step that moves is held from the first
\* statement on, so it keeps its place, and a row has one holder.
EditorsHold ==
    /\ request \in [Editors -> {None} \cup Creation \cup Move]
    /\ \A e \in Editors : request[e].op = "create" =>
          /\ request[e].id \in (1 .. made) \ PlaybookSteps
          /\ \A o \in Editors \ {e} : request[o].op = "create" => request[o].id # request[e].id
    /\ \A e \in Editors : request[e].op = "move" =>
          /\ request[e].step \in PlaybookSteps \cap request[e].held
          /\ request[e].sortOrder = sort_order[request[e].step]
    /\ \A e, o \in Editors : e # o => RowsHeld(e) \cap RowsHeld(o) = {}

PlaybookInv ==
    /\ PlaybookTypeOK /\ sort_order \in [PlaybookSteps -> Nat]
    /\ PlaybookSteps \subseteq 1 .. made
    /\ PlacesAreDistinct
    /\ EditorsHold

LEMMA PlaybookBegins == PlaybookInit => PlaybookInv
<1> SUFFICES ASSUME PlaybookInit
             PROVE  PlaybookInv
  OBVIOUS
<1>1. /\ PlaybookSteps = {1, 2} /\ sort_order = [s \in {1, 2} |-> s]
      /\ sort_order[1] = 1 /\ sort_order[2] = 2
      /\ made = 2 /\ refused = {} /\ \A e \in Editors : request[e] = None /\ request[e].op = "none"
      /\ request = [e \in Editors |-> None]
  BY DEF PlaybookInit, PlaybookSteps, None
<1>2. {1, 2} \subseteq 1 .. 2 /\ {1, 2} \subseteq Steps /\ 2 \in 0 .. MaxSteps
  BY PlaybookAssumption DEF Steps
<1>3. sessions \in Seq([template : SUBSET Steps, items : SUBSET Steps, ticked : SUBSET Steps, told : Nat])
      /\ Len(sessions) = 1
  <2> DEFINE t == [template |-> {1, 2}, items |-> {1, 2}, ticked |-> {}, told |-> 0]
             T == [template : SUBSET Steps, items : SUBSET Steps, ticked : SUBSET Steps, told : Nat]
  <2>1. t \in T
    BY <1>2
  <2>2. sessions = <<t>>
    BY DEF PlaybookInit
  <2> HIDE DEF t, T
  <2>3. sessions \in Seq(T) /\ Len(sessions) = 1
    BY <2>1, <2>2
  <2>4. QED
    BY <2>3 DEF T
<1>4. PlaybookTypeOK
  BY <1>1, <1>2, <1>3, PlaybookAssumption DEF PlaybookTypeOK
<1>5. PlacesAreDistinct
  BY <1>1 DEF PlacesAreDistinct, IsInjective, PlaybookSteps
<1>6. EditorsHold
  BY <1>1 DEF EditorsHold, RowsHeld
<1>7. sort_order \in [PlaybookSteps -> Nat]
  BY <1>1
<1>8. QED
  BY <1>1, <1>2, <1>4, <1>5, <1>6, <1>7 DEF PlaybookInv

\* A request takes a step that leaves the places alone.
LEMMA EditorSteps ==
    ASSUME PlaybookInv, NEW e \in Editors, NEW y \in {None} \cup Creation \cup Move,
           request' = [request EXCEPT ![e] = y], UNCHANGED <<sort_order, sessions>>,
           made' \in made .. MaxSteps, refused' \subseteq Steps
    PROVE  /\ PlaybookTypeOK' /\ sort_order' \in [PlaybookSteps' -> Nat]
           /\ PlaybookSteps' \subseteq 1 .. made' /\ PlacesAreDistinct'
           /\ request' \in [Editors -> {None} \cup Creation \cup Move]
           /\ request'[e] = y /\ \A o \in Editors \ {e} : request'[o] = request[o]
           /\ PlaybookSteps' = PlaybookSteps
<1>1. request' \in [Editors -> {None} \cup Creation \cup Move]
      /\ request'[e] = y /\ \A o \in Editors \ {e} : request'[o] = request[o]
  BY DEF PlaybookInv, EditorsHold
<1>2. \A o \in Editors : request'[o].op \in {"none", "create", "move"}
  BY <1>1 DEF Creation, Move, None
<1>3. /\ PlaybookSteps' = PlaybookSteps /\ made \in 0 .. MaxSteps /\ made' \in 0 .. MaxSteps
      /\ PlaybookSteps' \subseteq 1 .. made'
  BY PlaybookAssumption DEF PlaybookInv, PlaybookTypeOK, PlaybookSteps
<1>4. PlaybookTypeOK'
  BY <1>2, <1>3 DEF PlaybookInv, PlaybookTypeOK
<1>5. PlacesAreDistinct'
  BY DEF PlaybookInv, PlacesAreDistinct, IsInjective
<1>6. QED
  BY <1>1, <1>3, <1>4, <1>5 DEF PlaybookInv

LEMMA PlaybookStep == PlaybookInv /\ [PlaybookNext]_playbookVars => PlaybookInv'
<1> SUFFICES ASSUME PlaybookInv, [PlaybookNext]_playbookVars
             PROVE  PlaybookInv'
  OBVIOUS
<1>a. /\ PlaybookTypeOK /\ sort_order \in [PlaybookSteps -> Nat]
      /\ PlaybookSteps \subseteq 1 .. made /\ PlacesAreDistinct /\ EditorsHold
      /\ made \in 0 .. MaxSteps /\ refused \subseteq Steps /\ PlaybookSteps \subseteq Steps
  BY DEF PlaybookInv, PlaybookTypeOK
<1>b. \A e \in Editors : /\ request[e] \in {None} \cup Creation \cup Move
                         /\ request[e].op = "create" => request[e] \in Creation
                         /\ request[e].op = "move" => request[e] \in Move
                         /\ request[e] = None <=> request[e].op = "none"
  BY <1>a DEF EditorsHold, None, Creation, Move
<1>c. None.op = "none" /\ None \in {None} \cup Creation \cup Move
  BY DEF None
<1>1. ASSUME NEW e \in Editors, CreatePlaybookStep(e)
      PROVE  PlaybookInv'
  <2> DEFINE top == {sort_order[s] + 1 : s \in PlaybookSteps}
             y == [op |-> "create", id |-> made + 1, at |-> Max(top \cup {0})]
  <2>1. /\ request[e] = None /\ made < MaxSteps /\ made' = made + 1
        /\ request' = [request EXCEPT ![e] = y]
        /\ UNCHANGED <<sort_order, sessions, refused>>
    BY <1>1 DEF CreatePlaybookStep
  <2>2. IsFiniteSet(PlaybookSteps)
    <3>1. IsFiniteSet(1 .. MaxSteps)
      BY PlaybookAssumption, FS_Interval
    <3>2. QED
      BY <3>1, <1>a, FS_Subset DEF Steps
  <2>3. IsFiniteSet(top)
    <3> DEFINE f == [s \in PlaybookSteps |-> sort_order[s] + 1]
    <3>1. top = {f[s] : s \in PlaybookSteps}
      OBVIOUS
    <3> HIDE DEF f
    <3>2. QED
      BY <2>2, <3>1, FiniteImage
  <2>4. top \subseteq Nat
    BY <1>a
  <2>5. Max(top \cup {0}) \in Nat
    <3> HIDE DEF top
    <3>1. QED
      BY <2>3, <2>4, NextNumber
  <2> HIDE DEF top
  <2>6. /\ y \in Creation /\ y.op = "create" /\ y.id = made + 1
        /\ made + 1 \notin 1 .. made /\ made + 1 \in Steps /\ made' \in made .. MaxSteps
    BY <2>1, <2>5, <1>a, PlaybookAssumption DEF Creation, Steps
  <2> HIDE DEF y
  <2>7. /\ PlaybookTypeOK' /\ sort_order' \in [PlaybookSteps' -> Nat]
        /\ PlaybookSteps' \subseteq 1 .. made' /\ PlacesAreDistinct'
        /\ request' \in [Editors -> {None} \cup Creation \cup Move]
        /\ request'[e] = y /\ \A o \in Editors \ {e} : request'[o] = request[o]
        /\ PlaybookSteps' = PlaybookSteps
    BY <2>1, <2>6, <1>a, EditorSteps
  <2>8. EditorsHold'
    <3>1. \A o \in Editors : request[o].op = "create" => /\ request[o].id \in 1 .. made
                                                         /\ request[o].id # made + 1
      BY <2>6, <1>a DEF EditorsHold
    <3>2. made + 1 \in 1 .. made' /\ 1 .. made \subseteq 1 .. made'
      BY <2>1, <1>a
    <3>3. \A o \in Editors : request'[o].op = "create" =>
             /\ request'[o].id \in (1 .. made') \ PlaybookSteps'
             /\ \A q \in Editors \ {o} : request'[q].op = "create" => request'[q].id # request'[o].id
      BY <2>1, <2>6, <2>7, <1>a, <3>1, <3>2 DEF EditorsHold
    <3>4. \A o \in Editors : RowsHeld(o)' \subseteq RowsHeld(o)
      BY <2>1, <2>6, <2>7, <1>c DEF RowsHeld
    <3>5. QED
      BY <2>1, <2>6, <2>7, <1>a, <3>3, <3>4 DEF EditorsHold
  <2>9. QED
    BY <2>7, <2>8 DEF PlaybookInv
\* A step finished and taken out of somebody's hands.
<1>2. ASSUME NEW e \in Editors, Finish(e), UNCHANGED <<sort_order, sessions, made>>,
             refused' \subseteq Steps
      PROVE  PlaybookInv'
  <2>1. request' = [request EXCEPT ![e] = None] /\ made' \in made .. MaxSteps
    BY <1>2, <1>a DEF Finish
  <2>2. /\ PlaybookTypeOK' /\ sort_order' \in [PlaybookSteps' -> Nat]
        /\ PlaybookSteps' \subseteq 1 .. made' /\ PlacesAreDistinct'
        /\ request' \in [Editors -> {None} \cup Creation \cup Move]
        /\ request'[e] = None /\ \A o \in Editors \ {e} : request'[o] = request[o]
        /\ PlaybookSteps' = PlaybookSteps
    BY <2>1, <1>2, <1>c, EditorSteps
  <2>3. EditorsHold'
    BY <1>2, <2>2, <1>a, <1>c DEF EditorsHold, RowsHeld
  <2>4. QED
    BY <2>2, <2>3 DEF PlaybookInv
<1>3. ASSUME NEW e \in Editors, Created(e)
      PROVE  PlaybookInv'
  <2> DEFINE order == [n \in PlaybookSteps \cup {request[e].id} |->
                          IF n = request[e].id THEN request[e].at ELSE sort_order[n]]
  <2>1. /\ request[e].op = "create" /\ Finish(e) /\ UNCHANGED <<sessions, made, refused>>
        /\ sort_order' = IF Admitted(order) THEN order ELSE sort_order
    BY <1>3 DEF Created
  <2>2. CASE sort_order' = sort_order
    BY <1>2, <2>1, <2>2, <1>a
  <2>3. CASE Admitted(order) /\ sort_order' = order
    <3>1. /\ request[e].id \in Steps /\ request[e].at \in Nat /\ request[e].id \in 1 .. made
          /\ request[e].id \notin PlaybookSteps
      BY <2>1, <1>a, <1>b DEF EditorsHold, Creation
    <3>2. /\ PlaybookSteps' = PlaybookSteps \cup {request[e].id}
          /\ sort_order' \in [PlaybookSteps' -> Nat]
          /\ \A n \in PlaybookSteps : sort_order'[n] = sort_order[n]
      BY <2>3, <3>1, <1>a DEF PlaybookSteps
    <3>3. PlacesAreDistinct'
      BY <2>3 DEF Admitted, PlacesAreDistinct
    <3>4. /\ request' \in [Editors -> {None} \cup Creation \cup Move]
          /\ request'[e] = None /\ \A o \in Editors \ {e} : request'[o] = request[o]
      BY <2>1, <1>a, <1>c DEF Finish, EditorsHold
    <3>5. EditorsHold'
      <4>1. \A o \in Editors : request'[o].op = "create" =>
               /\ request'[o].id \in (1 .. made') \ PlaybookSteps'
               /\ \A q \in Editors \ {o} : request'[q].op = "create" => request'[q].id # request'[o].id
        BY <2>1, <3>2, <3>4, <1>a, <1>c DEF EditorsHold
      <4>2. \A o \in Editors : RowsHeld(o)' \subseteq RowsHeld(o)
        BY <3>4, <1>c DEF RowsHeld
      <4>3. ASSUME NEW o \in Editors, request'[o].op = "move"
            PROVE  /\ request'[o].step \in PlaybookSteps' \cap request'[o].held
                   /\ request'[o].sortOrder = sort_order'[request'[o].step]
        <5>1. request'[o] = request[o] /\ request[o].op = "move"
          BY <3>4, <4>3, <1>c
        <5>2. /\ request[o].step \in PlaybookSteps \cap request[o].held
              /\ request[o].sortOrder = sort_order[request[o].step]
          BY <5>1, <1>a DEF EditorsHold
        <5>3. QED
          BY <3>2, <5>1, <5>2
      <4>4. QED
        BY <3>4, <1>a, <4>1, <4>2, <4>3 DEF EditorsHold
    <3>6. PlaybookTypeOK'
      <4>1. \A o \in Editors : request'[o].op \in {"none", "create", "move"}
        BY <3>4 DEF Creation, Move, None
      <4>2. QED
        BY <2>1, <3>1, <3>2, <4>1, <1>a DEF PlaybookTypeOK
    <3>7. QED
      BY <2>1, <3>1, <3>2, <3>3, <3>5, <3>6, <1>a DEF PlaybookInv
  <2>4. QED
    BY <2>1, <2>2, <2>3
<1>4. ASSUME NEW e \in Editors, FindNeighbour(e)
      PROVE  PlaybookInv'
  <2> DEFINE found == {<<sort_order[s], s>> :
                          s \in {n \in PlaybookSteps : Beyond(request[e], sort_order[n])}}
             y == [request[e] EXCEPT !.found = TRUE, !.rest = found]
  <2>1. /\ request[e].op = "move" /\ request' = [request EXCEPT ![e] = y]
        /\ UNCHANGED <<sort_order, sessions, made, refused>>
    BY <1>4 DEF FindNeighbour
  <2>2. found \in SUBSET (Nat \X Steps)
    <3>1. \A s \in PlaybookSteps : sort_order[s] \in Nat /\ s \in Steps
      BY <1>a
    <3>2. QED
      BY <3>1
  <2> HIDE DEF found
  <2>3. /\ y \in Move /\ y.op = "move" /\ y.step = request[e].step
        /\ y.held = request[e].held /\ y.sortOrder = request[e].sortOrder
    BY <2>1, <2>2, <1>b DEF Move
  <2> HIDE DEF y
  <2>4. /\ PlaybookTypeOK' /\ sort_order' \in [PlaybookSteps' -> Nat]
        /\ PlaybookSteps' \subseteq 1 .. made' /\ PlacesAreDistinct'
        /\ request' \in [Editors -> {None} \cup Creation \cup Move]
        /\ request'[e] = y /\ \A o \in Editors \ {e} : request'[o] = request[o]
        /\ PlaybookSteps' = PlaybookSteps
    <3>1. made' \in made .. MaxSteps
      BY <2>1, <1>a
    <3>2. QED
      BY <2>1, <2>3, <1>a, <3>1, EditorSteps
  <2>5. EditorsHold'
    BY <2>1, <2>3, <2>4, <1>a DEF EditorsHold, RowsHeld
  <2>6. QED
    BY <2>4, <2>5 DEF PlaybookInv
\* A neighbour has another place than the step, so half a swap is never admitted.
<1>5. ASSUME NEW e \in Editors, LockNeighbour(e)
      PROVE  PlaybookInv'
  <2> DEFINE x == request[e]
             n == Nearest(x)[2]
  <2>1. /\ x.op = "move" /\ ~LockedByOther(e, n) /\ UNCHANGED <<sessions, made>>
        /\ x \in Move /\ x.step \in PlaybookSteps /\ x.sortOrder = sort_order[x.step]
        /\ x.step \in Steps /\ x.sortOrder \in Nat /\ x.step \in x.held
    BY <1>5, <1>a, <1>b DEF LockNeighbour, EditorsHold, Move
  <2> HIDE DEF n
  <2>2. CASE n \in PlaybookSteps /\ Beyond(x, sort_order[n])
    <3>1. n # x.step /\ sort_order[n] \in Nat
      BY <2>1, <2>2, <1>a DEF Beyond
    <3>2. ~Admitted(HalfSwapped(x, n))
      <4> DEFINE h == HalfSwapped(x, n)
      <4>1. /\ DOMAIN h = PlaybookSteps /\ h[x.step] = sort_order[n] /\ h[n] = sort_order[n]
        BY <2>1, <2>2, <3>1, <1>a DEF HalfSwapped, PlaybookSteps
      <4> HIDE DEF h
      <4>2. ~IsInjective(h)
        BY <4>1, <2>1, <2>2, <3>1 DEF IsInjective
      <4>3. QED
        BY <4>2 DEF Admitted, h
    <3>3. refused' = refused \cup {x.step} /\ UNCHANGED sort_order /\ Finish(e)
      BY <1>5, <2>2, <3>2 DEF LockNeighbour, n
    <3>4. QED
      BY <1>2, <2>1, <3>3, <1>a
  <2>3. CASE ~(n \in PlaybookSteps /\ Beyond(x, sort_order[n]))
    <3> DEFINE y == [x EXCEPT !.rest = x.rest \ {Nearest(x)},
                              !.held = x.held \cup ({n} \cap PlaybookSteps)]
    <3>1. /\ request' = [request EXCEPT ![e] = y] /\ UNCHANGED <<sort_order, refused>>
      BY <1>5, <2>3 DEF LockNeighbour, n
    <3>6. made' \in made .. MaxSteps
      BY <2>1, <1>a
    <3>2. /\ y \in Move /\ y.op = "move" /\ y.step = x.step
          /\ y.held = x.held \cup ({n} \cap PlaybookSteps) /\ y.sortOrder = x.sortOrder
      BY <2>1, <1>a DEF Move
    <3> HIDE DEF y
    <3>3. /\ PlaybookTypeOK' /\ sort_order' \in [PlaybookSteps' -> Nat]
          /\ PlaybookSteps' \subseteq 1 .. made' /\ PlacesAreDistinct'
          /\ request' \in [Editors -> {None} \cup Creation \cup Move]
          /\ request'[e] = y /\ \A o \in Editors \ {e} : request'[o] = request[o]
          /\ PlaybookSteps' = PlaybookSteps
      BY <3>1, <3>2, <3>6, <2>1, <1>a, EditorSteps
    <3>4. EditorsHold'
      <4>1. \A o \in Editors \ {e} : RowsHeld(o)' = RowsHeld(o) /\ n \notin RowsHeld(o)
        BY <3>3, <2>1 DEF RowsHeld, LockedByOther
      <4>2. RowsHeld(e)' = x.held \cup ({n} \cap PlaybookSteps) /\ RowsHeld(e) = x.held
        BY <3>2, <3>3, <2>1 DEF RowsHeld
      <4>3. \A c, o \in Editors : c # o => RowsHeld(c)' \cap RowsHeld(o)' = {}
        BY <4>1, <4>2, <1>a DEF EditorsHold
      <4>4. QED
        BY <3>1, <3>2, <3>3, <4>3, <2>1, <1>a DEF EditorsHold
    <3>5. QED
      BY <3>3, <3>4 DEF PlaybookInv
  <2>4. QED
    BY <2>2, <2>3
<1>6. ASSUME NEW e \in Editors, Drop(e)
      PROVE  PlaybookInv'
  BY <1>2, <1>6, <1>a DEF Drop
<1>7. ASSUME NEW e \in Editors, NEW s \in PlaybookSteps, DeletePlaybookStep(e, s)
      PROVE  PlaybookInv'
  <2>1. /\ request[e] = None /\ ~LockedByOther(e, s)
        /\ sort_order' = Restrict(sort_order, PlaybookSteps \ {s})
        /\ UNCHANGED <<request, sessions, made, refused>>
    BY <1>7 DEF DeletePlaybookStep
  <2>2. /\ PlaybookSteps' = PlaybookSteps \ {s}
        /\ sort_order' \in [PlaybookSteps' -> Nat]
        /\ \A n \in PlaybookSteps' : sort_order'[n] = sort_order[n]
    BY <2>1, <1>a DEF Restrict, PlaybookSteps
  <2>3. PlacesAreDistinct'
    BY <2>2, <1>a DEF PlacesAreDistinct, IsInjective, PlaybookSteps
  <2>4. EditorsHold'
    <3>1. \A o \in Editors : RowsHeld(o)' = RowsHeld(o) /\ s \notin RowsHeld(o)
      BY <2>1, <1>c DEF RowsHeld, LockedByOther
    <3>2. \A o \in Editors : request[o].op = "move" => request[o].step # s
      BY <3>1, <1>a DEF EditorsHold, RowsHeld
    <3>3. QED
      BY <2>1, <2>2, <3>1, <3>2, <1>a DEF EditorsHold
  <2>5. PlaybookTypeOK'
    BY <2>1, <2>2, <1>a DEF PlaybookTypeOK
  <2>6. QED
    BY <2>1, <2>2, <2>3, <2>4, <2>5, <1>a DEF PlaybookInv
<1>8. ASSUME NEW e \in Editors, NEW s \in PlaybookSteps, NEW d \in {"up", "down"},
             MovePlaybookStep(e, s, d)
      PROVE  PlaybookInv'
  <2> DEFINE y == [op |-> "move", step |-> s, direction |-> d, held |-> {s},
                   sortOrder |-> sort_order[s], rest |-> {}, found |-> FALSE]
  <2>1. /\ request[e] = None /\ ~LockedByOther(e, s) /\ request' = [request EXCEPT ![e] = y]
        /\ UNCHANGED <<sort_order, sessions, made, refused>> /\ made' \in made .. MaxSteps
    BY <1>8, <1>a DEF MovePlaybookStep
  <2>2. /\ y \in Move /\ y.op = "move" /\ y.step = s /\ y.held = {s}
        /\ y.sortOrder = sort_order[s]
    BY <1>a DEF Move
  <2> HIDE DEF y
  <2>3. /\ PlaybookTypeOK' /\ sort_order' \in [PlaybookSteps' -> Nat]
        /\ PlaybookSteps' \subseteq 1 .. made' /\ PlacesAreDistinct'
        /\ request' \in [Editors -> {None} \cup Creation \cup Move]
        /\ request'[e] = y /\ \A o \in Editors \ {e} : request'[o] = request[o]
        /\ PlaybookSteps' = PlaybookSteps
    BY <2>1, <2>2, <1>a, EditorSteps
  <2>4. EditorsHold'
    <3>1. \A o \in Editors \ {e} : RowsHeld(o)' = RowsHeld(o) /\ s \notin RowsHeld(o)
      BY <2>3, <2>1 DEF RowsHeld, LockedByOther
    <3>2. RowsHeld(e)' = {s}
      BY <2>2, <2>3 DEF RowsHeld
    <3>3. \A c, o \in Editors : c # o => RowsHeld(c)' \cap RowsHeld(o)' = {}
      BY <3>1, <3>2, <1>a DEF EditorsHold
    <3>4. QED
      BY <2>1, <2>2, <2>3, <3>3, <1>a DEF EditorsHold
  <2>5. QED
    BY <2>3, <2>4 DEF PlaybookInv
<1>9. ASSUME UNCHANGED <<sort_order, request, made, refused>>,
             sessions' \in Seq([template : SUBSET Steps, items : SUBSET Steps,
                                ticked : SUBSET Steps, told : Nat]),
             Len(sessions') <= MaxSessions
      PROVE  PlaybookInv'
  <2>1. PlaybookTypeOK' /\ PlacesAreDistinct' /\ PlaybookSteps' = PlaybookSteps
    BY <1>9, <1>a DEF PlaybookTypeOK, PlaybookSteps, PlacesAreDistinct
  <2>2. EditorsHold'
    BY <1>9, <2>1, <1>a DEF EditorsHold, RowsHeld
  <2>3. QED
    BY <1>9, <2>1, <2>2, <1>a DEF PlaybookInv
<1>10. CASE OpenSession
  <2> DEFINE t == [template |-> PlaybookSteps, items |-> {}, ticked |-> {}, told |-> 0]
             T == [template : SUBSET Steps, items : SUBSET Steps, ticked : SUBSET Steps, told : Nat]
  <2>1. /\ Len(sessions) < MaxSessions /\ sessions' = Append(sessions, t)
        /\ UNCHANGED <<sort_order, request, made, refused>>
    BY <1>10 DEF OpenSession
  <2>2. t \in T /\ sessions \in Seq(T)
    BY <1>a DEF PlaybookTypeOK
  <2> HIDE DEF t, T
  <2>3. sessions' \in Seq(T) /\ Len(sessions') <= MaxSessions
    BY <2>1, <2>2, PlaybookAssumption
  <2>4. QED
    BY <1>9, <2>1, <2>3 DEF T
<1>11. ASSUME NEW n \in DOMAIN sessions, NEW item \in Steps, ToggleChecklistItem(n, item)
       PROVE  PlaybookInv'
  <2> DEFINE t == [sessions[n] EXCEPT !.ticked = Toggled(sessions[n].ticked, item), !.told = 1]
             T == [template : SUBSET Steps, items : SUBSET Steps, ticked : SUBSET Steps, told : Nat]
  <2>1. /\ sessions' = [sessions EXCEPT ![n] = t]
        /\ UNCHANGED <<sort_order, request, made, refused>>
    BY <1>11 DEF ToggleChecklistItem
  <2>2. sessions \in Seq(T) /\ Len(sessions) <= MaxSessions
    BY <1>a DEF PlaybookTypeOK
  <2>3. sessions[n] \in T
    <3> HIDE DEF T
    <3>1. QED
      BY <2>2
  <2>4. t \in T
    BY <2>3 DEF Toggled
  <2> HIDE DEF t, T
  <2>5. sessions' \in Seq(T) /\ Len(sessions') = Len(sessions)
    BY <2>1, <2>2, <2>4
  <2>6. QED
    BY <1>9, <2>1, <2>2, <2>5 DEF T
<1>12. CASE UNCHANGED playbookVars
  <2>1. UNCHANGED <<sort_order, request, sessions, made, refused>>
    BY <1>12 DEF playbookVars
  <2>2. QED
    BY <1>9, <2>1, <1>a DEF PlaybookTypeOK
<1>13. QED
  BY <1>1, <1>3, <1>4, <1>5, <1>6, <1>7, <1>8, <1>10, <1>11, <1>12 DEF PlaybookNext

-----------------------------------------------------------------------------
(* The plan of a session: rows that are assigned, and pages that know them. *)

PlanRow == [id : Nat, of : Plans, setter : SettersOf, wall : Spots \cup {Anywhere}, grades : Grades]
StripRow == [id : Nat, of : Plans, wall : Spots]
PlanPage == [of : Plans \cup {NoPlan}, assigned : SUBSET PlanRow, strips : SUBSET StripRow]
PlanSteps == {"idle", "assign", "unassign", "strip", "delete", "clear", "remove"}
PlanRequest == [pc : PlanSteps, of : Plans \cup {NoPlan}, dropped : SUBSET PlanRow, page : PlanPage]

\* A deletion holds the session's row, and what it has dropped is all there is.
PlannersHold ==
    /\ planner \in [Planners -> PlanRequest]
    /\ \A p \in Planners :
          /\ planner[p].pc # "idle" => planner[p].of \in Plans
          /\ planner[p].pc \in {"clear", "remove"} => heldBy[planner[p].of] = p
          /\ planner[p].pc # "remove" => planner[p].dropped = {}
          /\ planner[p].pc = "remove" => planner[p].dropped = Cleared(planner[p].of)

SameRow(a, b) == a.of = b.of /\ a.setter = b.setter /\ a.wall = b.wall

\* An id names one row, and so do session, setter and wall.
PlanRows ==
    /\ assigned \subseteq PlanRow /\ strips \subseteq StripRow
    /\ \A t \in strips : t.id < rowsMade
    /\ \A a \in assigned : a.id < rowsMade
    /\ \A a, b \in assigned :
          a.id = b.id \/ (a.wall # Anywhere /\ SameRow(a, b)) => a = b

\* A row on a page may be gone, but if it is there it is in its place.
PagesHold ==
    \A p \in Planners : \A seen \in planner[p].page.assigned :
        /\ seen.id < rowsMade
        /\ \A a \in assigned : a.id = seen.id => SameRow(a, seen)

StandsAt(a, s, u, w) == a.of = s /\ a.setter = u /\ a.wall = w

\* On a wall stands what was last asked for.
AskedStands ==
    /\ asked \in [Plans -> [SettersOf -> [Spots -> Grades \cup {"none"}]]]
    /\ \A s \in Plans, u \in SettersOf, w \in Spots :
          /\ \A a \in assigned : StandsAt(a, s, u, w) => a.grades = asked[s][u][w]
          /\ asked[s][u][w] # "none" => \E a \in assigned : StandsAt(a, s, u, w)

RowsHaveTheirPlan ==
    /\ \A x \in assigned : plan[x.of] = "there"
    /\ \A t \in strips : plan[t.of] = "there"
    /\ undeleted = {}

PlanInv == PlanTypeOK /\ PlannersHold /\ PlanRows /\ PagesHold /\ AskedStands /\ RowsHaveTheirPlan

LEMMA PlanBegins == PlanInit => PlanInv
<1> SUFFICES ASSUME PlanInit
             PROVE  PlanInv
  OBVIOUS
<1>1. Resting \in PlanRequest /\ Resting.pc = "idle" /\ Resting.dropped = {}
      /\ Resting.page.assigned = {}
  BY DEF Resting, Unread, PlanRequest, PlanPage, PlanSteps
<1>2. planner \in [Planners -> PlanRequest] /\ \A p \in Planners : planner[p] = Resting
  BY <1>1 DEF PlanInit
<1>3. PlannersHold /\ PagesHold
  BY <1>1, <1>2 DEF PlannersHold, PagesHold
<1>4. PlanTypeOK
  BY SessionPlanAssumption DEF PlanInit, PlanTypeOK
<1>5. PlanRows /\ RowsHaveTheirPlan
  BY DEF PlanInit, PlanRows, RowsHaveTheirPlan
<1>6. AskedStands
  <2>1. \A s \in Plans, u \in SettersOf, w \in Spots : asked[s][u][w] = "none"
    BY DEF PlanInit
  <2>2. QED
    BY <2>1 DEF PlanInit, AskedStands
<1>7. QED
  BY <1>3, <1>4, <1>5, <1>6 DEF PlanInv

\* What stands is what PlanHolds calls for.
LEMMA PlanIsHeld == PlanInv => PlanTypeOK /\ PlanHolds
<1> SUFFICES ASSUME PlanInv
             PROVE  PlanHolds
  BY DEF PlanInv
<1>1. ASSUME NEW s \in Plans, NEW u \in SettersOf, NEW w \in Spots
      PROVE  {a.grades : a \in {b \in assigned : <<b.of, b.setter, b.wall>> = <<s, u, w>>}}
                = {asked[s][u][w]} \ {"none"}
  <2> DEFINE here == {b \in assigned : <<b.of, b.setter, b.wall>> = <<s, u, w>>}
  <2>1. \A a \in here : a.grades = asked[s][u][w] /\ a.grades # "none"
    BY SessionPlanAssumption DEF PlanInv, AskedStands, StandsAt, PlanRows, PlanRow
  <2>2. asked[s][u][w] # "none" => here # {}
    BY DEF PlanInv, AskedStands, StandsAt
  <2> HIDE DEF here
  <2>3. {a.grades : a \in here} = {asked[s][u][w]} \ {"none"}
    BY <2>1, <2>2
  <2>4. QED
    BY <2>3 DEF here
<1>2. QED
  BY <1>1 DEF PlanHolds, PlanInv, RowsHaveTheirPlan

\* A request takes a step, and with it perhaps a lock that is free or its own.
LEMMA PlannerSteps ==
    ASSUME PlanInv, NEW p \in Planners, NEW y \in PlanRequest,
           planner' = [planner EXCEPT ![p] = y],
           heldBy' \in [Plans -> Planners \cup {NoPlan}],
           \A s \in Plans : heldBy[s] \notin {p, NoPlan} => heldBy'[s] = heldBy[s],
           y.pc # "idle" => y.of \in Plans,
           y.pc \in {"clear", "remove"} => heldBy'[y.of] = p,
           y.pc # "remove" => y.dropped = {},
           y.pc = "remove" => y.dropped = {a \in assigned' : a.of = y.of},
           \A q \in Planners \ {p} : planner[q].pc = "remove" =>
               {a \in assigned' : a.of = planner[q].of} = Cleared(planner[q].of),
           \A seen \in y.page.assigned :
               /\ seen.id < rowsMade
               /\ \A a \in assigned : a.id = seen.id => SameRow(a, seen),
           rowsMade' \in Nat, rowsMade <= rowsMade',
           \A a \in assigned' : \/ a.id = rowsMade
                                \/ \E b \in assigned : b.id = a.id /\ SameRow(a, b)
    PROVE  PlannersHold' /\ PagesHold'
<1>1. /\ planner' \in [Planners -> PlanRequest]
      /\ planner'[p] = y /\ \A q \in Planners \ {p} : planner'[q] = planner[q]
  BY DEF PlanInv, PlannersHold
<1>2. PlannersHold'
  <2>1. ASSUME NEW q \in Planners \ {p}
        PROVE  /\ planner'[q].pc # "idle" => planner'[q].of \in Plans
               /\ planner'[q].pc \in {"clear", "remove"} => heldBy'[planner'[q].of] = q
               /\ planner'[q].pc # "remove" => planner'[q].dropped = {}
               /\ planner'[q].pc = "remove" =>
                     planner'[q].dropped = {a \in assigned' : a.of = planner'[q].of}
    <3>1. q \notin {p, NoPlan}
      BY SessionPlanAssumption
    <3>2. planner'[q] = planner[q]
      BY <1>1
    <3>3. /\ planner[q].pc # "idle" => planner[q].of \in Plans
          /\ planner[q].pc \in {"clear", "remove"} => heldBy[planner[q].of] = q
          /\ planner[q].pc # "remove" => planner[q].dropped = {}
          /\ planner[q].pc = "remove" => planner[q].dropped = Cleared(planner[q].of)
      BY DEF PlanInv, PlannersHold
    <3>4. planner[q].pc \in {"clear", "remove"} =>
             planner[q].of \in Plans /\ heldBy'[planner[q].of] = q
      BY <3>1, <3>3
    <3>5. QED
      BY <3>2, <3>3, <3>4
  <2>2. \A q \in Planners : q = p \/ q \in Planners \ {p}
    OBVIOUS
  <2>3. QED
    BY <1>1, <2>1, <2>2 DEF PlannersHold, Cleared
<1>3. PagesHold'
  <2>1. \A q \in Planners : \A seen \in planner'[q].page.assigned :
           /\ seen.id < rowsMade /\ seen \in PlanRow
           /\ \A a \in assigned : a.id = seen.id => SameRow(a, seen)
    <3>1. \A q \in Planners : planner'[q].page.assigned \subseteq PlanRow
      BY <1>1 DEF PlanRequest, PlanPage
    <3>2. QED
      BY <1>1, <3>1 DEF PlanInv, PagesHold
  <2>2. \A q \in Planners : \A seen \in planner'[q].page.assigned :
           /\ seen.id < rowsMade'
           /\ \A a \in assigned' : a.id = seen.id => SameRow(a, seen)
    <3> SUFFICES ASSUME NEW q \in Planners, NEW seen \in planner'[q].page.assigned
                 PROVE  /\ seen.id < rowsMade'
                        /\ \A a \in assigned' : a.id = seen.id => SameRow(a, seen)
      OBVIOUS
    <3>1. seen.id \in Nat /\ rowsMade \in Nat /\ seen.id < rowsMade
      BY <2>1, SessionPlanAssumption DEF PlanRow, PlanInv, PlanTypeOK
    <3>2. seen.id < rowsMade' /\ seen.id # rowsMade
      BY <3>1
    <3>3. ASSUME NEW a \in assigned', a.id = seen.id
          PROVE  SameRow(a, seen)
      <4>1. PICK b \in assigned : b.id = a.id /\ SameRow(a, b)
        BY <3>2, <3>3
      <4>2. SameRow(b, seen)
        BY <4>1, <3>3, <2>1
      <4>3. QED
        BY <4>1, <4>2 DEF SameRow
    <3>4. QED
      BY <3>2, <3>3
  <2>3. QED
    BY <2>2 DEF PagesHold
<1>4. QED
  BY <1>2, <1>3

\* The rows stay.
LEMMA PlannerLooks ==
    ASSUME PlanInv, NEW p \in Planners, NEW y \in PlanRequest,
           planner' = [planner EXCEPT ![p] = y],
           UNCHANGED <<plan, assigned, strips, rowsMade, asked, undeleted>>,
           heldBy' \in [Plans -> Planners \cup {NoPlan}],
           \A s \in Plans : heldBy[s] \notin {p, NoPlan} => heldBy'[s] = heldBy[s],
           y.pc # "idle" => y.of \in Plans,
           y.pc \in {"clear", "remove"} => heldBy'[y.of] = p,
           y.pc # "remove" => y.dropped = {},
           y.pc = "remove" => y.dropped = Cleared(y.of),
           \A seen \in y.page.assigned :
               /\ seen.id < rowsMade
               /\ \A a \in assigned : a.id = seen.id => SameRow(a, seen)
    PROVE  PlanInv'
<1>1. rowsMade \in Nat /\ rowsMade' \in Nat /\ rowsMade <= rowsMade'
  BY SessionPlanAssumption DEF PlanInv, PlanTypeOK
<1>2. /\ \A a \in assigned' : \E b \in assigned : b.id = a.id /\ SameRow(a, b)
      /\ \A s \in Plans : {a \in assigned' : a.of = s} = Cleared(s)
      /\ y.pc = "remove" => y.dropped = {a \in assigned' : a.of = y.of}
  BY DEF SameRow, Cleared
<1>3. \A q \in Planners \ {p} : planner[q].pc = "remove" =>
         {a \in assigned' : a.of = planner[q].of} = Cleared(planner[q].of)
  BY DEF Cleared
<1>4. PlannersHold' /\ PagesHold'
  BY <1>1, <1>2, <1>3, PlannerSteps
<1>5. PlanTypeOK'
  BY DEF PlanInv, PlanTypeOK
<1>6. PlanRows' /\ AskedStands' /\ RowsHaveTheirPlan'
  BY DEF PlanInv, PlanRows, SameRow, AskedStands, StandsAt, RowsHaveTheirPlan
<1>7. QED
  BY <1>4, <1>5, <1>6 DEF PlanInv

\* A request is answered; a change of rows spares those that a deletion has dropped.
LEMMA PlannerAnswers ==
    ASSUME PlanInv, NEW p \in Planners, Answered(p),
           heldBy' \in [Plans -> Planners \cup {NoPlan}],
           \A s \in Plans : heldBy[s] \notin {p, NoPlan} => heldBy'[s] = heldBy[s],
           \A q \in Planners \ {p} : planner[q].pc = "remove" =>
               {a \in assigned' : a.of = planner[q].of} = Cleared(planner[q].of),
           rowsMade' \in Nat, rowsMade <= rowsMade',
           \A a \in assigned' : \/ a.id = rowsMade
                                \/ \E b \in assigned : b.id = a.id /\ SameRow(a, b)
    PROVE  PlannersHold' /\ PagesHold'
<1> DEFINE y == [Resting EXCEPT !.page = planner[p].page]
<1>1. planner[p].page \in PlanPage
  BY DEF PlanInv, PlannersHold, PlanRequest
<1>2. /\ y \in PlanRequest /\ y.pc = "idle" /\ y.dropped = {} /\ y.page = planner[p].page
  BY <1>1 DEF Resting, PlanRequest, PlanSteps
<1>3. planner' = [planner EXCEPT ![p] = y]
  BY DEF Answered
<1> HIDE DEF y
<1>4. \A seen \in y.page.assigned :
         /\ seen.id < rowsMade
         /\ \A a \in assigned : a.id = seen.id => SameRow(a, seen)
  BY <1>2 DEF PlanInv, PagesHold
<1>5. QED
  BY <1>2, <1>3, <1>4, PlannerSteps

\* A request is answered and the rows stay.
LEMMA PlannerRests ==
    ASSUME PlanInv, NEW p \in Planners, Answered(p),
           UNCHANGED <<plan, assigned, strips, rowsMade, asked, undeleted>>,
           heldBy' \in [Plans -> Planners \cup {NoPlan}],
           \A s \in Plans : heldBy[s] \notin {p, NoPlan} => heldBy'[s] = heldBy[s]
    PROVE  PlanInv'
<1> DEFINE y == [Resting EXCEPT !.page = planner[p].page]
<1>1. planner[p].page \in PlanPage
  BY DEF PlanInv, PlannersHold, PlanRequest
<1>2. /\ y \in PlanRequest /\ y.pc = "idle" /\ y.dropped = {} /\ y.page = planner[p].page
  BY <1>1 DEF Resting, PlanRequest, PlanSteps
<1>3. planner' = [planner EXCEPT ![p] = y]
  BY DEF Answered
<1> HIDE DEF y
<1>4. \A seen \in y.page.assigned :
         /\ seen.id < rowsMade
         /\ \A a \in assigned : a.id = seen.id => SameRow(a, seen)
  BY <1>2 DEF PlanInv, PagesHold
<1>5. QED
  BY <1>2, <1>3, <1>4, PlannerLooks

\* AddAssignment: a row that is there gets the grades, or a row is added.
LEMMA PlanAssigned ==
    ASSUME PlanInv, NEW p \in Planners, NEW u \in SettersOf, NEW w \in Spots \cup {Anywhere},
           NEW g \in Grades, Assign(p, u, w, g)
    PROVE  PlanInv'
<1> DEFINE s == planner[p].of
           same == {a \in assigned : a.of = s /\ a.setter = u /\ a.wall = w /\ w # Anywhere}
           row == [id |-> rowsMade, of |-> s, setter |-> u, wall |-> w, grades |-> g]
<1>1. /\ Doing(p, "assign") /\ Answered(p) /\ UNCHANGED <<plan, heldBy, strips, undeleted>>
      /\ \A a \in same : ~Dropping(a)
      /\ same = {} => Unlocked(s) /\ rowsMade < MaxRows
      /\ IF same # {}
         THEN /\ assigned' = (assigned \ same) \cup {Upserted(a, g) : a \in same}
              /\ UNCHANGED rowsMade
         ELSE IF plan[s] = "there"
         THEN assigned' = assigned \cup {row} /\ rowsMade' = rowsMade + 1
         ELSE UNCHANGED <<assigned, rowsMade>>
      /\ asked' = IF w # Anywhere /\ plan[s] = "there"
                  THEN [asked EXCEPT ![s][u][w] = g] ELSE asked
  BY DEF Assign
<1>2. /\ s \in Plans /\ rowsMade \in Nat /\ rowsMade <= MaxRows /\ MaxRows \in Nat
      /\ assigned \subseteq PlanRow
      /\ row \in PlanRow /\ row.id = rowsMade /\ row.of = s /\ row.setter = u /\ row.wall = w
      /\ row.grades = g
      /\ heldBy \in [Plans -> Planners \cup {NoPlan}]
  BY <1>1, SessionPlanAssumption DEF Doing, PlanInv, PlannersHold, PlanTypeOK, PlanRows, PlanRow
<1>a. asked \in [Plans -> [SettersOf -> [Spots -> Grades \cup {"none"}]]]
      /\ Anywhere \notin Spots
  BY SessionPlanAssumption DEF PlanInv, AskedStands
<1>b. ASSUME w # Anywhere, plan[s] = "there"
      PROVE  /\ asked' \in [Plans -> [SettersOf -> [Spots -> Grades \cup {"none"}]]]
             /\ asked'[s][u][w] = g
             /\ \A s2 \in Plans, u2 \in SettersOf, w2 \in Spots :
                   ~(s2 = s /\ u2 = u /\ w2 = w) => asked'[s2][u2][w2] = asked[s2][u2][w2]
  <2>1. w \in Spots /\ asked' = [asked EXCEPT ![s][u][w] = g]
    BY <1>1, <1>b
  <2> HIDE DEF s
  <2>2. QED
    BY <2>1, <1>2, <1>a
\* The row is there.
<1>3. CASE same # {}
  <2>1. PICK a0 \in assigned : same = {a0} /\ a0.of = s /\ a0.setter = u /\ a0.wall = w
                               /\ w # Anywhere
    <3>1. PICK a0 \in same : TRUE
      BY <1>3
    <3>2. \A a \in same : a = a0
      BY <3>1 DEF PlanInv, PlanRows, SameRow
    <3>3. same = {a0}
      BY <3>1, <3>2
    <3>4. QED
      BY <3>1, <3>3
  <2> DEFINE a1 == Upserted(a0, g)
  <2>2. /\ a1 \in PlanRow /\ a1.id = a0.id /\ a1.of = s /\ a1.setter = u /\ a1.wall = w
        /\ a1.grades = g /\ SameRow(a1, a0)
    BY <2>1, <1>2 DEF Upserted, PlanRow, SameRow
  <2>3. /\ assigned' = (assigned \ {a0}) \cup {a1} /\ rowsMade' = rowsMade /\ ~Dropping(a0)
        /\ plan[s] = "there"
    BY <1>1, <1>3, <2>1 DEF PlanInv, RowsHaveTheirPlan
  <2> HIDE DEF a1, s
  <2>4. \A a \in assigned' : a = a1 \/ (a \in assigned /\ a # a0)
    BY <2>3
  <2>5. PlannersHold' /\ PagesHold'
    <3>1. \A a \in assigned' : \E b \in assigned : b.id = a.id /\ SameRow(a, b)
      BY <2>1, <2>2, <2>4 DEF SameRow
    <3>2. ASSUME NEW q \in Planners \ {p}, planner[q].pc = "remove"
          PROVE  {a \in assigned' : a.of = planner[q].of} = Cleared(planner[q].of)
      <4>1. a0 \notin Cleared(planner[q].of)
        BY <2>3, <3>2 DEF Dropping, PlanInv, PlannersHold
      <4>2. s # planner[q].of
        BY <4>1, <2>1 DEF Cleared
      <4>3. QED
        BY <4>1, <4>2, <2>2, <2>3 DEF Cleared
    <3>3. heldBy' = heldBy
      BY <1>1
    <3>4. QED
      BY <1>1, <1>2, <2>3, <3>1, <3>2, <3>3, PlannerAnswers
  <2>6. PlanTypeOK'
    BY <1>1, <2>2, <2>3, <2>4, <2>1 DEF PlanInv, PlanTypeOK
  <2>7. PlanRows'
    <3>1. \A a, b \in assigned : a.id = b.id \/ (a.wall # Anywhere /\ SameRow(a, b)) => a = b
      BY DEF PlanInv, PlanRows
    <3>2. \A a \in assigned' : a.id = a1.id \/ (a.wall # Anywhere /\ SameRow(a, a1)) => a = a1
      BY <3>1, <2>1, <2>2, <2>4 DEF SameRow
    <3>3. \A a \in assigned' : a1.id = a.id \/ (a1.wall # Anywhere /\ SameRow(a1, a)) => a = a1
      BY <3>1, <2>1, <2>2, <2>4 DEF SameRow
    <3>4. \A a \in assigned' : a \in PlanRow /\ a.id < rowsMade'
      BY <2>1, <2>2, <2>3, <2>4 DEF PlanInv, PlanRows
    <3>5. QED
      BY <1>1, <2>3, <2>4, <3>1, <3>2, <3>3, <3>4 DEF PlanInv, PlanRows
  <2>8. AskedStands'
    <3>1. /\ asked' \in [Plans -> [SettersOf -> [Spots -> Grades \cup {"none"}]]]
          /\ asked'[s][u][w] = g
          /\ \A s2 \in Plans, u2 \in SettersOf, w2 \in Spots :
                ~(s2 = s /\ u2 = u /\ w2 = w) => asked'[s2][u2][w2] = asked[s2][u2][w2]
      BY <1>b, <2>1, <2>3 DEF s
    <3>2. ASSUME NEW s2 \in Plans, NEW u2 \in SettersOf, NEW w2 \in Spots
          PROVE  /\ \A a \in assigned' : StandsAt(a, s2, u2, w2) => a.grades = asked'[s2][u2][w2]
                 /\ asked'[s2][u2][w2] # "none" => \E a \in assigned' : StandsAt(a, s2, u2, w2)
      <4>1. CASE s2 = s /\ u2 = u /\ w2 = w
        <5>1. \A a \in assigned' : StandsAt(a, s2, u2, w2) => a = a1
          BY <4>1, <2>1, <2>2, <2>4, <1>a DEF StandsAt, PlanInv, PlanRows, SameRow
        <5>2. StandsAt(a1, s2, u2, w2) /\ a1 \in assigned'
          BY <4>1, <2>2, <2>3 DEF StandsAt
        <5>3. QED
          BY <4>1, <3>1, <5>1, <5>2, <2>2
      <4>2. CASE ~(s2 = s /\ u2 = u /\ w2 = w)
        <5>1. \A a \in assigned' : StandsAt(a, s2, u2, w2) => a \in assigned
          BY <4>2, <2>2, <2>4 DEF StandsAt
        <5>2. \A a \in assigned : StandsAt(a, s2, u2, w2) => a \in assigned'
          BY <4>2, <2>1, <2>3 DEF StandsAt
        <5>3. asked'[s2][u2][w2] = asked[s2][u2][w2]
          BY <3>1, <4>2
        <5>4. QED
          BY <5>1, <5>2, <5>3 DEF PlanInv, AskedStands
      <4>3. QED
        BY <4>1, <4>2
    <3>3. QED
      BY <3>1, <3>2 DEF AskedStands
  <2>9. RowsHaveTheirPlan'
    BY <1>1, <2>2, <2>3, <2>4 DEF PlanInv, RowsHaveTheirPlan
  <2>10. QED
    BY <2>5, <2>6, <2>7, <2>8, <2>9 DEF PlanInv
\* A row is added.
<1>4. CASE same = {} /\ plan[s] = "there"
  <2>1. /\ assigned' = assigned \cup {row} /\ rowsMade' = rowsMade + 1 /\ Unlocked(s)
        /\ rowsMade < MaxRows
    BY <1>1, <1>4
  <2>2. \A a \in assigned : w # Anywhere => ~StandsAt(a, s, u, w)
    BY <1>4 DEF StandsAt
  <2>3. \A a \in assigned : a.id < rowsMade /\ a.id # rowsMade /\ a.id \in Nat
    BY <1>2 DEF PlanInv, PlanRows, PlanRow
  <2> HIDE DEF row, s, same
  <2>4. PlannersHold' /\ PagesHold'
    <3>1. \A a \in assigned' : a.id = rowsMade \/ \E b \in assigned : b.id = a.id /\ SameRow(a, b)
      BY <2>1, <1>2 DEF SameRow
    <3>2. ASSUME NEW q \in Planners \ {p}, planner[q].pc = "remove"
          PROVE  {a \in assigned' : a.of = planner[q].of} = Cleared(planner[q].of)
      <4>1. heldBy[planner[q].of] = q
        BY <3>2 DEF PlanInv, PlannersHold
      <4>2. s # planner[q].of
        BY <4>1, <2>1, SessionPlanAssumption DEF Unlocked
      <4>3. QED
        BY <4>2, <2>1, <1>2 DEF Cleared
    <3>3. heldBy' = heldBy /\ rowsMade' \in Nat /\ rowsMade <= rowsMade'
      BY <1>1, <1>2, <2>1
    <3>4. QED
      BY <1>1, <1>2, <3>1, <3>2, <3>3, PlannerAnswers
  <2>5. PlanTypeOK'
    <3>1. rowsMade' \in 0 .. MaxRows /\ rowsMade \in 0 .. MaxRows - 1
      BY <1>2, <2>1
    <3>2. \A a \in assigned' : a.of \in Plans /\ a.id \in 0 .. MaxRows - 1
      BY <2>1, <3>1, <1>2 DEF PlanInv, PlanTypeOK
    <3>3. QED
      BY <1>1, <3>1, <3>2 DEF PlanInv, PlanTypeOK
  <2>6. PlanRows'
    <3>1. \A a \in assigned : ~(a.id = row.id) /\ (a.wall # Anywhere => ~SameRow(a, row))
                              /\ (row.wall # Anywhere => ~SameRow(row, a))
      BY <2>2, <2>3, <1>2 DEF SameRow, StandsAt
    <3>2. rowsMade' \in Nat /\ (\A n \in Nat : n < rowsMade => n < rowsMade') /\ rowsMade < rowsMade'
      BY <2>1, <1>2
    <3>3. (\A a \in assigned : a.id < rowsMade') /\ (\A t \in strips' : t.id < rowsMade')
      BY <1>1, <2>3, <3>2 DEF PlanInv, PlanRows, StripRow
    <3>4. \A a, b \in assigned : a.id = b.id \/ (a.wall # Anywhere /\ SameRow(a, b)) => a = b
      BY DEF PlanInv, PlanRows
    <3>5. assigned' \subseteq PlanRow /\ strips' \subseteq StripRow
          /\ \A a \in assigned' : a.id < rowsMade'
      BY <1>1, <1>2, <2>1, <3>2, <3>3 DEF PlanInv, PlanRows
    <3>6. \A a, b \in assigned' : a.id = b.id \/ (a.wall # Anywhere /\ SameRow(a, b)) => a = b
      BY <2>1, <3>1, <3>4
    <3>7. QED
      BY <3>3, <3>5, <3>6 DEF PlanRows
  <2>7. AskedStands'
    <3>1. CASE w = Anywhere
      <4>1. asked' = asked
        BY <1>1, <3>1
      <4>2. \A s2 \in Plans, u2 \in SettersOf, w2 \in Spots : ~StandsAt(row, s2, u2, w2)
        BY <3>1, <1>2, <1>a DEF StandsAt
      <4>3. QED
        BY <4>1, <4>2, <2>1 DEF PlanInv, AskedStands
    <3>2. CASE w # Anywhere
      <4>1. /\ asked' \in [Plans -> [SettersOf -> [Spots -> Grades \cup {"none"}]]]
            /\ asked'[s][u][w] = g
            /\ \A s2 \in Plans, u2 \in SettersOf, w2 \in Spots :
                  ~(s2 = s /\ u2 = u /\ w2 = w) => asked'[s2][u2][w2] = asked[s2][u2][w2]
        BY <1>b, <1>4, <3>2
      <4>2. \A s2 \in Plans, u2 \in SettersOf, w2 \in Spots :
               StandsAt(row, s2, u2, w2) <=> s2 = s /\ u2 = u /\ w2 = w
        BY <1>2 DEF StandsAt
      <4>3. ASSUME NEW s2 \in Plans, NEW u2 \in SettersOf, NEW w2 \in Spots
            PROVE  /\ \A a \in assigned' : StandsAt(a, s2, u2, w2) => a.grades = asked'[s2][u2][w2]
                   /\ asked'[s2][u2][w2] # "none" => \E a \in assigned' : StandsAt(a, s2, u2, w2)
        <5>1. CASE s2 = s /\ u2 = u /\ w2 = w
          BY <5>1, <4>1, <4>2, <2>1, <2>2, <3>2, <1>2
        <5>2. CASE ~(s2 = s /\ u2 = u /\ w2 = w)
          BY <5>2, <4>1, <4>2, <2>1 DEF PlanInv, AskedStands
        <5>3. QED
          BY <5>1, <5>2
      <4>4. QED
        BY <4>1, <4>3 DEF AskedStands
    <3>3. QED
      BY <3>1, <3>2
  <2>8. RowsHaveTheirPlan'
    BY <1>1, <1>2, <1>4, <2>1 DEF PlanInv, RowsHaveTheirPlan
  <2>9. QED
    BY <2>4, <2>5, <2>6, <2>7, <2>8 DEF PlanInv
\* The session is gone.
<1>5. CASE same = {} /\ plan[s] # "there"
  <2>1. UNCHANGED <<plan, assigned, strips, rowsMade, asked, undeleted, heldBy>>
    BY <1>1, <1>5
  <2>2. heldBy' \in [Plans -> Planners \cup {NoPlan}]
        /\ \A c \in Plans : heldBy[c] \notin {p, NoPlan} => heldBy'[c] = heldBy[c]
    BY <2>1, <1>2
  <2>3. QED
    BY <1>1, <2>1, <2>2, PlannerRests
<1>6. QED
  BY <1>3, <1>4, <1>5

\* RemoveAssignment: the row of an id on the page, if it is there.
LEMMA PlanUnassigned ==
    ASSUME PlanInv, NEW p \in Planners, NEW seen \in planner[p].page.assigned, Unassign(p, seen)
    PROVE  PlanInv'
<1> DEFINE s == planner[p].of
           hit == RemoveAssignment(s, seen.id)
<1>1. /\ Doing(p, "unassign") /\ Answered(p) /\ UNCHANGED <<plan, heldBy, strips, rowsMade, undeleted>>
      /\ \A a \in hit : ~Dropping(a)
      /\ assigned' = assigned \ hit
      /\ asked' = IF hit # {} /\ seen.wall # Anywhere
                  THEN [asked EXCEPT ![seen.of][seen.setter][seen.wall] = "none"] ELSE asked
  BY DEF Unassign
<1>2. /\ s \in Plans /\ rowsMade \in Nat /\ seen \in PlanRow
      /\ assigned \subseteq PlanRow /\ heldBy \in [Plans -> Planners \cup {NoPlan}]
  BY <1>1, SessionPlanAssumption DEF Doing, PlanInv, PlannersHold, PlanTypeOK, PlanRows,
     PlanRequest, PlanPage
<1>3. CASE hit = {}
  <2>1. UNCHANGED <<plan, assigned, strips, rowsMade, asked, undeleted, heldBy>>
    BY <1>1, <1>3
  <2>2. heldBy' \in [Plans -> Planners \cup {NoPlan}]
        /\ \A c \in Plans : heldBy[c] \notin {p, NoPlan} => heldBy'[c] = heldBy[c]
    BY <2>1, <1>2
  <2>3. QED
    BY <1>1, <2>1, <2>2, PlannerRests
<1>4. CASE hit # {}
  <2>1. PICK a0 \in assigned : hit = {a0} /\ a0.of = s /\ SameRow(a0, seen) /\ a0.id = seen.id
    <3>1. PICK a0 \in hit : TRUE
      BY <1>4
    <3>2. \A a \in hit : a = a0 /\ a \in assigned
      BY <3>1 DEF RemoveAssignment, PlanInv, PlanRows
    <3>3. SameRow(a0, seen) /\ a0.of = s /\ a0.id = seen.id
      BY <3>1 DEF RemoveAssignment, PlanInv, PagesHold
    <3>4. QED
      BY <3>1, <3>2, <3>3
  <2>2. /\ assigned' = assigned \ {a0} /\ ~Dropping(a0)
        /\ asked' = IF a0.wall # Anywhere
                    THEN [asked EXCEPT ![s][a0.setter][a0.wall] = "none"] ELSE asked
    BY <1>1, <2>1 DEF SameRow
  <2> HIDE DEF s, hit
  <2>3. /\ a0.setter \in SettersOf /\ a0.wall \in Spots \cup {Anywhere}
        /\ asked \in [Plans -> [SettersOf -> [Spots -> Grades \cup {"none"}]]]
        /\ Anywhere \notin Spots
    BY <1>2, SessionPlanAssumption DEF PlanInv, AskedStands, PlanRow
  <2>4. PlannersHold' /\ PagesHold'
    <3>1. \A a \in assigned' : \E b \in assigned : b.id = a.id /\ SameRow(a, b)
      BY <2>2 DEF SameRow
    <3>2. ASSUME NEW q \in Planners \ {p}, planner[q].pc = "remove"
          PROVE  {a \in assigned' : a.of = planner[q].of} = Cleared(planner[q].of)
      <4>1. a0 \notin Cleared(planner[q].of)
        BY <2>2, <3>2 DEF Dropping, PlanInv, PlannersHold
      <4>2. QED
        BY <4>1, <2>2 DEF Cleared
    <3>3. heldBy' = heldBy /\ rowsMade' \in Nat /\ rowsMade <= rowsMade'
      BY <1>1, <1>2
    <3>4. QED
      BY <1>1, <1>2, <3>1, <3>2, <3>3, PlannerAnswers
  <2>5. PlanTypeOK' /\ PlanRows' /\ RowsHaveTheirPlan'
    BY <1>1, <2>2 DEF PlanInv, PlanTypeOK, PlanRows, RowsHaveTheirPlan, SameRow
  <2>6. AskedStands'
    <3>1. /\ asked' \in [Plans -> [SettersOf -> [Spots -> Grades \cup {"none"}]]]
          /\ \A s2 \in Plans, u2 \in SettersOf, w2 \in Spots :
                asked'[s2][u2][w2] = IF StandsAt(a0, s2, u2, w2) THEN "none" ELSE asked[s2][u2][w2]
      BY <2>1, <2>2, <2>3, <1>2 DEF StandsAt
    <3>2. ASSUME NEW s2 \in Plans, NEW u2 \in SettersOf, NEW w2 \in Spots
          PROVE  /\ \A a \in assigned' : StandsAt(a, s2, u2, w2) => a.grades = asked'[s2][u2][w2]
                 /\ asked'[s2][u2][w2] # "none" => \E a \in assigned' : StandsAt(a, s2, u2, w2)
      <4>1. CASE StandsAt(a0, s2, u2, w2)
        <5>1. \A a \in assigned : StandsAt(a, s2, u2, w2) => a = a0
          BY <4>1, <2>1, <2>3 DEF StandsAt, PlanInv, PlanRows, SameRow
        <5>2. QED
          BY <4>1, <3>1, <5>1, <2>2
      <4>2. CASE ~StandsAt(a0, s2, u2, w2)
        BY <4>2, <3>1, <2>2 DEF PlanInv, AskedStands
      <4>3. QED
        BY <4>1, <4>2
    <3>3. QED
      BY <3>1, <3>2 DEF AskedStands
  <2>7. QED
    BY <2>4, <2>5, <2>6 DEF PlanInv
<1>5. QED
  BY <1>3, <1>4

\* The strip list of a session changes.
LEMMA StripsChange ==
    ASSUME PlanInv, NEW p \in Planners, Answered(p),
           UNCHANGED <<plan, heldBy, assigned, asked, undeleted>>,
           rowsMade' \in 0 .. MaxRows, rowsMade <= rowsMade',
           \A t \in strips' : t \in strips \/ (/\ t \in StripRow /\ t.id < rowsMade'
                                              /\ plan[t.of] = "there")
    PROVE  PlanInv'
<1>1. rowsMade \in Nat /\ rowsMade' \in Nat
  BY SessionPlanAssumption DEF PlanInv, PlanTypeOK
<1>2. PlannersHold' /\ PagesHold'
  <2>1. \A a \in assigned' : \E b \in assigned : b.id = a.id /\ SameRow(a, b)
    BY DEF SameRow
  <2>2. \A q \in Planners \ {p} : planner[q].pc = "remove" =>
           {a \in assigned' : a.of = planner[q].of} = Cleared(planner[q].of)
    BY DEF Cleared
  <2>3. heldBy' \in [Plans -> Planners \cup {NoPlan}]
        /\ \A c \in Plans : heldBy[c] \notin {p, NoPlan} => heldBy'[c] = heldBy[c]
    BY DEF PlanInv, PlanTypeOK
  <2>4. QED
    BY <1>1, <2>1, <2>2, <2>3, PlannerAnswers
<1>3. PlanTypeOK'
  BY DEF PlanInv, PlanTypeOK, StripRow
<1>4. PlanRows'
  <2>1. \A n \in Nat : n < rowsMade => n < rowsMade'
    BY <1>1
  <2>2. \A a \in assigned : a.id \in Nat
    BY DEF PlanInv, PlanRows, PlanRow
  <2>3. \A t \in strips : t.id \in Nat /\ t \in StripRow
    BY DEF PlanInv, PlanRows, StripRow
  <2>4. QED
    BY <2>1, <2>2, <2>3 DEF PlanInv, PlanRows, SameRow
<1>5. AskedStands' /\ RowsHaveTheirPlan'
  BY DEF PlanInv, AskedStands, StandsAt, RowsHaveTheirPlan
<1>6. QED
  BY <1>2, <1>3, <1>4, <1>5 DEF PlanInv

\* Delete: the rows that do not cascade are all cleared, so it is not refused.
LEMMA PlanRemoved ==
    ASSUME PlanInv, NEW p \in Planners, RemovePlan(p)
    PROVE  PlanInv'
<1> DEFINE s == planner[p].of
<1>1. /\ Doing(p, "remove") /\ s \in Plans /\ heldBy[s] = p /\ planner[p].dropped = Cleared(s)
  BY DEF RemovePlan, Doing, PlanInv, PlannersHold
<1>2. ~\E a \in assigned \ planner[p].dropped : a.of = s
  BY <1>1 DEF Cleared
<1>3. /\ plan' = [plan EXCEPT ![s] = "gone"]
      /\ assigned' = assigned \ Cleared(s)
      /\ strips' = {t \in strips : t.of # s}
      /\ asked' = [asked EXCEPT ![s] = [u \in SettersOf |-> [w \in Spots |-> "none"]]]
      /\ undeleted' = undeleted
      /\ heldBy' = [heldBy EXCEPT ![s] = NoPlan]
      /\ Answered(p) /\ rowsMade' = rowsMade
  BY <1>1, <1>2 DEF RemovePlan
<1> HIDE DEF s
<1>4. \A a \in assigned' : a \in assigned /\ a.of # s
  BY <1>3 DEF Cleared
<1>5. PlannersHold' /\ PagesHold'
  <2>1. \A a \in assigned' : \E b \in assigned : b.id = a.id /\ SameRow(a, b)
    BY <1>4 DEF SameRow
  <2>2. ASSUME NEW q \in Planners \ {p}, planner[q].pc = "remove"
        PROVE  {a \in assigned' : a.of = planner[q].of} = Cleared(planner[q].of)
    <3>1. planner[q].of # s
      BY <2>2, <1>1 DEF PlanInv, PlannersHold
    <3>2. QED
      BY <3>1, <1>3 DEF Cleared
  <2>3. /\ heldBy' \in [Plans -> Planners \cup {NoPlan}]
        /\ \A c \in Plans : heldBy[c] \notin {p, NoPlan} => heldBy'[c] = heldBy[c]
    BY <1>1, <1>3 DEF PlanInv, PlanTypeOK
  <2>4. rowsMade' \in Nat /\ rowsMade <= rowsMade'
    BY <1>3, SessionPlanAssumption DEF PlanInv, PlanTypeOK
  <2>5. QED
    BY <1>3, <2>1, <2>2, <2>3, <2>4, PlannerAnswers
<1>6. PlanTypeOK'
  <2>1. \A x \in assigned' : x.of \in Plans /\ x.id \in 0 .. MaxRows - 1
    BY <1>4 DEF PlanInv, PlanTypeOK
  <2>2. plan' \in [Plans -> {"none", "there", "gone"}]
        /\ heldBy' \in [Plans -> Planners \cup {NoPlan}]
    BY <1>3 DEF PlanInv, PlanTypeOK
  <2>3. QED
    BY <1>3, <2>1, <2>2 DEF PlanInv, PlanTypeOK
<1>7. PlanRows'
  BY <1>3, <1>4 DEF PlanInv, PlanRows, SameRow
<1>8. RowsHaveTheirPlan'
  BY <1>3, <1>4 DEF PlanInv, RowsHaveTheirPlan, PlanTypeOK
<1>9. AskedStands'
  <2>1. asked' \in [Plans -> [SettersOf -> [Spots -> Grades \cup {"none"}]]]
    BY <1>3 DEF PlanInv, AskedStands
  <2>2. \A s2 \in Plans, u2 \in SettersOf, w2 \in Spots :
           asked'[s2][u2][w2] = IF s2 = s THEN "none" ELSE asked[s2][u2][w2]
    BY <1>3 DEF PlanInv, AskedStands
  <2>3. ASSUME NEW s2 \in Plans, NEW u2 \in SettersOf, NEW w2 \in Spots
        PROVE  /\ \A a \in assigned' : StandsAt(a, s2, u2, w2) => a.grades = asked'[s2][u2][w2]
               /\ asked'[s2][u2][w2] # "none" => \E a \in assigned' : StandsAt(a, s2, u2, w2)
    <3>1. CASE s2 = s
      BY <3>1, <2>2, <1>4 DEF StandsAt
    <3>2. CASE s2 # s
      BY <3>2, <2>2, <1>3 DEF StandsAt, Cleared, PlanInv, AskedStands
    <3>3. QED
      BY <3>1, <3>2
  <2>4. QED
    BY <2>1, <2>3 DEF AskedStands
<1>10. QED
  BY <1>5, <1>6, <1>7, <1>8, <1>9 DEF PlanInv

LEMMA PlanStep == PlanInv /\ [PlanNext]_planVars => PlanInv'
<1> SUFFICES ASSUME PlanInv, [PlanNext]_planVars
             PROVE  PlanInv'
  OBVIOUS
<1>a. /\ plan \in [Plans -> {"none", "there", "gone"}]
      /\ heldBy \in [Plans -> Planners \cup {NoPlan}] /\ rowsMade \in 0 .. MaxRows /\ rowsMade \in Nat
  BY SessionPlanAssumption DEF PlanInv, PlanTypeOK
<1>b. \A p \in Planners : /\ planner[p] \in PlanRequest
                          /\ planner[p].pc # "idle" => planner[p].of \in Plans
                          /\ planner[p].pc # "remove" => planner[p].dropped = {}
                          /\ \A seen \in planner[p].page.assigned :
                                /\ seen.id < rowsMade
                                /\ \A a \in assigned : a.id = seen.id => SameRow(a, seen)
  BY DEF PlanInv, PlannersHold, PagesHold
<1>1. ASSUME NEW s \in Plans, MakeSession(s)
      PROVE  PlanInv'
  <2>1. /\ plan[s] = "none" /\ plan' = [plan EXCEPT ![s] = "there"]
        /\ UNCHANGED <<heldBy, assigned, strips, planner, rowsMade, asked, undeleted>>
    BY <1>1 DEF MakeSession
  <2>2. PlanTypeOK' /\ RowsHaveTheirPlan'
    BY <2>1 DEF PlanInv, PlanTypeOK, RowsHaveTheirPlan
  <2>3. PlannersHold' /\ PlanRows' /\ PagesHold' /\ AskedStands'
    BY <2>1 DEF PlanInv, PlannersHold, Cleared, PlanRows, SameRow, PagesHold, AskedStands, StandsAt
  <2>4. QED
    BY <2>2, <2>3 DEF PlanInv
<1>2. ASSUME NEW p \in Planners, NEW s \in Plans, LoadSession(p, s)
      PROVE  PlanInv'
  <2> DEFINE here == {a \in assigned : a.of = s}
             page == [of |-> s, assigned |-> here, strips |-> {}]
             y == [planner[p] EXCEPT !.page = page]
  <2>1. /\ Doing(p, "idle") /\ planner' = [planner EXCEPT ![p] = y]
        /\ UNCHANGED <<plan, heldBy, assigned, strips, rowsMade, asked, undeleted>>
    BY <1>2 DEF LoadSession
  <2>2. /\ \A seen \in here : seen.id < rowsMade
        /\ \A seen \in here : \A a \in assigned : a.id = seen.id => SameRow(a, seen)
        /\ here \subseteq PlanRow
    BY DEF PlanInv, PlanRows, SameRow
  <2> HIDE DEF here
  <2>3. page \in PlanPage /\ page.assigned = here
    BY <2>2 DEF PlanPage
  <2> HIDE DEF page
  <2>4. y \in PlanRequest /\ y.pc = "idle" /\ y.dropped = {} /\ y.page = page
    BY <2>1, <2>3, <1>b DEF PlanRequest, Doing
  <2> HIDE DEF y
  <2>5. QED
    BY <2>1, <2>2, <2>3, <2>4, <1>a, PlannerLooks
<1>3. ASSUME NEW p \in Planners, LoadStripTargets(p)
      PROVE  PlanInv'
  <2> DEFINE here == {t \in strips : t.of = planner[p].page.of}
             page == [planner[p].page EXCEPT !.strips = here]
             y == [planner[p] EXCEPT !.page = page]
  <2>1. /\ Doing(p, "idle") /\ planner' = [planner EXCEPT ![p] = y]
        /\ UNCHANGED <<plan, heldBy, assigned, strips, rowsMade, asked, undeleted>>
    BY <1>3 DEF LoadStripTargets
  <2>2. here \subseteq StripRow /\ planner[p].page \in PlanPage
    BY <1>b DEF PlanInv, PlanRows, PlanRequest
  <2> HIDE DEF here
  <2>3. page \in PlanPage /\ page.assigned = planner[p].page.assigned
    BY <2>2 DEF PlanPage
  <2> HIDE DEF page
  <2>4. y \in PlanRequest /\ y.pc = "idle" /\ y.dropped = {} /\ y.page = page
    BY <2>1, <2>3, <1>b DEF PlanRequest, Doing
  <2> HIDE DEF y
  <2>5. QED
    BY <2>1, <2>3, <2>4, <1>a, <1>b, PlannerLooks
<1>4. ASSUME NEW p \in Planners, NEW s \in Plans,
             NEW pc \in {"assign", "unassign", "strip", "delete"}, Resolve(p, s, pc)
      PROVE  PlanInv'
  <2> DEFINE y == [planner[p] EXCEPT !.pc = pc, !.of = s]
  <2>1. /\ Doing(p, "idle") /\ planner' = [planner EXCEPT ![p] = y]
        /\ UNCHANGED <<plan, heldBy, assigned, strips, rowsMade, asked, undeleted>>
    BY <1>4 DEF Resolve
  <2>2. y \in PlanRequest /\ y.pc = pc /\ y.of = s /\ y.dropped = {} /\ y.page = planner[p].page
    BY <2>1, <1>b DEF PlanRequest, PlanSteps, Doing
  <2> HIDE DEF y
  <2>3. pc \notin {"clear", "remove"}
    OBVIOUS
  <2>4. QED
    BY <2>1, <2>2, <2>3, <1>a, <1>b, PlannerLooks
<1>5. ASSUME NEW p \in Planners, LockPlan(p)
      PROVE  PlanInv'
  <2> DEFINE s == planner[p].of
             y == [planner[p] EXCEPT !.pc = "clear"]
  <2>1. /\ Doing(p, "delete") /\ Unlocked(s) /\ s \in Plans
        /\ UNCHANGED <<plan, assigned, strips, rowsMade, asked, undeleted>>
        /\ \/ heldBy' = [heldBy EXCEPT ![s] = p] /\ planner' = [planner EXCEPT ![p] = y]
           \/ Answered(p) /\ heldBy' = heldBy
    BY <1>5, <1>b DEF LockPlan, Doing
  <2>2. CASE heldBy' = [heldBy EXCEPT ![s] = p] /\ planner' = [planner EXCEPT ![p] = y]
    <3>1. y \in PlanRequest /\ y.pc = "clear" /\ y.of = s /\ y.dropped = {} /\ y.page = planner[p].page
      BY <2>1, <1>b DEF PlanRequest, PlanSteps, Doing
    <3> HIDE DEF y
    <3>2. /\ heldBy' \in [Plans -> Planners \cup {NoPlan}] /\ heldBy'[s] = p
          /\ \A c \in Plans : heldBy[c] \notin {p, NoPlan} => heldBy'[c] = heldBy[c]
      BY <2>1, <2>2, <1>a DEF Unlocked
    <3>3. QED
      BY <2>1, <2>2, <3>1, <3>2, <1>b, PlannerLooks
  <2>3. CASE Answered(p) /\ heldBy' = heldBy
    BY <2>1, <2>3, <1>a, PlannerRests
  <2>4. QED
    BY <2>1, <2>2, <2>3
<1>6. ASSUME NEW p \in Planners, ClearPlan(p)
      PROVE  PlanInv'
  <2> DEFINE s == planner[p].of
             y == [planner[p] EXCEPT !.pc = "remove", !.dropped = Cleared(s)]
  <2>1. /\ Doing(p, "clear") /\ planner' = [planner EXCEPT ![p] = y]
        /\ UNCHANGED <<plan, heldBy, assigned, strips, rowsMade, asked, undeleted>>
    BY <1>6 DEF ClearPlan
  <2>2. /\ s \in Plans /\ heldBy[s] = p /\ Cleared(s) \subseteq PlanRow
    BY <2>1 DEF Doing, Cleared, PlanInv, PlannersHold, PlanRows
  <2>3. /\ y \in PlanRequest /\ y.pc = "remove" /\ y.of = s /\ y.dropped = Cleared(s)
        /\ y.page = planner[p].page
    BY <2>2, <1>b DEF PlanRequest, PlanSteps
  <2> HIDE DEF y, s
  <2>4. QED
    BY <2>1, <2>2, <2>3, <1>a, <1>b, PlannerLooks
<1>7. ASSUME NEW p \in Planners, GiveUp(p)
      PROVE  PlanInv'
  <2>1. /\ heldBy' = [s \in Plans |-> IF heldBy[s] = p THEN NoPlan ELSE heldBy[s]]
        /\ Answered(p) /\ UNCHANGED <<plan, assigned, strips, rowsMade, asked, undeleted>>
    BY <1>7 DEF GiveUp
  <2>2. /\ heldBy' \in [Plans -> Planners \cup {NoPlan}]
        /\ \A c \in Plans : heldBy[c] \notin {p, NoPlan} => heldBy'[c] = heldBy[c]
    BY <2>1, <1>a
  <2>3. QED
    BY <2>1, <2>2, PlannerRests
<1>8. ASSUME NEW p \in Planners, NEW w \in Spots, PlanStrip(p, w)
      PROVE  PlanInv'
  <2> DEFINE s == planner[p].of
             t == [id |-> rowsMade, of |-> s, wall |-> w]
  <2>1. /\ Doing(p, "strip") /\ s \in Plans /\ rowsMade < MaxRows /\ Answered(p)
        /\ UNCHANGED <<plan, heldBy, assigned, asked, undeleted>>
        /\ \/ strips' = strips \cup {t} /\ rowsMade' = rowsMade + 1 /\ plan[s] = "there"
           \/ UNCHANGED <<strips, rowsMade>>
    BY <1>8, <1>b DEF PlanStrip, Doing
  <2>2. t \in StripRow /\ t.id = rowsMade /\ t.of = s
    BY <2>1, <1>a DEF StripRow
  <2> HIDE DEF t
  <2>3. rowsMade' \in 0 .. MaxRows /\ rowsMade <= rowsMade'
        /\ (rowsMade' = rowsMade + 1 => rowsMade < rowsMade')
    BY <2>1, <1>a, SessionPlanAssumption
  <2>4. \A x \in strips' : x \in strips \/ (/\ x \in StripRow /\ x.id < rowsMade'
                                            /\ plan[x.of] = "there")
    BY <2>1, <2>2, <2>3
  <2>5. QED
    BY <2>1, <2>3, <2>4, StripsChange
<1>9. ASSUME NEW p \in Planners, NEW seen \in planner[p].page.strips, UnplanStrip(p, seen)
      PROVE  PlanInv'
  <2>1. /\ Answered(p) /\ UNCHANGED <<plan, heldBy, assigned, rowsMade, asked, undeleted>>
        /\ \A x \in strips' : x \in strips
    BY <1>9 DEF UnplanStrip
  <2>2. rowsMade' \in 0 .. MaxRows /\ rowsMade <= rowsMade'
    BY <2>1, <1>a
  <2>3. QED
    BY <2>1, <2>2, StripsChange
<1>10. CASE UNCHANGED planVars
  <2>1. UNCHANGED <<plan, heldBy, assigned, strips, planner, rowsMade, asked, undeleted>>
    BY <1>10 DEF planVars
  <2>2. QED
    BY <2>1 DEF PlanInv, PlanTypeOK, PlannersHold, Cleared, PlanRows, SameRow, PagesHold,
                AskedStands, StandsAt, RowsHaveTheirPlan
<1>11. QED
  BY <1>1, <1>2, <1>3, <1>4, <1>5, <1>6, <1>7, <1>8, <1>9, <1>10, PlanAssigned, PlanUnassigned,
     PlanRemoved DEF PlanNext

-----------------------------------------------------------------------------
(* Photos: rows, objects, and the requests between them.                    *)

PhotoRow == [id : 1 .. MaxPhotos, key : Millis, sort_order : Nat, uploaded_by : Uploaders]
UploadCall == [op : {"upload"},
               step : {"loaded", "counted", "processing", "stored", "ordered", "saved"},
               key : Millis \cup {NoPhoto}, sort_order : Nat, first : BOOLEAN]
DeleteCall == [op : {"delete"}, step : {"row", "object", "primary"}, photo : PhotoRow,
               primary : BOOLEAN]

Uploading(c) == call[c].op = "upload" /\ call[c].step \in {"stored", "ordered"}
Deleting(c) == call[c].op = "delete"

CallsHold ==
    /\ call \in [Uploaders -> {NoCall} \cup UploadCall \cup DeleteCall]
    /\ \A c \in Uploaders :
          call[c].op = "upload" /\ call[c].step \in {"stored", "ordered", "saved"} =>
              call[c].key \in Millis

\* A key is given out once: it is an upload's, then a row's, then a deletion's.
KeysMeanOneThing ==
    /\ \A p \in photos : p.key \in used
    /\ \A p, q \in photos : p.key = q.key => p = q
    /\ \A c \in Uploaders : Uploading(c) =>
          /\ call[c].key \in used
          /\ \A p \in photos : p.key # call[c].key
          /\ \A d \in Uploaders \ {c} : Uploading(d) => call[d].key # call[c].key
          /\ \A d \in Uploaders : Deleting(d) => call[d].photo.key # call[c].key
    /\ \A d \in Uploaders : Deleting(d) =>
          /\ call[d].photo.key \in used
          /\ \A p \in photos : p.key = call[d].photo.key =>
                p = call[d].photo /\ call[d].step = "row"

\* Those that have looked at the cap and not yet written their row.
Admittees == Calls("upload", {"counted", "processing", "stored", "ordered"})

\* Whoever was let in found the cap unused; the others that were are requests too.
CapIsShared ==
    IsFiniteSet(photos) /\ Cardinality(photos) + Cardinality(Admittees) < PhotoCap + Cardinality(Uploaders)

PhotosInv == PhotosTypeOK /\ CallsHold /\ (~collided => KeysMeanOneThing) /\ CapIsShared

LEMMA AdmitteesAreFew ==
    /\ IsFiniteSet(Admittees) /\ Cardinality(Admittees) \in Nat
    /\ Cardinality(Admittees) <= Cardinality(Uploaders) /\ Cardinality(Uploaders) \in Nat
<1>1. Admittees \subseteq Uploaders
  BY DEF Admittees, Calls
<1>2. QED
  BY <1>1, PhotosAssumption, FS_Subset, FS_CardinalityType

LEMMA PhotosBegin == PhotosInit => PhotosInv
<1> SUFFICES ASSUME PhotosInit
             PROVE  PhotosInv
  OBVIOUS
<1>1. \A c \in Uploaders : call[c] = NoCall /\ call[c].op = "none"
  BY DEF PhotosInit, NoCall
<1>2. PhotosTypeOK
  <2>1. millis \in Millis /\ saved \in 0 .. MaxPhotos
    BY PhotosAssumption DEF PhotosInit, Millis
  <2>2. QED
    BY <1>1, <2>1 DEF PhotosInit, PhotosTypeOK
<1>3. CallsHold
  BY <1>1 DEF PhotosInit, CallsHold
<1>4. KeysMeanOneThing
  BY <1>1 DEF PhotosInit, KeysMeanOneThing, Uploading, Deleting
<1>5. CapIsShared
  <2>1. Cardinality(photos) = 0 /\ IsFiniteSet(photos)
    BY FS_EmptySet DEF PhotosInit
  <2>2. Admittees = {}
    BY <1>1 DEF Admittees, Calls
  <2>3. Cardinality(Admittees) = 0
    BY <2>2, FS_EmptySet
  <2>4. QED
    BY <2>1, <2>3, AdmitteesAreFew, PhotosAssumption DEF CapIsShared
<1>6. QED
  BY <1>2, <1>3, <1>4, <1>5 DEF PhotosInv

\* A set that loses nothing but perhaps one element, or wins one.
LEMMA OneMoreOrLess ==
    ASSUME NEW S, IsFiniteSet(S), NEW x
    PROVE  /\ IsFiniteSet(S \cup {x}) /\ Cardinality(S \cup {x}) <= Cardinality(S) + 1
           /\ IsFiniteSet(S \ {x}) /\ Cardinality(S \ {x}) <= Cardinality(S)
           /\ x \in S => Cardinality(S \ {x}) = Cardinality(S) - 1
           /\ Cardinality(S) \in Nat /\ Cardinality(S \cup {x}) \in Nat
           /\ Cardinality(S \ {x}) \in Nat
<1>1. IsFiniteSet(S \cup {x}) /\ IsFiniteSet(S \ {x}) /\ Cardinality(S) \in Nat
  BY FS_AddElement, FS_RemoveElement, FS_CardinalityType
<1>2. Cardinality(S \cup {x}) \in Nat /\ Cardinality(S \ {x}) \in Nat
  BY <1>1, FS_CardinalityType
<1>3. Cardinality(S \cup {x}) = Cardinality(S) \/ Cardinality(S \cup {x}) = Cardinality(S) + 1
  BY FS_AddElement
<1>4. Cardinality(S \ {x}) = Cardinality(S) \/ Cardinality(S \ {x}) = Cardinality(S) - 1
  BY FS_RemoveElement
<1>5. x \in S => Cardinality(S \ {x}) = Cardinality(S) - 1
  BY FS_RemoveElement
<1>6. QED
  BY <1>1, <1>2, <1>3, <1>4, <1>5

LEMMA CallTypes ==
    ASSUME PhotosInv, NEW c \in Uploaders, NEW y \in {NoCall} \cup UploadCall \cup DeleteCall,
           call' = [call EXCEPT ![c] = y],
           y.op = "upload" /\ y.step \in {"stored", "ordered", "saved"} => y.key \in Millis
    PROVE  /\ CallsHold' /\ \A d \in Uploaders : call'[d].op \in {"none", "upload", "delete"}
           /\ call'[c] = y /\ \A d \in Uploaders \ {c} : call'[d] = call[d]
<1>1. /\ call' \in [Uploaders -> {NoCall} \cup UploadCall \cup DeleteCall]
      /\ call'[c] = y /\ \A d \in Uploaders \ {c} : call'[d] = call[d]
  BY DEF PhotosInv, CallsHold
<1>2. \A d \in Uploaders : call'[d].op \in {"none", "upload", "delete"}
  BY <1>1 DEF NoCall, UploadCall, DeleteCall
<1>3. CallsHold'
  BY <1>1 DEF PhotosInv, CallsHold
<1>4. QED
  BY <1>1, <1>2, <1>3

LEMMA CapIsKept ==
    ASSUME PhotosInv, photos' \subseteq photos,
           \/ \A d \in Uploaders : d \in Admittees' => d \in Admittees
           \/ photos' = photos /\ UnderCap
    PROVE  CapIsShared'
<1>1. /\ IsFiniteSet(photos) /\ IsFiniteSet(photos') /\ Cardinality(photos) \in Nat
      /\ Cardinality(photos') \in Nat /\ Cardinality(photos') <= Cardinality(photos)
  BY FS_Subset, FS_CardinalityType DEF PhotosInv, CapIsShared
<1>2. /\ Admittees' \subseteq Uploaders /\ IsFiniteSet(Admittees') /\ Cardinality(Admittees') \in Nat
      /\ Cardinality(Admittees') <= Cardinality(Uploaders)
  <2>1. Admittees' \subseteq Uploaders
    BY DEF Admittees, Calls
  <2>2. QED
    BY <2>1, PhotosAssumption, FS_Subset, FS_CardinalityType
<1>3. CASE \A d \in Uploaders : d \in Admittees' => d \in Admittees
  <2>1. Cardinality(Admittees') <= Cardinality(Admittees)
    BY <1>2, <1>3, AdmitteesAreFew, FS_Subset
  <2>2. QED
    BY <1>1, <1>2, <2>1, AdmitteesAreFew, PhotosAssumption DEF PhotosInv, CapIsShared
<1>4. CASE photos' = photos /\ UnderCap
  BY <1>1, <1>2, <1>4, AdmitteesAreFew, PhotosAssumption DEF UnderCap, CapIsShared
<1>5. QED
  BY <1>3, <1>4

\* A request goes on, and gives its key to nobody.
LEMMA CallSteps ==
    ASSUME PhotosInv, NEW c \in Uploaders, NEW y \in {NoCall} \cup UploadCall \cup DeleteCall,
           call' = [call EXCEPT ![c] = y],
           UNCHANGED <<photos, millis, saved, used, collided>>,
           objects' \subseteq objects, photo_url' \in Millis \cup {NoPhoto},
           y.op = "upload" /\ y.step \in {"stored", "ordered", "saved"} => y.key \in Millis,
           y.op = "upload" /\ y.step \in {"stored", "ordered"} =>
               Uploading(c) /\ y.key = call[c].key,
           y.op = "delete" /\ ~collided =>
               /\ y.photo.key \in used
               /\ \A p \in photos : p.key = y.photo.key => p = y.photo /\ y.step = "row"
               /\ \A d \in Uploaders \ {c} : Uploading(d) => call[d].key # y.photo.key,
           y.op = "upload" /\ y.step \in {"counted", "processing", "stored", "ordered"} =>
               c \in Admittees \/ UnderCap
    PROVE  PhotosInv'
<1>1. /\ CallsHold' /\ \A d \in Uploaders : call'[d].op \in {"none", "upload", "delete"}
      /\ call'[c] = y /\ \A d \in Uploaders \ {c} : call'[d] = call[d]
  BY CallTypes
<1>2. PhotosTypeOK'
  BY <1>1 DEF PhotosInv, PhotosTypeOK
<1>3. CapIsShared'
  <2>1. \/ \A d \in Uploaders : d \in Admittees' => d \in Admittees
        \/ photos' = photos /\ UnderCap
    BY <1>1 DEF Admittees, Calls
  <2>2. QED
    BY <2>1, CapIsKept
<1>4. ASSUME ~collided
      PROVE  KeysMeanOneThing'
  <2>1. KeysMeanOneThing
    BY <1>4 DEF PhotosInv
  <2>2. \A d \in Uploaders : Uploading(d)' => Uploading(d) /\ call'[d].key = call[d].key
    BY <1>1 DEF Uploading
  <2>3. \A d \in Uploaders : Deleting(d)' =>
           /\ call'[d].photo.key \in used
           /\ \A p \in photos : p.key = call'[d].photo.key =>
                 p = call'[d].photo /\ call'[d].step = "row"
           /\ \A e \in Uploaders : Uploading(e)' => call'[e].key # call'[d].photo.key
    <3>1. ASSUME NEW d \in Uploaders \ {c}, Deleting(d)'
          PROVE  /\ call'[d].photo.key \in used
                 /\ \A p \in photos : p.key = call'[d].photo.key =>
                       p = call'[d].photo /\ call'[d].step = "row"
                 /\ \A e \in Uploaders : Uploading(e)' => call'[e].key # call'[d].photo.key
      <4>1. call'[d] = call[d] /\ Deleting(d)
        BY <1>1, <3>1 DEF Deleting
      <4>2. QED
        BY <4>1, <2>1, <2>2 DEF KeysMeanOneThing
    <3>2. ASSUME Deleting(c)'
          PROVE  /\ call'[c].photo.key \in used
                 /\ \A p \in photos : p.key = call'[c].photo.key =>
                       p = call'[c].photo /\ call'[c].step = "row"
                 /\ \A e \in Uploaders : Uploading(e)' => call'[e].key # call'[c].photo.key
      <4>1. y.op = "delete" /\ ~Uploading(c)'
        BY <1>1, <3>2 DEF Deleting, Uploading
      <4>2. \A e \in Uploaders : Uploading(e)' => e \in Uploaders \ {c} /\ Uploading(e)
                                                  /\ call'[e].key = call[e].key
        BY <4>1, <2>2
      <4>3. QED
        BY <4>1, <4>2, <1>1, <1>4
    <3>3. QED
      BY <3>1, <3>2
  <2>4. QED
    BY <2>1, <2>2, <2>3 DEF KeysMeanOneThing
<1>5. QED
  BY <1>1, <1>2, <1>3, <1>4 DEF PhotosInv

\* StorageService.Upload: a key nobody was given, or a collision.
LEMMA ObjectIsStored ==
    ASSUME PhotosInv, NEW c \in Uploaders, StoreObject(c)
    PROVE  PhotosInv'
<1> DEFINE x == [call[c] EXCEPT !.step = "stored"]
           y == [x EXCEPT !.key = millis]
<1>1. /\ call[c].op = "upload" /\ call[c].step = "processing"
      /\ objects' = objects \cup {millis} /\ used' = used \cup {millis}
      /\ collided' = (collided \/ millis \in used) /\ collided' \in BOOLEAN
      /\ call' = [call EXCEPT ![c] = y]
      /\ UNCHANGED <<photos, photo_url, millis, saved>> /\ millis \in Millis
  BY DEF StoreObject, Calls, PhotosInv, PhotosTypeOK
<1>2. y \in UploadCall /\ y.op = "upload" /\ y.step = "stored" /\ y.key = millis
  <2>1. call[c] \in UploadCall
    BY <1>1 DEF PhotosInv, CallsHold, DeleteCall, NoCall
  <2>2. x \in UploadCall /\ x.op = "upload" /\ x.step = "stored"
    BY <1>1, <2>1 DEF UploadCall
  <2> HIDE DEF x
  <2>3. QED
    BY <1>1, <2>2 DEF UploadCall
<1> HIDE DEF y
<1>3. /\ CallsHold' /\ \A d \in Uploaders : call'[d].op \in {"none", "upload", "delete"}
      /\ call'[c] = y /\ \A d \in Uploaders \ {c} : call'[d] = call[d]
  BY <1>1, <1>2, CallTypes
<1>4. PhotosTypeOK'
  BY <1>1, <1>3 DEF PhotosInv, PhotosTypeOK
<1>5. CapIsShared'
  <2>1. \A d \in Uploaders : d \in Admittees' => d \in Admittees
    BY <1>1, <1>3 DEF Admittees, Calls
  <2>2. QED
    BY <1>1, <2>1, CapIsKept
<1>6. ASSUME ~collided'
      PROVE  KeysMeanOneThing'
  <2>1. KeysMeanOneThing /\ millis \notin used
    BY <1>1, <1>6 DEF PhotosInv
  <2>2. \A d \in Uploaders \ {c} : /\ Uploading(d)' <=> Uploading(d)
                                   /\ Deleting(d)' <=> Deleting(d)
    BY <1>3 DEF Uploading, Deleting
  <2>3. Uploading(c)' /\ ~Deleting(c)' /\ call'[c].key = millis
    BY <1>2, <1>3 DEF Uploading, Deleting
  <2>4. /\ \A p \in photos : p.key # millis
        /\ \A d \in Uploaders : Uploading(d) => call[d].key # millis
        /\ \A d \in Uploaders : Deleting(d) => call[d].photo.key # millis
    BY <2>1 DEF KeysMeanOneThing
  <2>5. QED
    BY <1>1, <1>3, <2>1, <2>2, <2>3, <2>4 DEF KeysMeanOneThing
<1>7. QED
  BY <1>3, <1>4, <1>5, <1>6 DEF PhotosInv

LEMMA PhotoIsSaved ==
    ASSUME PhotosInv, NEW c \in Uploaders, SavePhoto(c)
    PROVE  PhotosInv'
<1> DEFINE row == [id |-> saved + 1, key |-> call[c].key, sort_order |-> call[c].sort_order,
                   uploaded_by |-> c]
           y == IF call[c].first THEN [call[c] EXCEPT !.step = "saved"] ELSE NoCall
<1>1. /\ call[c].op = "upload" /\ call[c].step = "ordered" /\ saved < MaxPhotos
      /\ saved' = saved + 1 /\ photos' = photos \cup {row} /\ call' = [call EXCEPT ![c] = y]
      /\ UNCHANGED <<objects, photo_url, millis, used, collided>>
  BY DEF SavePhoto, Calls, SetStep, HangUp
<1>2. call[c] \in UploadCall /\ call[c].key \in Millis
  BY <1>1 DEF PhotosInv, CallsHold, DeleteCall, NoCall
<1>3. /\ y \in {NoCall} \cup UploadCall
      /\ (y.op = "none" \/ (y.op = "upload" /\ y.step = "saved"))
      /\ (y.op = "upload" => y.key \in Millis)
  BY <1>1, <1>2 DEF UploadCall, NoCall
<1>4. /\ saved' \in 0 .. MaxPhotos /\ saved + 1 \in 1 .. MaxPhotos
  BY <1>1, PhotosAssumption DEF PhotosInv, PhotosTypeOK
<1>5. row \in PhotoRow /\ row.key = call[c].key
  BY <1>2, <1>4 DEF PhotoRow, UploadCall
<1> HIDE DEF y, row
<1>6. /\ CallsHold' /\ \A d \in Uploaders : call'[d].op \in {"none", "upload", "delete"}
      /\ call'[c] = y /\ \A d \in Uploaders \ {c} : call'[d] = call[d]
  BY <1>1, <1>3, CallTypes
<1>7. PhotosTypeOK'
  BY <1>1, <1>4, <1>5, <1>6 DEF PhotosInv, PhotosTypeOK, PhotoRow
<1>8. CapIsShared'
  <2>1. Admittees' = Admittees \ {c} /\ c \in Admittees
    BY <1>1, <1>3, <1>6 DEF Admittees, Calls
  <2>2. Cardinality(Admittees') = Cardinality(Admittees) - 1
    BY <2>1, AdmitteesAreFew, OneMoreOrLess
  <2>3. /\ IsFiniteSet(photos') /\ Cardinality(photos') <= Cardinality(photos) + 1
        /\ Cardinality(photos) \in Nat /\ Cardinality(photos') \in Nat
    BY <1>1, OneMoreOrLess DEF PhotosInv, CapIsShared
  <2>4. QED
    BY <2>2, <2>3, AdmitteesAreFew, PhotosAssumption DEF PhotosInv, CapIsShared
<1>9. ASSUME ~collided'
      PROVE  KeysMeanOneThing'
  <2>1. KeysMeanOneThing /\ Uploading(c)
    BY <1>1, <1>9 DEF PhotosInv, Uploading
  <2>2. \A d \in Uploaders : /\ Uploading(d)' => d # c /\ Uploading(d) /\ call'[d] = call[d]
                             /\ Deleting(d)' => d # c /\ Deleting(d) /\ call'[d] = call[d]
    BY <1>3, <1>6 DEF Uploading, Deleting
  <2>3. /\ row.key \in used /\ \A p \in photos : p.key # row.key
        /\ \A d \in Uploaders \ {c} : Uploading(d) => call[d].key # row.key
        /\ \A d \in Uploaders : Deleting(d) => call[d].photo.key # row.key
    BY <2>1, <1>5 DEF KeysMeanOneThing
  <2>4. QED
    BY <1>1, <2>1, <2>2, <2>3 DEF KeysMeanOneThing
<1>10. QED
  BY <1>6, <1>7, <1>8, <1>9 DEF PhotosInv

LEMMA PhotoRowIsDeleted ==
    ASSUME PhotosInv, NEW c \in Uploaders, DeletePhotoRow(c)
    PROVE  PhotosInv'
<1> DEFINE y == [call[c] EXCEPT !.step = "object"]
<1>1. /\ call[c].op = "delete" /\ photos' = photos \ {call[c].photo}
      /\ call' = [call EXCEPT ![c] = y]
      /\ UNCHANGED <<objects, photo_url, millis, saved, used, collided>>
  BY DEF DeletePhotoRow, Calls, SetStep
<1>2. y \in DeleteCall /\ y.op = "delete" /\ y.photo = call[c].photo
  BY <1>1 DEF PhotosInv, CallsHold, UploadCall, DeleteCall, NoCall
<1> HIDE DEF y
<1>3. /\ CallsHold' /\ \A d \in Uploaders : call'[d].op \in {"none", "upload", "delete"}
      /\ call'[c] = y /\ \A d \in Uploaders \ {c} : call'[d] = call[d]
  BY <1>1, <1>2, CallTypes
<1>4. PhotosTypeOK'
  BY <1>1, <1>3 DEF PhotosInv, PhotosTypeOK
<1>5. CapIsShared'
  <2>1. \A d \in Uploaders : d \in Admittees' => d \in Admittees
    BY <1>2, <1>3 DEF Admittees, Calls
  <2>2. QED
    BY <1>1, <2>1, CapIsKept
<1>6. ASSUME ~collided'
      PROVE  KeysMeanOneThing'
  <2>1. KeysMeanOneThing /\ Deleting(c)
    BY <1>1, <1>6 DEF PhotosInv, Deleting
  <2>2. \A d \in Uploaders : /\ Uploading(d)' => d # c /\ Uploading(d) /\ call'[d] = call[d]
                             /\ Deleting(d)' => Deleting(d) /\ call'[d].photo = call[d].photo
                                                /\ (d # c => call'[d] = call[d])
    BY <1>1, <1>2, <1>3 DEF Uploading, Deleting
  <2>3. \A p \in photos' : p \in photos /\ p.key # call[c].photo.key
    BY <1>1, <2>1 DEF KeysMeanOneThing
  <2>4. QED
    BY <1>1, <2>1, <2>2, <2>3 DEF KeysMeanOneThing
<1>7. QED
  BY <1>3, <1>4, <1>5, <1>6 DEF PhotosInv

\* A request that goes on leaves everything else to the lemma.
LEMMA RequestsGoOn ==
    ASSUME PhotosInv, NEW c \in Uploaders,
           PhotoUpload(c) \/ CountByRoute(c) \/ ProcessImage(c) \/ NextSortOrder(c)
    PROVE  PhotosInv'
<1>1. CASE PhotoUpload(c)
  <2> DEFINE y == [op |-> "upload", step |-> "loaded", key |-> NoPhoto, sort_order |-> 0,
                   first |-> photo_url = NoPhoto]
  <2>1. y \in UploadCall /\ y.op = "upload" /\ y.step = "loaded"
    BY DEF UploadCall
  <2>2. /\ call' = [call EXCEPT ![c] = y] /\ photo_url \in Millis \cup {NoPhoto}
        /\ UNCHANGED <<photos, objects, photo_url, millis, saved, used, collided>>
    BY <1>1 DEF PhotoUpload, PhotosInv, PhotosTypeOK
  <2> HIDE DEF y
  <2>3. QED
    BY <2>1, <2>2, CallSteps
<1>2. CASE CountByRoute(c)
  <2> DEFINE x == [call[c] EXCEPT !.step = "counted"]
             y == IF UnderCap THEN x ELSE NoCall
  <2>1. /\ call[c].op = "upload" /\ call' = [call EXCEPT ![c] = y]
        /\ photo_url \in Millis \cup {NoPhoto}
        /\ UNCHANGED <<photos, objects, photo_url, millis, saved, used, collided>>
    BY <1>2 DEF CountByRoute, Calls, SetStep, HangUp, PhotosInv, PhotosTypeOK
  <2>2. call[c] \in UploadCall
    BY <2>1 DEF PhotosInv, CallsHold, DeleteCall, NoCall
  <2>3. x \in UploadCall /\ x.op = "upload" /\ x.step = "counted"
    BY <2>1, <2>2 DEF UploadCall
  <2> HIDE DEF x
  <2>4. /\ y \in {NoCall} \cup UploadCall
        /\ (y.op = "none" \/ (y.op = "upload" /\ y.step = "counted" /\ UnderCap))
    BY <2>3 DEF NoCall
  <2> HIDE DEF y
  <2>5. QED
    BY <2>1, <2>4, CallSteps
<1>3. CASE ProcessImage(c)
  <2> DEFINE y == [call[c] EXCEPT !.step = "processing"]
  <2>1. /\ call[c].op = "upload" /\ call[c].step = "counted" /\ call' = [call EXCEPT ![c] = y]
        /\ photo_url \in Millis \cup {NoPhoto}
        /\ UNCHANGED <<photos, objects, photo_url, millis, saved, used, collided>>
    BY <1>3 DEF ProcessImage, Calls, SetStep, PhotosInv, PhotosTypeOK
  <2>2. call[c] \in UploadCall /\ c \in Admittees
    BY <2>1 DEF PhotosInv, CallsHold, DeleteCall, NoCall, Admittees, Calls
  <2>3. y \in UploadCall /\ y.op = "upload" /\ y.step = "processing"
    BY <2>1, <2>2 DEF UploadCall
  <2> HIDE DEF y
  <2>4. QED
    BY <2>1, <2>2, <2>3, CallSteps
<1>4. CASE NextSortOrder(c)
  <2> DEFINE n == Max({p.sort_order + 1 : p \in photos} \cup {0})
             x == [call[c] EXCEPT !.step = "ordered"]
             y == [x EXCEPT !.sort_order = n]
  <2>1. /\ call[c].op = "upload" /\ call[c].step = "stored" /\ call' = [call EXCEPT ![c] = y]
        /\ photo_url \in Millis \cup {NoPhoto}
        /\ UNCHANGED <<photos, objects, photo_url, millis, saved, used, collided>>
    BY <1>4 DEF NextSortOrder, Calls, PhotosInv, PhotosTypeOK
  <2>2. call[c] \in UploadCall /\ call[c].key \in Millis /\ c \in Admittees /\ Uploading(c)
    BY <2>1 DEF PhotosInv, CallsHold, DeleteCall, NoCall, Admittees, Calls, Uploading
  <2>3. n \in Nat
    <3> DEFINE f == [p \in photos |-> p.sort_order + 1]
               S == {f[p] : p \in photos}
    <3>1. \A p \in photos : p.sort_order + 1 \in Nat
      BY DEF PhotosInv, PhotosTypeOK
    <3>2. S = {p.sort_order + 1 : p \in photos} /\ S \subseteq Nat
      BY <3>1
    <3>3. IsFiniteSet(S)
      <4> HIDE DEF f
      <4>1. QED
        BY FiniteImage DEF PhotosInv, CapIsShared
    <3> HIDE DEF S
    <3>4. QED
      BY <3>2, <3>3, NextNumber
  <2> HIDE DEF n
  <2>4. x \in UploadCall /\ x.op = "upload" /\ x.step = "ordered" /\ x.key = call[c].key
    BY <2>1, <2>2 DEF UploadCall
  <2> HIDE DEF x
  <2>5. y \in UploadCall /\ y.op = "upload" /\ y.step = "ordered" /\ y.key = call[c].key
    BY <2>3, <2>4 DEF UploadCall
  <2> HIDE DEF y
  <2>6. QED
    BY <2>1, <2>2, <2>5, CallSteps
<1>5. QED
  BY <1>1, <1>2, <1>3, <1>4

\* A request that ends, whatever it was at.
LEMMA RequestsEnd ==
    ASSUME PhotosInv, NEW c \in Uploaders,
           SavePhotoFails(c) \/ SetPrimary(c) \/ NextPrimary(c) \/ CallFails(c)
    PROVE  PhotosInv'
<1>1. photo_url \in Millis \cup {NoPhoto} /\ \A p \in photos : p.key \in Millis
  BY DEF PhotosInv, PhotosTypeOK
<1>2. NoCall.op = "none" /\ NoCall \in {NoCall} \cup UploadCall \cup DeleteCall
  BY DEF NoCall
<1>3. CASE SavePhotoFails(c)
  <2>1. /\ call' = [call EXCEPT ![c] = NoCall] /\ objects' \subseteq objects
        /\ UNCHANGED <<photos, photo_url, millis, saved, used, collided>>
    BY <1>3 DEF SavePhotoFails, HangUp
  <2>2. QED
    BY <1>1, <1>2, <2>1, CallSteps
<1>4. CASE SetPrimary(c)
  <2>1. /\ call' = [call EXCEPT ![c] = NoCall] /\ photo_url' \in {photo_url, call[c].key}
        /\ UNCHANGED <<photos, objects, millis, saved, used, collided>>
        /\ call[c].op = "upload" /\ call[c].step = "saved"
    BY <1>4 DEF SetPrimary, Calls, HangUp
  <2>2. photo_url' \in Millis \cup {NoPhoto}
    BY <1>1, <2>1 DEF PhotosInv, CallsHold
  <2>3. QED
    BY <1>2, <2>1, <2>2, CallSteps
<1>5. CASE NextPrimary(c)
  <2>1. /\ call' = [call EXCEPT ![c] = NoCall]
        /\ UNCHANGED <<photos, objects, millis, saved, used, collided>>
    BY <1>5 DEF NextPrimary, HangUp
  <2>2. photo_url' \in {photo_url, NoPhoto} \cup {p.key : p \in photos}
    BY <1>5 DEF NextPrimary
  <2>3. photo_url' \in Millis \cup {NoPhoto}
    BY <1>1, <2>2
  <2>4. QED
    BY <1>2, <2>1, <2>3, CallSteps
<1>6. CASE CallFails(c)
  <2>1. /\ call' = [call EXCEPT ![c] = NoCall]
        /\ UNCHANGED <<photos, objects, photo_url, millis, saved, used, collided>>
    BY <1>6 DEF CallFails, HangUp
  <2>2. QED
    BY <1>1, <1>2, <2>1, CallSteps
<1>7. QED
  BY <1>3, <1>4, <1>5, <1>6

LEMMA DeletionsGoOn ==
    ASSUME PhotosInv, NEW c \in Uploaders,
           DeleteObject(c) \/ \E p \in photos : PhotoDelete(c, p)
    PROVE  PhotosInv'
<1>1. photo_url \in Millis \cup {NoPhoto}
  BY DEF PhotosInv, PhotosTypeOK
<1>2. CASE DeleteObject(c)
  <2> DEFINE x == [call[c] EXCEPT !.step = "primary"]
             y == IF call[c].primary THEN x ELSE NoCall
  <2>1. /\ call[c].op = "delete" /\ call[c].step = "object"
        /\ call' = [call EXCEPT ![c] = y] /\ objects' \subseteq objects
        /\ UNCHANGED <<photos, photo_url, millis, saved, used, collided>>
    BY <1>2 DEF DeleteObject, Calls, SetStep, HangUp
  <2>2. call[c] \in DeleteCall
    BY <2>1 DEF PhotosInv, CallsHold, UploadCall, NoCall
  <2>3. x \in DeleteCall /\ x.op = "delete" /\ x.step = "primary" /\ x.photo = call[c].photo
    BY <2>1, <2>2 DEF DeleteCall
  <2> HIDE DEF x
  <2>4. /\ y \in {NoCall} \cup DeleteCall
        /\ (y.op = "none" \/ (y.op = "delete" /\ y.photo = call[c].photo))
    BY <2>3 DEF NoCall
  <2> HIDE DEF y
  <2>5. ~collided =>
           /\ call[c].photo.key \in used
           /\ \A p \in photos : p.key # call[c].photo.key
           /\ \A d \in Uploaders : Uploading(d) => call[d].key # call[c].photo.key
    BY <2>1 DEF PhotosInv, KeysMeanOneThing, Deleting
  <2>6. QED
    BY <1>1, <2>1, <2>4, <2>5, CallSteps
<1>3. ASSUME NEW p \in photos, PhotoDelete(c, p)
      PROVE  PhotosInv'
  <2> DEFINE y == [op |-> "delete", step |-> "row", photo |-> p, primary |-> photo_url = p.key]
  <2>1. /\ call' = [call EXCEPT ![c] = y]
        /\ UNCHANGED <<photos, objects, photo_url, millis, saved, used, collided>>
    BY <1>3 DEF PhotoDelete
  <2>2. y \in DeleteCall /\ y.op = "delete" /\ y.photo = p /\ y.step = "row"
    <3>1. p \in PhotoRow
      BY DEF PhotosInv, PhotosTypeOK, PhotoRow
    <3>2. (photo_url = p.key) \in BOOLEAN
      OBVIOUS
    <3>3. QED
      BY <3>1, <3>2 DEF DeleteCall
  <2> HIDE DEF y
  <2>3. ~collided =>
           /\ p.key \in used
           /\ \A q \in photos : q.key = p.key => q = p
           /\ \A d \in Uploaders : Uploading(d) => call[d].key # p.key
    BY DEF PhotosInv, KeysMeanOneThing
  <2>4. QED
    BY <1>1, <2>1, <2>2, <2>3, CallSteps
<1>4. QED
  BY <1>2, <1>3

LEMMA PhotosStep == PhotosInv /\ [PhotosNext]_photoVars => PhotosInv'
<1> SUFFICES ASSUME PhotosInv, [PhotosNext]_photoVars
             PROVE  PhotosInv'
  OBVIOUS
<1>1. CASE UNCHANGED photoVars
  BY <1>1 DEF photoVars, PhotosInv, PhotosTypeOK, CallsHold, KeysMeanOneThing, CapIsShared,
              Uploading, Deleting, Admittees, Calls
<1>2. CASE MilliTicks
  <2>1. millis' \in Millis
    <3>1. millis \in 1 .. MaxMillis /\ millis < MaxMillis /\ millis' = millis + 1
      BY <1>2 DEF MilliTicks, Millis, PhotosInv, PhotosTypeOK
    <3>2. QED
      BY <3>1, PhotosAssumption DEF Millis
  <2>2. UNCHANGED <<photos, objects, photo_url, call, saved, used, collided>>
    BY <1>2 DEF MilliTicks
  <2>3. QED
    BY <2>1, <2>2 DEF PhotosInv, PhotosTypeOK, CallsHold, KeysMeanOneThing, CapIsShared,
                      Uploading, Deleting, Admittees, Calls
<1>3. ASSUME NEW c \in Uploaders,
             \/ \E p \in photos : PhotoDelete(c, p)
             \/ PhotoUpload(c) \/ CountByRoute(c) \/ ProcessImage(c) \/ StoreObject(c)
             \/ NextSortOrder(c) \/ SavePhoto(c) \/ SavePhotoFails(c) \/ SetPrimary(c)
             \/ DeletePhotoRow(c) \/ DeleteObject(c) \/ NextPrimary(c) \/ CallFails(c)
      PROVE  PhotosInv'
  BY <1>3, RequestsGoOn, RequestsEnd, DeletionsGoOn, ObjectIsStored, PhotoIsSaved,
     PhotoRowIsDeleted
<1>4. QED
  BY <1>1, <1>2, <1>3 DEF PhotosNext

\* What a step takes out of the bucket is no other row's object.
LEMMA ObjectsHaveOneRow == PhotosInv /\ [PhotosNext]_photoVars => ObjectsOutliveRows
<1> SUFFICES ASSUME PhotosInv, [PhotosNext]_photoVars, NEW p \in photos, p \in photos',
                    p.key \in objects, p.key \notin objects', ~collided
             PROVE  FALSE
  BY DEF ObjectsOutliveRows
<1>1. KeysMeanOneThing
  BY DEF PhotosInv
<1>2. \E c \in Uploaders : SavePhotoFails(c) \/ DeleteObject(c)
  BY DEF PhotosNext, photoVars, MilliTicks, PhotoDelete, PhotoUpload, CountByRoute, ProcessImage,
         StoreObject, NextSortOrder, SavePhoto, SetPrimary, DeletePhotoRow, NextPrimary, CallFails
<1>3. PICK c \in Uploaders : SavePhotoFails(c) \/ DeleteObject(c)
  BY <1>2
<1>4. CASE SavePhotoFails(c)
  <2>1. Uploading(c) /\ p.key = call[c].key
    BY <1>4 DEF SavePhotoFails, Calls, Uploading
  <2>2. QED
    BY <1>1, <2>1 DEF KeysMeanOneThing
<1>5. CASE DeleteObject(c)
  <2>1. Deleting(c) /\ call[c].step = "object" /\ p.key = call[c].photo.key
    BY <1>5 DEF DeleteObject, ObjectToDelete, Calls, Deleting
  <2>2. QED
    BY <1>1, <2>1 DEF KeysMeanOneThing
<1>6. QED
  BY <1>3, <1>4, <1>5

LEMMA CapIsNearlyHeld == PhotosInv => PhotosTypeOK /\ CapHolds
<1> SUFFICES ASSUME PhotosInv
             PROVE  PhotosTypeOK /\ CapHolds
  OBVIOUS
<1>1. /\ Cardinality(photos) \in Nat
      /\ Cardinality(photos) + Cardinality(Admittees) < PhotoCap + Cardinality(Uploaders)
  BY FS_CardinalityType DEF PhotosInv, CapIsShared
<1>2. CapHolds
  BY <1>1, AdmitteesAreFew, PhotosAssumption DEF CapHolds
<1>3. QED
  BY <1>2 DEF PhotosInv

-----------------------------------------------------------------------------
(* CardBatches: what a print remembers of its batch and of the routes.      *)

IsPrint(j) ==
    j = [op |-> "print", batch |-> j.batch, via |-> j.via, step |-> j.step,
         routes |-> j.routes, of |-> j.of, ever |-> j.ever, always |-> j.always]
IsCard(j) == j = [op |-> "card", step |-> j.step, routes |-> j.routes]

\* Until it has rendered, a print holds a list its batch had since it began, and
\* knows which routes were never gone and which were never there.
PrintHolds(j) ==
    j.op = "print" =>
        /\ IsPrint(j)
        /\ j.step \notin {"printed", "failed"} => j.routes \in j.of
        /\ j.step # "printed" => j.always \subseteq live /\ live \subseteq j.ever
        /\ j.step = "printed" =>
              \E list \in j.of, there \in SUBSET Cards :
                  /\ j.always \subseteq there /\ there \subseteq j.ever
                  /\ j.routes = Among(list, there)

BatchesInv ==
    /\ live \subseteq Cards
    /\ printer = [s \in Setters |-> printer[s]]
    /\ \A s \in Setters : PrintHolds(printer[s]) /\ (printer[s].op = "card" => IsCard(printer[s]))

LEMMA BatchesBegin == BatchesInit => BatchesInv
<1> SUFFICES ASSUME BatchesInit
             PROVE  BatchesInv
  OBVIOUS
<1>1. \A s \in Setters : printer[s] = NoJob /\ printer[s].op = "none"
  BY DEF BatchesInit, NoJob
<1>2. printer = [s \in Setters |-> printer[s]]
  BY DEF BatchesInit
<1>3. QED
  BY <1>1, <1>2 DEF BatchesInit, BatchesInv, PrintHolds

LEMMA JobIsPut ==
    ASSUME BatchesInv, NEW s \in Setters, NEW y, printer' = [printer EXCEPT ![s] = y],
           live' = live, PrintHolds(y), y.op = "card" => IsCard(y)
    PROVE  BatchesInv'
<1>1. /\ printer' = [t \in Setters |-> printer'[t]] /\ printer'[s] = y
      /\ \A t \in Setters \ {s} : printer'[t] = printer[t]
  BY DEF BatchesInv
<1>2. ASSUME NEW t \in Setters
      PROVE  PrintHolds(printer[t])' /\ (printer'[t].op = "card" => IsCard(printer'[t]))
  <2>1. CASE t = s
    BY <1>1, <2>1 DEF PrintHolds
  <2>2. CASE t # s
    BY <1>1, <2>2 DEF PrintHolds, BatchesInv
  <2>3. QED
    BY <2>1, <2>2
<1>3. QED
  BY <1>1, <1>2 DEF BatchesInv

\* Jobs that are no prints and no cards.
LEMMA JobIsPlain ==
    ASSUME BatchesInv, NEW s \in Setters, NEW y, Put(s, y), live' = live,
           y.op \in {"none", "create", "update"}
    PROVE  BatchesInv'
<1>1. PrintHolds(y) /\ y.op # "card" /\ printer' = [printer EXCEPT ![s] = y]
  BY DEF PrintHolds, Put
<1>2. QED
  BY <1>1, JobIsPut

LEMMA PrintBegins ==
    ASSUME BatchesInv, NEW s \in Setters, NEW b \in Batches,
           DownloadBatch(s, b) \/ CardBatchDownload(s, b)
    PROVE  BatchesInv'
<1>1. PICK via, step : /\ Put(s, Sheet(b, via, step)) /\ live' = live /\ step # "printed"
  BY DEF DownloadBatch, CardBatchDownload, BatchesStay
<1> DEFINE y == Sheet(b, via, step)
<1>2. /\ y.op = "print" /\ IsPrint(y) /\ y.step = step /\ y.routes = batch[b].routes
      /\ y.of = {batch[b].routes} /\ y.ever = live /\ y.always = live
  BY DEF Sheet, IsPrint
<1>3. printer' = [printer EXCEPT ![s] = y]
  BY <1>1 DEF Put
<1> HIDE DEF y
<1>4. PrintHolds(y)
  BY <1>1, <1>2 DEF PrintHolds
<1>5. QED
  BY <1>1, <1>2, <1>3, <1>4, JobIsPut

LEMMA CardIsPut ==
    ASSUME BatchesInv, NEW s \in Setters, NEW list,
           Put(s, [op |-> "card", step |-> "wait", routes |-> list]), live' = live
    PROVE  BatchesInv'
<1> DEFINE y == [op |-> "card", step |-> "wait", routes |-> list]
<1>1. y.op = "card" /\ IsCard(y) /\ printer' = [printer EXCEPT ![s] = y]
  BY DEF IsCard, Put
<1> HIDE DEF y
<1>2. QED
  BY <1>1, JobIsPut DEF PrintHolds

\* A job that waited for its slot, or gave up, holds what it held.
LEMMA JobSteps ==
    ASSUME BatchesInv, NEW s \in Setters, NEW stage, NEW y, live' = live,
           printer[s].op \in {"print", "card"}, stage # "printed",
           printer[s].op = "print" => printer[s].step \notin {"printed", "failed"},
           y = [printer[s] EXCEPT !.step = stage], printer' = [printer EXCEPT ![s] = y]
    PROVE  BatchesInv'
<1>2. CASE printer[s].op = "print"
  <2>1. PrintHolds(printer[s])
    BY DEF BatchesInv
  <2>2. /\ y = [op |-> "print", batch |-> printer[s].batch, via |-> printer[s].via,
                step |-> stage, routes |-> printer[s].routes, of |-> printer[s].of,
                ever |-> printer[s].ever, always |-> printer[s].always]
    BY <1>2, <2>1 DEF PrintHolds, IsPrint
  <2>3. /\ y.op = "print" /\ IsPrint(y) /\ y.step = stage /\ y.routes = printer[s].routes
        /\ y.of = printer[s].of /\ y.ever = printer[s].ever /\ y.always = printer[s].always
    BY <2>2 DEF IsPrint
  <2>4. PrintHolds(y)
    BY <1>2, <2>1, <2>3 DEF PrintHolds
  <2>5. QED
    BY <2>3, <2>4, JobIsPut
<1>3. CASE printer[s].op = "card"
  <2>1. IsCard(printer[s])
    BY <1>3 DEF BatchesInv
  <2>2. y = [op |-> "card", step |-> stage, routes |-> printer[s].routes]
    BY <2>1 DEF IsCard
  <2>3. y.op = "card" /\ IsCard(y) /\ PrintHolds(y)
    BY <2>2 DEF IsCard, PrintHolds
  <2>4. QED
    BY <2>3, JobIsPut
<1>4. QED
  BY <1>2, <1>3

LEMMA PreviewGoesOn ==
    ASSUME BatchesInv, NEW s \in Setters, RenderPreviewPNG(s)
    PROVE  BatchesInv'
<1> DEFINE rest == Tail(printer[s].routes)
           y == [printer[s] EXCEPT !.routes = rest]
<1>1. printer[s].op = "card" /\ printer' = [printer EXCEPT ![s] = y] /\ live' = live
  BY DEF RenderPreviewPNG, BatchesStay
<1> HIDE DEF rest
<1>2. IsCard(printer[s])
  BY <1>1 DEF BatchesInv
<1>3. y = [op |-> "card", step |-> printer[s].step, routes |-> rest]
  BY <1>2 DEF IsCard
<1> HIDE DEF y
<1>4. y.op = "card" /\ IsCard(y) /\ PrintHolds(y)
  BY <1>3 DEF IsCard, PrintHolds
<1>5. QED
  BY <1>1, <1>4, JobIsPut

\* The live routes of the list it holds are what a print comes out with.
LEMMA BatchIsRendered ==
    ASSUME BatchesInv, NEW s \in Setters, RenderBatch(s)
    PROVE  BatchesInv'
<1> DEFINE routes == Resolved(printer[s].routes)
           stage == IF routes = <<>> THEN "failed" ELSE "printed"
           y == [op |-> "print", batch |-> printer[s].batch, via |-> printer[s].via,
                 step |-> stage, routes |-> routes, of |-> printer[s].of,
                 ever |-> printer[s].ever, always |-> printer[s].always]
<1>1. /\ printer[s].op = "print" /\ printer[s].step = "render" /\ live' = live
      /\ printer' = [printer EXCEPT ![s].step = stage, ![s].routes = routes]
  BY DEF RenderBatch, BatchesStay
<1>2. PrintHolds(printer[s])
  BY DEF BatchesInv
<1>3. printer[s].routes \in printer[s].of /\ routes = Among(printer[s].routes, live)
  BY <1>1, <1>2 DEF PrintHolds, Resolved
<1>4. printer' = [printer EXCEPT ![s] = y]
  <2> DEFINE x == [printer[s] EXCEPT !.step = stage]
             z == [x EXCEPT !.routes = routes]
  <2>1. printer' = [printer EXCEPT ![s] = z]
    BY <1>1
  <2> HIDE DEF routes, stage
  <2>2. /\ x = [op |-> "print", batch |-> printer[s].batch, via |-> printer[s].via,
                step |-> stage, routes |-> printer[s].routes, of |-> printer[s].of,
                ever |-> printer[s].ever, always |-> printer[s].always]
    BY <1>1, <1>2 DEF PrintHolds, IsPrint
  <2> HIDE DEF x
  <2>3. z = y
    BY <2>2
  <2>4. QED
    BY <2>1, <2>3
<1>5. stage \in {"failed", "printed"}
  OBVIOUS
<1> HIDE DEF stage
<1> HIDE DEF routes
<1>6. /\ y.op = "print" /\ IsPrint(y) /\ y.step = stage /\ y.routes = routes
      /\ y.of = printer[s].of /\ y.ever = printer[s].ever /\ y.always = printer[s].always
  BY DEF IsPrint
<1> HIDE DEF y
<1>7. /\ printer[s].always \subseteq live /\ live \subseteq printer[s].ever
      /\ live \in SUBSET Cards
  BY <1>1, <1>2 DEF PrintHolds, BatchesInv
<1>8. PrintHolds(y)
  <2>1. CASE stage = "failed"
    BY <1>2, <1>1, <1>6, <2>1, <1>7 DEF PrintHolds
  <2>2. CASE stage = "printed"
    <3>1. \E list \in y.of, there \in SUBSET Cards :
             /\ y.always \subseteq there /\ there \subseteq y.ever
             /\ y.routes = Among(list, there)
      <4>1. \E list \in y.of : list = printer[s].routes
        BY <1>3, <1>6
      <4>2. y.routes = Among(printer[s].routes, live) /\ y.always \subseteq live /\ live \subseteq y.ever
        BY <1>3, <1>6, <1>7
      <4>3. QED
        BY <4>1, <4>2, <1>7
    <3>2. QED
      BY <1>6, <2>2, <3>1 DEF PrintHolds
  <2>3. QED
    BY <1>5, <2>1, <2>2
<1>9. QED
  BY <1>1, <1>4, <1>6, <1>8, JobIsPut

\* The statement gives the batch its new list, and every print of it under way
\* one more that it may come out with.
LEMMA ListIsUpdated ==
    ASSUME BatchesInv, NEW s \in Setters, UpdateRouteIDs(s)
    PROVE  BatchesInv'
<1> DEFINE b == printer[s].batch
           list == printer[s].routes
<1>1. /\ live' = live
      /\ printer' = [t \in Setters |->
            IF t = s THEN NoJob
            ELSE IF Printing(t) /\ printer[t].batch = b
                 THEN [printer[t] EXCEPT !.of = @ \cup {list}]
            ELSE printer[t]]
  BY DEF UpdateRouteIDs
<1> HIDE DEF b, list
<1>2. printer' = [t \in Setters |-> printer'[t]]
  BY <1>1
<1>3. ASSUME NEW t \in Setters
      PROVE  PrintHolds(printer[t])' /\ (printer'[t].op = "card" => IsCard(printer'[t]))
  <2>1. CASE t = s
    <3>1. printer'[t].op = "none"
      BY <1>1, <2>1 DEF NoJob
    <3>2. QED
      BY <3>1 DEF PrintHolds
  <2>2. CASE t # s /\ Printing(t) /\ printer[t].batch = b
    <3> DEFINE lists == printer[t].of \cup {list}
    <3>1. printer'[t] = [printer[t] EXCEPT !.of = lists]
      BY <1>1, <2>2
    <3>2. printer[t].op = "print" /\ printer[t].step # "printed" /\ PrintHolds(printer[t])
      BY <2>2 DEF Printing, BatchesInv
    <3>3. printer[t].step # "failed" => printer[t].routes \in lists
      BY <3>2 DEF PrintHolds
    <3> HIDE DEF lists
    <3>4. printer'[t] = [op |-> "print", batch |-> printer[t].batch, via |-> printer[t].via,
                step |-> printer[t].step, routes |-> printer[t].routes, of |-> lists,
                ever |-> printer[t].ever, always |-> printer[t].always]
      BY <3>1, <3>2 DEF PrintHolds, IsPrint
    <3>5. /\ printer'[t].op = "print" /\ IsPrint(printer'[t])
          /\ printer'[t].step = printer[t].step /\ printer'[t].routes = printer[t].routes
          /\ printer'[t].of = lists /\ printer'[t].ever = printer[t].ever
          /\ printer'[t].always = printer[t].always
      BY <3>4 DEF IsPrint
    <3>6. PrintHolds(printer[t])'
      BY <1>1, <3>2, <3>3, <3>5 DEF PrintHolds
    <3>7. QED
      BY <3>5, <3>6
  <2>3. CASE t # s /\ ~(Printing(t) /\ printer[t].batch = b)
    <3>1. printer'[t] = printer[t]
      BY <1>1, <2>3
    <3>2. PrintHolds(printer[t]) /\ (printer[t].op = "card" => IsCard(printer[t]))
      BY DEF BatchesInv
    <3>3. QED
      BY <1>1, <3>1, <3>2 DEF PrintHolds
  <2>4. QED
    BY <2>1, <2>2, <2>3
<1>4. QED
  BY <1>1, <1>2, <1>3 DEF BatchesInv

\* A route that goes has not been there all the time.
LEMMA RouteIsGone ==
    ASSUME BatchesInv, NEW r \in Cards, DeleteCardRoute(r)
    PROVE  BatchesInv'
<1>1. /\ live' = live \ {r}
      /\ printer' = [t \in Setters |->
            IF Printing(t) THEN [printer[t] EXCEPT !.always = @ \ {r}] ELSE printer[t]]
  BY DEF DeleteCardRoute
<1>2. printer' = [t \in Setters |-> printer'[t]] /\ live' \subseteq Cards
  BY <1>1 DEF BatchesInv
<1>3. ASSUME NEW t \in Setters
      PROVE  PrintHolds(printer[t])' /\ (printer'[t].op = "card" => IsCard(printer'[t]))
  <2>1. CASE Printing(t)
    <3> DEFINE rest == printer[t].always \ {r}
    <3>1. printer'[t] = [printer[t] EXCEPT !.always = rest]
      BY <1>1, <2>1
    <3>2. printer[t].op = "print" /\ printer[t].step # "printed" /\ PrintHolds(printer[t])
      BY <2>1 DEF Printing, BatchesInv
    <3>3. rest \subseteq live' /\ live' \subseteq printer[t].ever
      BY <1>1, <3>2 DEF PrintHolds
    <3> HIDE DEF rest
    <3>4. printer'[t] = [op |-> "print", batch |-> printer[t].batch, via |-> printer[t].via,
                step |-> printer[t].step, routes |-> printer[t].routes, of |-> printer[t].of,
                ever |-> printer[t].ever, always |-> rest]
      BY <3>1, <3>2 DEF PrintHolds, IsPrint
    <3>5. /\ printer'[t].op = "print" /\ IsPrint(printer'[t])
          /\ printer'[t].step = printer[t].step /\ printer'[t].routes = printer[t].routes
          /\ printer'[t].of = printer[t].of /\ printer'[t].ever = printer[t].ever
          /\ printer'[t].always = rest
      BY <3>4 DEF IsPrint
    <3>6. PrintHolds(printer[t])'
      BY <3>2, <3>3, <3>5 DEF PrintHolds
    <3>7. QED
      BY <3>5, <3>6
  <2>2. CASE ~Printing(t)
    <3>1. printer'[t] = printer[t]
      BY <1>1, <2>2
    <3>2. PrintHolds(printer[t]) /\ (printer[t].op = "card" => IsCard(printer[t]))
      BY DEF BatchesInv
    <3>3. printer[t].op = "print" => printer[t].step = "printed"
      BY <2>2 DEF Printing
    <3>4. QED
      BY <3>1, <3>2, <3>3 DEF PrintHolds
  <2>3. QED
    BY <2>1, <2>2
<1>4. QED
  BY <1>1, <1>2, <1>3 DEF BatchesInv

LEMMA BatchesStep == BatchesInv /\ [BatchesNext]_batchVars => BatchesInv'
<1> SUFFICES ASSUME BatchesInv, [BatchesNext]_batchVars
             PROVE  BatchesInv'
  OBVIOUS
<1>1. CASE UNCHANGED batchVars
  BY <1>1 DEF batchVars, BatchesInv, PrintHolds
<1>2. ASSUME NEW r \in Cards, DeleteCardRoute(r)
      PROVE  BatchesInv'
  BY <1>2, RouteIsGone
<1>3. ASSUME NEW s \in Setters, NEW list \in CardLists,
             CreateBatch(s, list) \/ \E b \in Batches : UpdateBatch(s, b, list)
      PROVE  BatchesInv'
  <2>1. \E y : Put(s, y) /\ y.op \in {"create", "update"} /\ live' = live
    BY <1>3 DEF CreateBatch, UpdateBatch, BatchesStay
  <2>2. QED
    BY <2>1, JobIsPlain
<1>4. ASSUME NEW s \in Setters, NEW b \in Batches, InsertBatch(s, b)
      PROVE  BatchesInv'
  BY <1>4, JobIsPlain DEF InsertBatch, NoJob
<1>5. ASSUME NEW s \in Setters, NEW b \in Batches,
             DownloadBatch(s, b) \/ CardBatchDownload(s, b) \/ CardBatchPreview(s, b)
      PROVE  BatchesInv'
  BY <1>5, PrintBegins, CardIsPut DEF CardBatchPreview, BatchesStay
<1>6. ASSUME NEW s \in Setters, NEW b \in Batches, RetryBatch(s, b) \/ DeleteBatch(s, b)
      PROVE  BatchesInv'
  <2>1. live' = live /\ printer' = printer
    BY <1>6 DEF RetryBatch, DeleteBatch
  <2>2. QED
    BY <2>1 DEF BatchesInv, PrintHolds
<1>7. ASSUME NEW s \in Setters, acquireUploadSem(s)
      PROVE  BatchesInv'
  <2> DEFINE y == [printer[s] EXCEPT !.step = "render"]
  <2>1. /\ printer[s].op \in {"print", "card"} /\ printer[s].step = "wait" /\ live' = live
        /\ printer' = [printer EXCEPT ![s] = y]
    BY <1>7 DEF acquireUploadSem, BatchesStay
  <2>2. \E stage \in {"render", "failed"} : y = [printer[s] EXCEPT !.step = stage]
    OBVIOUS
  <2> HIDE DEF y
  <2>3. QED
    BY <2>1, <2>2, JobSteps
<1>8. ASSUME NEW s \in Setters, RenderFails(s)
      PROVE  BatchesInv'
  <2> DEFINE y == [printer[s] EXCEPT !.step = "failed"]
  <2>1. /\ printer[s].op = "print" /\ printer[s].step = "render" /\ live' = live
        /\ printer' = [printer EXCEPT ![s] = y]
    BY <1>8 DEF RenderFails, BatchesStay
  <2>2. \E stage \in {"render", "failed"} : y = [printer[s] EXCEPT !.step = stage]
    OBVIOUS
  <2> HIDE DEF y
  <2>3. QED
    BY <2>1, <2>2, JobSteps
<1>9. ASSUME NEW s \in Setters, MarkFailed(s) \/ PrintEnds(s)
      PROVE  BatchesInv'
  <2>1. Put(s, NoJob) /\ live' = live /\ NoJob.op = "none"
    BY <1>9 DEF MarkFailed, PrintEnds, BatchesStay, NoJob
  <2>2. QED
    BY <2>1, JobIsPlain
<1>10. ASSUME NEW s \in Setters, RouteCard(s)
       PROVE  BatchesInv'
  <2>1. Put(s, [op |-> "card", step |-> "wait", routes |-> <<>>]) /\ live' = live
    BY <1>10 DEF RouteCard, BatchesStay
  <2>2. QED
    BY <2>1, CardIsPut
<1>11. QED
  BY <1>1, <1>2, <1>3, <1>4, <1>5, <1>6, <1>7, <1>8, <1>9, <1>10, PreviewGoesOn,
     BatchIsRendered, ListIsUpdated DEF BatchesNext

LEMMA SheetsAreCurrent == BatchesInv => SheetIsCurrent
BY DEF BatchesInv, SheetIsCurrent, Printed, PrintHolds

\* The routes of a list that are there, up to its n-th.
AmongUpTo(it, list, there) ==
    it = [n \in 0 .. Len(list) |->
            IF n = 0 THEN <<>>
            ELSE IF list[n] \in there THEN Append(it[n - 1], list[n]) ELSE it[n - 1]]

LEMMA AmongIsBuilt ==
    ASSUME NEW S, NEW list \in Seq(S), NEW there
    PROVE  \E it : AmongUpTo(it, list, there) /\ Among(list, there) = it[Len(list)]
<1> DEFINE N == Len(list)
           step == [p \in (1 .. N) \X Seq(S) |->
                      IF list[p[1]] \in there THEN Append(p[2], list[p[1]]) ELSE p[2]]
<1>1. N \in Nat /\ \A n \in 1 .. N : list[n] \in S
  OBVIOUS
<1>2. \A n \in 1 .. N : \A s \in Seq(S) :
         /\ step[<<n, s>>] = IF list[n] \in there THEN Append(s, list[n]) ELSE s
         /\ step[<<n, s>>] \in Seq(S)
  OBVIOUS
<1> HIDE DEF N, step
<1>3. PICK it : Stepwise(it, <<>>, step, N)
  BY <1>1, StepsExist
<1>4. it = [n \in 0 .. N |-> IF n = 0 THEN <<>> ELSE step[<<n, it[n - 1]>>]]
  BY <1>3 DEF Stepwise
<1>5. \A n \in 0 .. N : it[n] \in Seq(S)
  <2> DEFINE G == {n \in 0 .. N : it[n] \in Seq(S)}
  <2>1. 0 \in G
    BY <1>1, <1>4
  <2>2. ASSUME NEW n \in 1 .. N, n - 1 \in G
        PROVE  n \in G
    <3>1. n \in 0 .. N /\ n # 0
      OBVIOUS
    <3>2. it[n] = step[<<n, it[n - 1]>>]
      BY <1>4, <3>1
    <3>3. QED
      BY <1>2, <2>2, <3>1, <3>2
  <2> HIDE DEF G
  <2>3. \A n \in 0 .. N : n \in G
    BY <1>1, <2>1, <2>2, UpToInduction
  <2>4. QED
    BY <2>3 DEF G
<1>6. ASSUME NEW n \in 0 .. N
      PROVE  it[n] = IF n = 0 THEN <<>>
                     ELSE IF list[n] \in there THEN Append(it[n - 1], list[n]) ELSE it[n - 1]
  <2>1. CASE n = 0
    BY <1>4, <2>1
  <2>2. CASE n # 0
    <3>1. n \in 1 .. N /\ n - 1 \in 0 .. N
      BY <1>1, <2>2
    <3>2. it[n] = step[<<n, it[n - 1]>>] /\ it[n - 1] \in Seq(S)
      BY <1>4, <1>5, <2>2, <3>1
    <3>3. QED
      BY <1>2, <2>2, <3>1, <3>2
  <2>3. QED
    BY <2>1, <2>2
<1>7. AmongUpTo(it, list, there)
  <2>1. it = [n \in 0 .. N |-> it[n]]
    BY <1>4
  <2>2. it = [n \in 0 .. N |->
                IF n = 0 THEN <<>>
                ELSE IF list[n] \in there THEN Append(it[n - 1], list[n]) ELSE it[n - 1]]
    BY <1>6, <2>1, Zenon
  <2>3. QED
    BY <2>2, Zenon DEF AmongUpTo, N
<1> DEFINE jt == CHOOSE jt : AmongUpTo(jt, list, there)
<1>8. AmongUpTo(jt, list, there)
  BY <1>7
<1>9. Among(list, there) = jt[Len(list)]
  BY Zenon DEF Among, AmongUpTo
<1>10. QED
  BY <1>8, <1>9

\* What is left of a list is a list, of routes that are there.
LEMMA AmongIsAList ==
    ASSUME NEW list \in CardLists, NEW there
    PROVE  Among(list, there) \in CardLists
<1> DEFINE N == Len(list)
<1>1. /\ list \in Seq(Cards) /\ N \in Nat /\ N <= MaxBatchCards
      /\ \A a, b \in 1 .. N : list[a] = list[b] => a = b
  BY DEF CardLists, BoundedSeq, SeqOf, IsInjective
<1>2. PICK it : AmongUpTo(it, list, there) /\ Among(list, there) = it[N]
  BY <1>1, AmongIsBuilt
<1>3. /\ it[0] = <<>>
      /\ \A n \in 1 .. N : it[n] = IF list[n] \in there THEN Append(it[n - 1], list[n])
                                   ELSE it[n - 1]
  <2>1. \A n \in 0 .. N : it[n] = IF n = 0 THEN <<>>
                                   ELSE IF list[n] \in there THEN Append(it[n - 1], list[n])
                                   ELSE it[n - 1]
    BY <1>2 DEF AmongUpTo
  <2> HIDE DEF N
  <2>2. 0 \in 0 .. N /\ \A n \in 1 .. N : n \in 0 .. N /\ n # 0
    BY <1>1
  <2>3. QED
    BY <2>1, <2>2
<1>4. \A n \in 1 .. N : list[n] \in Cards
  BY <1>1
<1> HIDE DEF N
<1> DEFINE Good(s, n) ==
              /\ s \in Seq(Cards) /\ Len(s) <= n
              /\ \A a, b \in 1 .. Len(s) : s[a] = s[b] => a = b
              /\ \A a \in 1 .. Len(s) : \E i \in 1 .. n : s[a] = list[i]
           G == {n \in 0 .. N : Good(it[n], n)}
<1>5. 0 \in G
  <2>1. Good(<<>>, 0)
    OBVIOUS
  <2>2. 0 \in 0 .. N /\ Good(it[0], 0)
    BY <1>1, <1>3, <2>1
  <2>3. QED
    BY <2>2
<1>6. ASSUME NEW n \in 1 .. N, n - 1 \in G
      PROVE  n \in G
  <2> DEFINE s == it[n - 1]
             c == list[n]
             t == Append(s, c)
  <2>1. Good(s, n - 1) /\ n \in 0 .. N /\ n \in Nat /\ c \in Cards
    BY <1>4, <1>6
  <2>2. \A i \in 1 .. n - 1 : i \in 1 .. N /\ i \in 1 .. n /\ list[i] # c
    BY <1>1
  <2> HIDE DEF s, c
  <2>3. /\ t \in Seq(Cards) /\ Len(t) = Len(s) + 1 /\ t[Len(s) + 1] = c /\ Len(s) \in Nat
        /\ \A a \in 1 .. Len(s) : t[a] = s[a]
    BY <2>1
  <2> HIDE DEF t
  <2>4. Good(s, n)
    BY <2>1, <2>2
  <2>5. Good(t, n)
    <3>1. Len(t) <= n
      BY <2>1, <2>3
    <3>2. \A a \in 1 .. Len(s) : s[a] # c
      BY <2>1, <2>2
    <3>3. \A a \in 1 .. Len(t) : a \in 1 .. Len(s) \/ a = Len(s) + 1
      BY <2>3
    <3>4. ASSUME NEW a \in 1 .. Len(t), NEW b \in 1 .. Len(t), t[a] = t[b]
          PROVE  a = b
      BY <2>1, <2>3, <3>2, <3>3, <3>4
    <3>5. ASSUME NEW a \in 1 .. Len(t)
          PROVE  \E i \in 1 .. n : t[a] = list[i]
      <4>1. CASE a \in 1 .. Len(s)
        BY <2>1, <2>2, <2>3, <4>1
      <4>2. CASE a = Len(s) + 1
        BY <2>3, <4>2 DEF c
      <4>3. QED
        BY <3>3, <4>1, <4>2
    <3>6. QED
      BY <2>3, <3>1, <3>4, <3>5
  <2>6. it[n] = IF c \in there THEN t ELSE s
    BY <1>3 DEF c, t, s
  <2>7. Good(it[n], n)
    BY <2>4, <2>5, <2>6
  <2>8. QED
    BY <2>1, <2>7
<1> HIDE DEF G
<1>7. N \in G
  <2>1. \A n \in 0 .. N : n \in G
    BY <1>1, <1>5, <1>6, UpToInduction
  <2>2. QED
    BY <1>1, <2>1
<1>8. Good(it[N], N)
  BY <1>7 DEF G
<1> DEFINE s == it[N]
<1> HIDE DEF s
<1>9. /\ s \in Seq(Cards) /\ Len(s) \in 0 .. MaxBatchCards
      /\ \A a, b \in 1 .. Len(s) : s[a] = s[b] => a = b
  <2>1. s \in Seq(Cards) /\ Len(s) <= N /\ \A a, b \in 1 .. Len(s) : s[a] = s[b] => a = b
    BY ONLY <1>8 DEF s
  <2> HIDE DEF N
  <2>2. Len(s) \in Nat
    BY ONLY <2>1
  <2> DEFINE k == Len(s)
  <2> HIDE DEF k
  <2>3. k \in Nat /\ k <= N => k \in 0 .. MaxBatchCards
    BY ONLY <1>1, BatchesAssumption
  <2>4. QED
    BY <2>1, <2>2, <2>3, Zenon DEF k
<1>10. s \in [1 .. Len(s) -> Cards] /\ DOMAIN s = 1 .. Len(s)
  BY <1>9
<1>11. s \in CardLists
  BY <1>9, <1>10 DEF CardLists, BoundedSeq, SeqOf, IsInjective
<1>12. QED
  BY <1>2, <1>11 DEF s

\* A batch is a row as the code writes it, and a request has a list to write.
JobIsAsked(j) ==
    /\ j.op \in {"none", "create", "update", "print", "card"}
    /\ j.op \in {"create", "update"} => j.routes \in CardLists \ {<<>>}
    /\ j.op \in {"update", "print"} => j.batch \in Batches

BatchRowsInv ==
    /\ batch \in [Batches -> BatchRows \cup {NoBatch}]
    /\ batchEdits \in 0 .. MaxBatchEdits
    /\ \A s \in Setters : JobIsAsked(printer[s])

LEMMA BatchRowsBegin == BatchesInit => BatchRowsInv
<1> SUFFICES ASSUME BatchesInit
             PROVE  BatchRowsInv
  OBVIOUS
<1>1. JobIsAsked(NoJob)
  BY DEF JobIsAsked, NoJob
<1>2. \A s \in Setters : printer[s] = NoJob
  BY DEF BatchesInit
<1>3. batch \in [Batches -> BatchRows \cup {NoBatch}] /\ batchEdits \in 0 .. MaxBatchEdits
  BY BatchesAssumption DEF BatchesInit
<1>4. QED
  BY <1>1, <1>2, <1>3 DEF BatchRowsInv

\* One request goes on, and with it at most one row.
LEMMA JobAndRow ==
    ASSUME BatchesInv, BatchRowsInv, NEW s \in Setters, NEW y, JobIsAsked(y),
           printer' = [printer EXCEPT ![s] = y],
           batch' \in [Batches -> BatchRows \cup {NoBatch}],
           batchEdits' \in 0 .. MaxBatchEdits
    PROVE  BatchRowsInv'
<1>1. \A t \in Setters : printer'[t] = IF t = s THEN y ELSE printer[t]
  BY DEF BatchesInv
<1>2. \A t \in Setters : JobIsAsked(printer[t])'
  BY <1>1 DEF JobIsAsked, BatchRowsInv
<1>3. QED
  BY <1>2 DEF BatchRowsInv

LEMMA RowIsPut ==
    ASSUME BatchRowsInv, NEW b \in Batches, NEW y \in BatchRows \cup {NoBatch}
    PROVE  [batch EXCEPT ![b] = y] \in [Batches -> BatchRows \cup {NoBatch}]
  BY DEF BatchRowsInv

\* A row with another status or another list is one.
LEMMA RowIsChanged ==
    ASSUME BatchRowsInv, NEW b \in Batches, batch[b] # NoBatch,
           NEW list \in CardLists \ {<<>>}, NEW mark \in {"pending", "failed"}
    PROVE  /\ [batch EXCEPT ![b].status = mark] \in [Batches -> BatchRows \cup {NoBatch}]
           /\ [batch EXCEPT ![b].routes = list, ![b].status = mark]
                 \in [Batches -> BatchRows \cup {NoBatch}]
<1> DEFINE row == batch[b]
<1>1. row \in BatchRows
  BY DEF BatchRowsInv
<1>2. /\ [batch EXCEPT ![b].status = mark] = [batch EXCEPT ![b] = [row EXCEPT !.status = mark]]
      /\ [batch EXCEPT ![b].routes = list, ![b].status = mark]
           = [batch EXCEPT ![b] = [[row EXCEPT !.routes = list] EXCEPT !.status = mark]]
  BY DEF BatchRowsInv
<1> HIDE DEF row
<1>3. [row EXCEPT !.status = mark] \in BatchRows
  BY <1>1 DEF BatchRows
<1>4. [[row EXCEPT !.routes = list] EXCEPT !.status = mark] \in BatchRows
  BY <1>1 DEF BatchRows
<1>5. QED
  BY <1>2, <1>3, <1>4, RowIsPut

LEMMA BatchRowsStep == BatchesInv /\ BatchRowsInv /\ [BatchesNext]_batchVars => BatchRowsInv'
<1> SUFFICES ASSUME BatchesInv, BatchRowsInv, [BatchesNext]_batchVars
             PROVE  BatchRowsInv'
  OBVIOUS
<1> USE DEF Put, BatchesStay
<1>0. /\ batch \in [Batches -> BatchRows \cup {NoBatch}] /\ batchEdits \in 0 .. MaxBatchEdits
      /\ JobIsAsked(NoJob)
  BY DEF BatchRowsInv, JobIsAsked, NoJob
<1>1. CASE UNCHANGED batchVars
  BY <1>1 DEF batchVars, BatchRowsInv, JobIsAsked
<1>2. ASSUME NEW r \in Cards, DeleteCardRoute(r)
      PROVE  BatchRowsInv'
  <2>1. /\ batch' = batch /\ batchEdits' = batchEdits
        /\ printer' = [t \in Setters |-> IF Printing(t) THEN [printer[t] EXCEPT !.always = @ \ {r}]
                                         ELSE printer[t]]
    BY <1>2 DEF DeleteCardRoute
  <2>2. ASSUME NEW t \in Setters
        PROVE  JobIsAsked(printer'[t])
    <3>1. CASE Printing(t)
      <4> DEFINE rest == printer[t].always \ {r}
      <4>1. printer'[t] = [printer[t] EXCEPT !.always = rest]
        BY <2>1, <3>1
      <4>2. printer[t].op = "print" /\ IsPrint(printer[t]) /\ JobIsAsked(printer[t])
        BY <3>1 DEF Printing, BatchesInv, PrintHolds, BatchRowsInv
      <4> HIDE DEF rest
      <4>3. printer'[t].op = "print" /\ printer'[t].batch = printer[t].batch
        BY <4>1, <4>2 DEF IsPrint
      <4>4. QED
        BY <4>2, <4>3 DEF JobIsAsked
    <3>2. CASE ~Printing(t)
      BY <2>1, <3>2 DEF BatchRowsInv
    <3>3. QED
      BY <3>1, <3>2
  <2>3. QED
    BY <2>1, <2>2 DEF BatchRowsInv, JobIsAsked
<1>3. ASSUME NEW s \in Setters, NEW list \in CardLists,
             CreateBatch(s, list) \/ \E b \in Batches : UpdateBatch(s, b, list)
      PROVE  BatchRowsInv'
  <2>1. Resolved(list) \in CardLists
    BY AmongIsAList DEF Resolved
  <2>2. PICK y : /\ printer' = [printer EXCEPT ![s] = y] /\ JobIsAsked(y)
                 /\ batch' = batch /\ batchEdits' = batchEdits
    <3>1. CASE CreateBatch(s, list)
      BY <2>1, <3>1 DEF CreateBatch, JobIsAsked
    <3>2. ASSUME NEW b \in Batches, UpdateBatch(s, b, list)
          PROVE  \E y : /\ printer' = [printer EXCEPT ![s] = y] /\ JobIsAsked(y)
                        /\ batch' = batch /\ batchEdits' = batchEdits
      BY <2>1, <3>2 DEF UpdateBatch, JobIsAsked
    <3>3. QED
      BY <1>3, <3>1, <3>2
  <2>3. QED
    BY <1>0, <2>2, JobAndRow
<1>4. ASSUME NEW s \in Setters, NEW b \in Batches, InsertBatch(s, b)
      PROVE  BatchRowsInv'
  <2> DEFINE row == [by |-> s, routes |-> printer[s].routes, status |-> "pending"]
  <2>1. /\ printer' = [printer EXCEPT ![s] = NoJob] /\ batchEdits' = batchEdits
        /\ batch' = [batch EXCEPT ![b] = row]
    BY <1>4 DEF InsertBatch
  <2>2. printer[s].routes \in CardLists \ {<<>>}
    BY <1>4 DEF InsertBatch, BatchRowsInv, JobIsAsked
  <2>3. row \in BatchRows
    BY <2>2 DEF BatchRows
  <2> HIDE DEF row
  <2>4. batch' \in [Batches -> BatchRows \cup {NoBatch}]
    BY <2>1, <2>3, RowIsPut
  <2>5. QED
    BY <1>0, <2>1, <2>4, JobAndRow
<1>5. ASSUME NEW s \in Setters, NEW b \in Batches,
             DownloadBatch(s, b) \/ CardBatchDownload(s, b) \/ CardBatchPreview(s, b)
      PROVE  BatchRowsInv'
  <2>1. PICK y : /\ printer' = [printer EXCEPT ![s] = y] /\ JobIsAsked(y)
                 /\ batch' = batch /\ batchEdits' = batchEdits
    BY <1>5 DEF DownloadBatch, CardBatchDownload, CardBatchPreview, Sheet, JobIsAsked
  <2>2. QED
    BY <1>0, <2>1, JobAndRow
<1>6. ASSUME NEW s \in Setters, NEW b \in Batches, RetryBatch(s, b)
      PROVE  BatchRowsInv'
  <2>1. /\ batch[b] # NoBatch /\ printer' = printer /\ batchEdits < MaxBatchEdits
        /\ batch' = [batch EXCEPT ![b].status = "pending"] /\ batchEdits' = batchEdits + 1
    BY <1>6 DEF RetryBatch, CanDeleteCardBatch
  <2>2. batch[b].routes \in CardLists \ {<<>>}
    BY <2>1 DEF BatchRowsInv, BatchRows
  <2>3. batch' \in [Batches -> BatchRows \cup {NoBatch}]
    BY <2>1, <2>2, RowIsChanged
  <2>4. batchEdits' \in 0 .. MaxBatchEdits
    BY <1>0, <2>1, BatchesAssumption
  <2>5. QED
    BY <2>1, <2>3, <2>4 DEF BatchRowsInv, JobIsAsked
<1>7. ASSUME NEW s \in Setters, NEW b \in Batches, DeleteBatch(s, b)
      PROVE  BatchRowsInv'
  <2>1. /\ printer' = printer /\ batchEdits' = batchEdits /\ batch' = [batch EXCEPT ![b] = NoBatch]
    BY <1>7 DEF DeleteBatch
  <2>2. batch' \in [Batches -> BatchRows \cup {NoBatch}]
    BY <2>1, RowIsPut
  <2>3. QED
    BY <1>0, <2>1, <2>2 DEF BatchRowsInv, JobIsAsked
<1>8. ASSUME NEW s \in Setters, UpdateRouteIDs(s)
      PROVE  BatchRowsInv'
  <2> DEFINE b == printer[s].batch
             list == printer[s].routes
  <2>1. /\ printer[s].op = "update" /\ batchEdits < MaxBatchEdits
        /\ IF batch[b] = NoBatch THEN batch' = batch /\ batchEdits' = batchEdits
           ELSE /\ batch' = [batch EXCEPT ![b].routes = list, ![b].status = "pending"]
                /\ batchEdits' = batchEdits + 1
        /\ printer' = [t \in Setters |->
              IF t = s THEN NoJob
              ELSE IF Printing(t) /\ printer[t].batch = b
                   THEN [printer[t] EXCEPT !.of = @ \cup {list}]
              ELSE printer[t]]
    BY <1>8 DEF UpdateRouteIDs
  <2>2. b \in Batches /\ list \in CardLists \ {<<>>}
    BY <2>1 DEF BatchRowsInv, JobIsAsked
  <2> HIDE DEF b, list
  <2>3. batch' \in [Batches -> BatchRows \cup {NoBatch}]
    <3>1. CASE batch[b] = NoBatch
      BY <1>0, <2>1, <3>1
    <3>2. CASE batch[b] # NoBatch
      <4>1. batch' = [batch EXCEPT ![b].routes = list, ![b].status = "pending"]
        BY <2>1, <3>2
      <4>2. QED
        BY ONLY <2>2, <3>2, <4>1, BatchRowsInv, RowIsChanged
    <3>3. QED
      BY <3>1, <3>2
  <2>4. batchEdits' \in 0 .. MaxBatchEdits
    BY <1>0, <2>1, BatchesAssumption
  <2>5. ASSUME NEW t \in Setters
        PROVE  JobIsAsked(printer'[t])
    <3>1. CASE t # s /\ Printing(t) /\ printer[t].batch = b
      <4> DEFINE lists == printer[t].of \cup {list}
      <4>1. printer'[t] = [printer[t] EXCEPT !.of = lists]
        BY <2>1, <3>1
      <4>2. printer[t].op = "print" /\ IsPrint(printer[t]) /\ JobIsAsked(printer[t])
        BY <3>1 DEF Printing, BatchesInv, PrintHolds, BatchRowsInv
      <4> HIDE DEF lists
      <4>3. printer'[t].op = "print" /\ printer'[t].batch = printer[t].batch
        BY <4>1, <4>2 DEF IsPrint
      <4>4. QED
        BY <4>2, <4>3 DEF JobIsAsked
    <3>2. CASE t = s
      BY <1>0, <2>1, <3>2
    <3>3. CASE t # s /\ ~(Printing(t) /\ printer[t].batch = b)
      BY <2>1, <3>3 DEF BatchRowsInv
    <3>4. QED
      BY <3>1, <3>2, <3>3
  <2>6. QED
    BY <2>3, <2>4, <2>5 DEF BatchRowsInv, JobIsAsked
<1>9. ASSUME NEW s \in Setters, NEW stage, NEW list,
             \/ /\ printer[s].op \in {"print", "card"}
                /\ printer' = [printer EXCEPT ![s].step = stage]
             \/ printer[s].op = "card" /\ printer' = [printer EXCEPT ![s].routes = list]
             \/ /\ printer[s].op = "print"
                /\ printer' = [printer EXCEPT ![s].step = stage, ![s].routes = list],
             BatchesStay
      PROVE  BatchRowsInv'
  <2> DEFINE x == [printer[s] EXCEPT !.step = stage]
             y == [printer[s] EXCEPT !.routes = list]
             z == [x EXCEPT !.routes = list]
  <2>1. JobIsAsked(printer[s]) /\ printer[s].op \in {"print", "card"}
    BY <1>9 DEF BatchRowsInv
  <2>2. /\ printer[s].op = "print" => IsPrint(printer[s])
        /\ printer[s].op = "card" => IsCard(printer[s])
    BY DEF BatchesInv, PrintHolds
  <2>3. \/ printer' = [printer EXCEPT ![s] = x]
        \/ printer[s].op = "card" /\ printer' = [printer EXCEPT ![s] = y]
        \/ printer[s].op = "print" /\ printer' = [printer EXCEPT ![s] = z]
    BY <1>9
  <2>4. JobIsAsked(x)
    <3>1. CASE printer[s].op = "print"
      <4>1. x.op = "print" /\ x.batch = printer[s].batch
        BY <2>2, <3>1 DEF IsPrint
      <4>2. QED
        BY <2>1, <3>1, <4>1 DEF JobIsAsked
    <3>2. CASE printer[s].op = "card"
      <4>1. x.op = "card"
        BY <2>2, <3>2 DEF IsCard
      <4>2. QED
        BY <4>1 DEF JobIsAsked
    <3>3. QED
      BY <2>1, <3>1, <3>2
  <2>5. printer[s].op = "card" => JobIsAsked(y)
    <3>1. printer[s].op = "card" => y.op = "card"
      BY <2>2 DEF IsCard
    <3>2. QED
      BY <3>1 DEF JobIsAsked
  <2>6. printer[s].op = "print" => JobIsAsked(z)
    <3>1. printer[s].op = "print" => z.op = "print" /\ z.batch = printer[s].batch
      <4>1. SUFFICES ASSUME printer[s].op = "print"
                     PROVE  z.op = "print" /\ z.batch = printer[s].batch
        OBVIOUS
      <4>2. "op" \in DOMAIN x /\ "batch" \in DOMAIN x /\ x.op = "print"
            /\ x.batch = printer[s].batch
        BY <2>2, <4>1 DEF IsPrint
      <4> HIDE DEF x
      <4>3. QED
        BY <4>2
    <3>2. QED
      BY <2>1, <3>1 DEF JobIsAsked
  <2> HIDE DEF x, y, z
  <2>7. QED
    BY <1>0, <1>9, <2>3, <2>4, <2>5, <2>6, JobAndRow
<1>10. ASSUME NEW s \in Setters,
              acquireUploadSem(s) \/ RenderPreviewPNG(s) \/ RenderBatch(s) \/ RenderFails(s)
       PROVE  BatchRowsInv'
  <2>1. CASE acquireUploadSem(s)
    BY <1>9, <2>1 DEF acquireUploadSem
  <2>2. CASE RenderPreviewPNG(s)
    BY <1>9, <2>2 DEF RenderPreviewPNG
  <2>3. CASE RenderBatch(s)
    <3> DEFINE list == Resolved(printer[s].routes)
               stage == IF list = <<>> THEN "failed" ELSE "printed"
    <3>1. /\ printer[s].op = "print" /\ BatchesStay
          /\ printer' = [printer EXCEPT ![s].step = stage, ![s].routes = list]
      BY <2>3 DEF RenderBatch
    <3> HIDE DEF list, stage
    <3>2. QED
      BY <1>9, <3>1
  <2>4. CASE RenderFails(s)
    BY <1>9, <2>4 DEF RenderFails
  <2>5. QED
    BY <1>10, <2>1, <2>2, <2>3, <2>4
<1>11. ASSUME NEW s \in Setters, MarkFailed(s)
       PROVE  BatchRowsInv'
  <2> DEFINE b == printer[s].batch
  <2>1. /\ printer[s].op = "print" /\ batchEdits' = batchEdits
        /\ batch' = IF batch[b] = NoBatch THEN batch ELSE [batch EXCEPT ![b].status = "failed"]
        /\ printer' = [printer EXCEPT ![s] = NoJob]
    BY <1>11 DEF MarkFailed
  <2>2. b \in Batches
    BY <2>1 DEF BatchRowsInv, JobIsAsked
  <2> HIDE DEF b
  <2>3. batch' \in [Batches -> BatchRows \cup {NoBatch}]
    <3>1. CASE batch[b] = NoBatch
      BY <1>0, <2>1, <3>1
    <3>2. CASE batch[b] # NoBatch
      <4>1. batch[b].routes \in CardLists \ {<<>>}
        BY <2>2, <3>2 DEF BatchRowsInv, BatchRows
      <4>2. QED
        BY <2>1, <2>2, <3>2, <4>1, RowIsChanged
    <3>3. QED
      BY <3>1, <3>2
  <2>4. QED
    BY <1>0, <2>1, <2>3, JobAndRow
<1>12. ASSUME NEW s \in Setters, RouteCard(s) \/ PrintEnds(s)
       PROVE  BatchRowsInv'
  <2>1. PICK y : /\ printer' = [printer EXCEPT ![s] = y] /\ JobIsAsked(y)
                 /\ batch' = batch /\ batchEdits' = batchEdits
    BY <1>0, <1>12 DEF RouteCard, PrintEnds, JobIsAsked
  <2>2. QED
    BY <1>0, <2>1, JobAndRow
<1>13. QED
  BY <1>1, <1>2, <1>3, <1>4, <1>5, <1>6, <1>7, <1>8, <1>10, <1>11, <1>12 DEF BatchesNext

LEMMA BatchesAreTyped == BatchesInv /\ BatchRowsInv => BatchesTypeOK
  BY DEF BatchesInv, BatchRowsInv, JobIsAsked, BatchesTypeOK

-----------------------------------------------------------------------------
(* CardSheet: the cards drawn are the first of the request, each where its  *)
(* number says.                                                             *)

LEMMA EightToAPage == CardsPerPage = 8
BY DEF CardsPerPage, GridCols, GridRows

LEMMA SlotsOfAPage ==
    ASSUME NEW n \in Nat
    PROVE  n % 8 \in 0 .. 7 /\ n \div 8 \in Nat /\ n = 8 * (n \div 8) + (n % 8)
<1>1. n % 8 \in 0 .. 7
  OBVIOUS
<1>2. n \div 8 \in Nat
  OBVIOUS
<1>3. n = 8 * (n \div 8) + (n % 8)
  OBVIOUS
<1>4. QED
  BY <1>1, <1>2, <1>3

\* Where a slot is: two columns of four rows.
LEMMA SlotsAreApart ==
    ASSUME NEW slot \in 0 .. 7
    PROVE  /\ SlotBox(slot).left = 381 + (slot % 2) * 1858
           /\ SlotBox(slot).top = 912 + (slot \div 2) * 1096
           /\ SlotBox(slot).right = SlotBox(slot).left + 1778
           /\ SlotBox(slot).bottom = SlotBox(slot).top + 1016
           /\ slot % 2 \in 0 .. 1 /\ slot \div 2 \in 0 .. 3
           /\ slot = 2 * (slot \div 2) + (slot % 2)
<1>1. /\ slot % 2 \in 0 .. 1 /\ slot \div 2 \in 0 .. 3 /\ slot = 2 * (slot \div 2) + (slot % 2)
  <2>1. slot % 2 \in 0 .. 1
    OBVIOUS
  <2>2. slot \div 2 \in 0 .. 3
    OBVIOUS
  <2>3. slot = 2 * (slot \div 2) + (slot % 2)
    OBVIOUS
  <2>4. QED
    BY <2>1, <2>2, <2>3
<1> DEFINE col == slot % 2
           row == slot \div 2
<1>2. SlotBox(slot) = Box(381 + col * (1778 + 80), 912 + row * (1016 + 80), 1778, 1016)
  BY DEF SlotBox, GridX, GridY, GridCols, CardW, CardH, Gutter
<1> HIDE DEF col, row
<1>3. col \in 0 .. 1 /\ row \in 0 .. 3
  BY <1>1 DEF col, row
<1>4. /\ SlotBox(slot).left = 381 + col * 1858 /\ SlotBox(slot).top = 912 + row * 1096
      /\ SlotBox(slot).right = SlotBox(slot).left + 1778
      /\ SlotBox(slot).bottom = SlotBox(slot).top + 1016
  BY <1>2, <1>3 DEF Box
<1>5. QED
  BY <1>1, <1>4 DEF col, row

\* Ink stays within its bleed of the card it is on.
Bleeds(ink, cut, bleed) ==
    /\ ink.left = cut.left + 1338 /\ ink.right = cut.right + bleed
    /\ ink.top = cut.top - bleed /\ ink.bottom = cut.bottom + bleed

LEMMA InkIsNear ==
    ASSUME NEW slot \in 0 .. 7, NEW bleed \in 0 .. 40, NEW cut, cut = SlotBox(slot)
    PROVE  Bleeds(Rotated(ColourBar(bleed), cut), cut, bleed)
<1> DEFINE x == slot % 2
           y == slot \div 2
<1>1. /\ cut.left = 381 + x * 1858 /\ cut.top = 912 + y * 1096
      /\ cut.right = cut.left + 1778 /\ cut.bottom = cut.top + 1016
      /\ x \in 0 .. 1 /\ y \in 0 .. 3
  BY SlotsAreApart
<1> HIDE DEF x, y
<1>2. cut.left \in Int /\ cut.top \in Int
  BY <1>1
<1> DEFINE bar == ColourBar(bleed)
<1>3. /\ bar.left = -bleed /\ bar.top = 1338 /\ bar.right = (-bleed) + (1016 + 2 * bleed)
      /\ bar.bottom = 1338 + (440 + bleed)
  BY DEF ColourBar, Box, CardW, CardH, BottomBarH
<1> HIDE DEF bar
<1>4. /\ Rotated(bar, cut).left = cut.left + bar.top
      /\ Rotated(bar, cut).right = cut.left + bar.bottom
      /\ Rotated(bar, cut).top = cut.bottom - bar.right
      /\ Rotated(bar, cut).bottom = cut.bottom - bar.left
  BY DEF Rotated
<1>5. /\ cut.left + bar.top = cut.left + 1338 /\ cut.left + bar.bottom = cut.right + bleed
      /\ cut.bottom - bar.right = cut.top - bleed /\ cut.bottom - bar.left = cut.bottom + bleed
  BY <1>1, <1>2, <1>3
<1>6. QED
  BY <1>4, <1>5 DEF bar, Bleeds

\* The marks of a page are the four corners the grid stays out of.
LEMMA MarksAreOutside ==
    ASSUME NEW m \in Marks
    PROVE  \/ m.left = 200 /\ m.top = 200 /\ m.right = 580 /\ m.bottom = 210
           \/ m.left = 200 /\ m.top = 200 /\ m.right = 210 /\ m.bottom = 580
           \/ m.left = 4018 /\ m.top = 200 /\ m.right = 4118 /\ m.bottom = 300
           \/ m.left = 200 /\ m.top = 5288 /\ m.right = 300 /\ m.bottom = 5388
<1>1. \/ m = Box(200, 200, 380, 10) \/ m = Box(200, 200, 10, 380)
      \/ m = Box(4318 - 200 - 100, 200, 100, 100) \/ m = Box(200, 5588 - 200 - 100, 100, 100)
  BY DEF Marks, MarkInset, MarkSquare, LegLong, LegThick, PageW, PageH
<1>2. QED
  BY <1>1 DEF Box

\* Cards of a page: none overruns another, a mark or the page.
LEMMA CutsOfAPageAreClean ==
    ASSUME NEW i \in 0 .. 7, NEW bleed \in 0 .. 40
    PROVE  LET cut == SlotBox(i)
               ink == Rotated(ColourBar(bleed), SlotBox(i))
           IN  /\ Within(cut, Box(0, 0, PageW, PageH))
               /\ \A m \in Marks : ~Overlap(ink, m) /\ ~Overlap(cut, m)
               /\ \A j \in 0 .. 7 \ {i} :
                     LET cut2 == SlotBox(j)
                         ink2 == Rotated(ColourBar(bleed), SlotBox(j))
                     IN  ~Overlap(ink, cut2) /\ ~Overlap(cut, cut2) /\ ~Overlap(ink, ink2)
<1> DEFINE cut == SlotBox(i)
           ink == Rotated(ColourBar(bleed), cut)
           x == i % 2
           y == i \div 2
<1>1. /\ cut.left = 381 + x * 1858 /\ cut.top = 912 + y * 1096
      /\ cut.right = cut.left + 1778 /\ cut.bottom = cut.top + 1016
      /\ x \in 0 .. 1 /\ y \in 0 .. 3 /\ i = 2 * y + x /\ cut = SlotBox(i)
  BY SlotsAreApart
<1> HIDE DEF cut
<1>a. Bleeds(ink, cut, bleed)
  BY <1>1, InkIsNear
<1> HIDE DEF ink, x, y
<1>2. /\ ink.left = cut.left + 1338 /\ ink.right = cut.right + bleed
      /\ ink.top = cut.top - bleed /\ ink.bottom = cut.bottom + bleed
  BY <1>a DEF Bleeds
<1>3. Within(cut, Box(0, 0, PageW, PageH))
  BY <1>1 DEF Within, Box, PageW, PageH
<1>4. ASSUME NEW m \in Marks
      PROVE  ~Overlap(ink, m) /\ ~Overlap(cut, m)
  <2>1. \/ m.left = 200 /\ m.top = 200 /\ m.right = 580 /\ m.bottom = 210
        \/ m.left = 200 /\ m.top = 200 /\ m.right = 210 /\ m.bottom = 580
        \/ m.left = 4018 /\ m.top = 200 /\ m.right = 4118 /\ m.bottom = 300
        \/ m.left = 200 /\ m.top = 5288 /\ m.right = 300 /\ m.bottom = 5388
    BY MarksAreOutside
  <2>2. QED
    BY <1>1, <1>2, <2>1 DEF Overlap
<1>5. ASSUME NEW j \in 0 .. 7 \ {i}
      PROVE  LET cut2 == SlotBox(j)
                 ink2 == Rotated(ColourBar(bleed), SlotBox(j))
             IN  ~Overlap(ink, cut2) /\ ~Overlap(cut, cut2) /\ ~Overlap(ink, ink2)
  <2> DEFINE cut2 == SlotBox(j)
             ink2 == Rotated(ColourBar(bleed), cut2)
             x2 == j % 2
             y2 == j \div 2
  <2>1. /\ cut2.left = 381 + x2 * 1858 /\ cut2.top = 912 + y2 * 1096
        /\ cut2.right = cut2.left + 1778 /\ cut2.bottom = cut2.top + 1016
        /\ x2 \in 0 .. 1 /\ y2 \in 0 .. 3 /\ j = 2 * y2 + x2 /\ cut2 = SlotBox(j)
    BY SlotsAreApart
  <2> HIDE DEF cut2
  <2>a. Bleeds(ink2, cut2, bleed)
    BY <2>1, InkIsNear
  <2> HIDE DEF ink2, x2, y2
  <2>2. /\ ink2.left = cut2.left + 1338 /\ ink2.right = cut2.right + bleed
        /\ ink2.top = cut2.top - bleed /\ ink2.bottom = cut2.bottom + bleed
    BY <2>a DEF Bleeds
  <2>3. x # x2 \/ y # y2
    BY <1>1, <2>1
  <2>4. \/ x2 < x \/ x < x2 \/ y < y2 \/ y2 < y
    BY <2>3, <1>1, <2>1
  <2>5. /\ ~Overlap(ink, cut2) /\ ~Overlap(cut, cut2) /\ ~Overlap(ink, ink2)
    BY <1>1, <1>2, <2>1, <2>2, <2>4 DEF Overlap
  <2>6. QED
    BY <2>5 DEF cut2, ink2
<1>6. QED
  BY <1>3, <1>4, <1>5 DEF cut, ink

FaceAt(i, bleed) ==
    [page |-> (i \div 8) + 1, of |-> i, cut |-> SlotBox(i % 8),
     ink |-> Rotated(ColourBar(bleed), SlotBox(i % 8))]

EveryCut == {Flipped(SlotBox(slot)) : slot \in 0 .. 7}

\* The pages are those the cards drawn have filled, and the one just begun.
SheetInv ==
    /\ sheetAsked = [cards |-> sheetAsked.cards, bleed |-> sheetAsked.bleed,
                     state |-> sheetAsked.state]
    /\ sheetAsked.state \in {"idle", "refused", "drawing", "sent"}
    /\ sheetAsked.cards \in 0 .. MaxSheetCards /\ sheetAsked.bleed \in 0 .. 40
    /\ sheetPages \in Nat /\ Drawn \in 0 .. sheetAsked.cards
    /\ sheetPages * 8 >= Drawn
    /\ sheetPages * 8 < Drawn + 8 \/ (sheetPages * 8 = Drawn + 8 /\ Drawn < sheetAsked.cards)
    /\ IsFiniteSet(faces) /\ faces = {FaceAt(i, sheetAsked.bleed) : i \in 0 .. Drawn - 1}
    /\ sheetAsked.state = "sent" => Drawn = sheetAsked.cards
    /\ sheetAsked.state = "idle" => faces = {} /\ sheetPages = 0
    /\ cutlines \in {{}, EveryCut}

LEMMA SheetsBegin == SheetInit => SheetInv
<1> SUFFICES ASSUME SheetInit
             PROVE  SheetInv
  OBVIOUS
<1>1. /\ sheetAsked.cards = 0 /\ sheetAsked.bleed = 0 /\ sheetAsked.state = "idle"
      /\ sheetAsked = [cards |-> 0, bleed |-> 0, state |-> "idle"]
      /\ sheetPages = 0 /\ faces = {} /\ cutlines = {}
  BY DEF SheetInit
<1>2. IsFiniteSet(faces) /\ Drawn = 0
  BY <1>1, FS_EmptySet DEF Drawn
<1>3. faces = {FaceAt(i, sheetAsked.bleed) : i \in 0 .. Drawn - 1}
  <2>1. 0 .. Drawn - 1 = {}
    BY <1>2
  <2>2. QED
    BY <1>1, <2>1
<1>4. 0 \in 0 .. MaxSheetCards
  BY SheetAssumption
<1>5. QED
  BY <1>1, <1>2, <1>3, <1>4 DEF SheetInv

LEMMA BleedIsClamped == \A bleed \in Nat : Clamped(bleed) \in 0 .. 40
BY DEF Clamped, DefaultBleed, Gutter

LEMMA SheetIsAsked ==
    ASSUME SheetInv, NEW n \in 0 .. MaxSheetCards, NEW bleed \in BleedsAsked, NEW cutter,
           AskSheet(n, bleed, cutter)
    PROVE  SheetInv'
<1> DEFINE stage == IF Refused(n, cutter) THEN "refused" ELSE "drawing"
           b == Clamped(bleed)
<1>1. /\ sheetAsked.state = "idle"
      /\ sheetAsked' = [cards |-> n, bleed |-> b, state |-> stage]
      /\ UNCHANGED <<sheetPages, faces, cutlines>>
  BY DEF AskSheet
<1>2. b \in 0 .. 40 /\ stage \in {"refused", "drawing"}
  BY BleedIsClamped, SheetAssumption
<1> HIDE DEF b, stage
<1>3. sheetAsked'.cards = n /\ sheetAsked'.bleed = b /\ sheetAsked'.state = stage
  BY <1>1
<1>4. faces = {} /\ sheetPages = 0 /\ Drawn' = 0 /\ IsFiniteSet(faces) /\ n \in Nat
  BY <1>1, FS_EmptySet, SheetAssumption DEF SheetInv, Drawn
<1>5. faces' = {FaceAt(i, sheetAsked'.bleed) : i \in 0 .. Drawn' - 1}
  <2>1. 0 .. Drawn' - 1 = {}
    BY <1>4
  <2>2. QED
    BY <1>1, <1>4, <2>1
<1>6. cutlines' \in {{}, EveryCut}
  BY <1>1 DEF SheetInv
<1>7. QED
  BY <1>1, <1>2, <1>3, <1>4, <1>5, <1>6 DEF SheetInv

LEMMA PageIsAdded ==
    ASSUME SheetInv, AddPage
    PROVE  SheetInv'
<1>1. /\ sheetAsked.state = "drawing" /\ Drawn < sheetAsked.cards /\ Drawn = sheetPages * 8
      /\ sheetPages' = sheetPages + 1 /\ UNCHANGED <<sheetAsked, faces, cutlines>>
  BY EightToAPage DEF AddPage
<1>2. Drawn' = Drawn /\ Drawn \in Nat /\ sheetPages \in Nat
  BY <1>1 DEF Drawn, SheetInv
<1>3. sheetPages' \in Nat /\ sheetPages' * 8 = Drawn + 8
  BY <1>1, <1>2
<1>4. QED
  BY <1>1, <1>2, <1>3 DEF SheetInv

LEMMA CardIsDrawn ==
    ASSUME SheetInv, DrawCard
    PROVE  SheetInv'
<1> DEFINE d == Drawn
           pages == sheetPages
           next == FaceAt(d, sheetAsked.bleed)
<1>1. /\ sheetAsked.state = "drawing" /\ d < sheetAsked.cards /\ d < pages * 8
      /\ UNCHANGED <<sheetAsked, sheetPages, cutlines>>
  BY EightToAPage DEF DrawCard
<1>2. /\ d \in Nat /\ pages \in Nat /\ pages * 8 <= d + 8 /\ IsFiniteSet(faces)
      /\ sheetAsked.cards \in Nat
  BY SheetAssumption DEF SheetInv
<1>3. d - (pages - 1) * 8 = d % 8 /\ pages = (d \div 8) + 1
  <2>1. d % 8 \in 0 .. 7 /\ d \div 8 \in Nat /\ d = 8 * (d \div 8) + (d % 8)
    BY <1>2, SlotsOfAPage
  <2> DEFINE q == d \div 8
             r == d % 8
  <2>2. q \in Nat /\ r \in 0 .. 7 /\ d = 8 * q + r
    BY <2>1
  <2> HIDE DEF d, pages, q, r
  <2>3. pages = q + 1 /\ d - (pages - 1) * 8 = r
    BY <1>1, <1>2, <2>2
  <2>4. QED
    BY <2>3 DEF q, r
<1>4. faces' = faces \cup {next}
  <2>1. faces' = faces \cup {[page |-> pages, of |-> d, cut |-> SlotBox(d - (pages - 1) * 8),
                ink |-> Rotated(ColourBar(sheetAsked.bleed), SlotBox(d - (pages - 1) * 8))]}
    BY EightToAPage DEF DrawCard
  <2> HIDE DEF d, pages
  <2>2. QED
    BY <1>3, <2>1 DEF FaceAt
<1>5. \A f \in faces : f.of \in 0 .. d - 1
  BY DEF SheetInv, FaceAt
<1>6. next \notin faces
  <2>1. next.of = d
    BY DEF FaceAt
  <2> HIDE DEF next, d
  <2>2. QED
    BY <1>2, <1>5, <2>1
<1>7. IsFiniteSet(faces') /\ Drawn' = d + 1
  BY <1>2, <1>4, <1>6, FS_AddElement DEF Drawn
<1>8. faces' = {FaceAt(i, sheetAsked.bleed) : i \in 0 .. d}
  <2>1. faces = {FaceAt(i, sheetAsked.bleed) : i \in 0 .. d - 1}
    BY DEF SheetInv
  <2> HIDE DEF d
  <2>2. 0 .. d = (0 .. d - 1) \cup {d}
    BY <1>2
  <2>3. QED
    BY <1>4, <2>1, <2>2
<1> HIDE DEF d, pages
<1>9. 0 .. d = 0 .. (d + 1) - 1
  BY <1>2
<1>10. faces' = {FaceAt(i, sheetAsked'.bleed) : i \in 0 .. Drawn' - 1}
  BY <1>1, <1>7, <1>8, <1>9
<1>11. /\ Drawn' \in 0 .. sheetAsked.cards /\ pages * 8 >= Drawn' /\ pages * 8 < Drawn' + 8
  BY <1>1, <1>2, <1>7
<1>12. QED
  BY <1>1, <1>7, <1>10, <1>11 DEF SheetInv, pages

LEMMA SheetIsSent ==
    ASSUME SheetInv, OutputSheet
    PROVE  SheetInv'
<1>1. /\ sheetAsked.state = "drawing" /\ Drawn = sheetAsked.cards
      /\ sheetAsked' = [sheetAsked EXCEPT !.state = "sent"]
      /\ UNCHANGED <<sheetPages, faces, cutlines>>
  BY DEF OutputSheet
<1>2. sheetAsked' = [cards |-> sheetAsked.cards, bleed |-> sheetAsked.bleed, state |-> "sent"]
  BY <1>1 DEF SheetInv
<1>3. /\ sheetAsked'.cards = sheetAsked.cards /\ sheetAsked'.bleed = sheetAsked.bleed
      /\ sheetAsked'.state = "sent"
  BY <1>2
<1>4. Drawn' = Drawn
  BY <1>1 DEF Drawn
<1>5. QED
  BY <1>1, <1>2, <1>3, <1>4 DEF SheetInv

LEMMA CutsAreWritten ==
    ASSUME SheetInv, RenderCutlinesDXF
    PROVE  SheetInv'
<1>1. UNCHANGED <<sheetAsked, sheetPages, faces>> /\ Drawn' = Drawn
  BY DEF RenderCutlinesDXF, Drawn
<1>2. cutlines' = EveryCut
  <2> DEFINE Written == {Flipped(SlotBox(row * 2 + col)) : row \in 0 .. 3, col \in 0 .. 1}
  <2>1. cutlines' = Written
    BY DEF RenderCutlinesDXF, GridRows, GridCols
  <2>2. Written \subseteq EveryCut
    BY DEF EveryCut
  <2>3. ASSUME NEW slot \in 0 .. 7
        PROVE  Flipped(SlotBox(slot)) \in Written
    <3>1. PICK row \in 0 .. 3, col \in 0 .. 1 : slot = row * 2 + col
      OBVIOUS
    <3>2. QED
      BY <3>1
  <2>4. QED
    BY <2>1, <2>2, <2>3 DEF EveryCut
<1>3. QED
  BY <1>1, <1>2 DEF SheetInv

LEMMA SheetStep == SheetInv /\ [SheetNext]_sheetVars => SheetInv'
<1> SUFFICES ASSUME SheetInv, [SheetNext]_sheetVars
             PROVE  SheetInv'
  OBVIOUS
<1>1. CASE UNCHANGED sheetVars
  BY <1>1 DEF sheetVars, SheetInv, Drawn
<1>2. CASE SheetNext
  BY <1>2, SheetIsAsked, PageIsAdded, CardIsDrawn, SheetIsSent, CutsAreWritten DEF SheetNext
<1>3. QED
  BY <1>1, <1>2

LEMMA FaceIsNumbered ==
    ASSUME SheetInv, NEW f \in faces
    PROVE  /\ f.of \in 0 .. Drawn - 1 /\ f.of \in Nat /\ f.page = (f.of \div 8) + 1
           /\ f.cut = SlotBox(f.of % 8) /\ f.of % 8 \in 0 .. 7
           /\ f.ink = Rotated(ColourBar(sheetAsked.bleed), f.cut)
<1>1. PICK i \in 0 .. Drawn - 1 : f = FaceAt(i, sheetAsked.bleed)
  BY DEF SheetInv
<1>2. f.of = i /\ f.page = (i \div 8) + 1 /\ f.cut = SlotBox(i % 8)
      /\ f.ink = Rotated(ColourBar(sheetAsked.bleed), SlotBox(i % 8))
  BY <1>1 DEF FaceAt
<1>3. i \in Nat /\ i % 8 \in 0 .. 7
  BY SlotsOfAPage DEF SheetInv
<1>4. QED
  BY <1>2, <1>3

LEMMA SheetsAreTyped == SheetInv => SheetTypeOK
<1> SUFFICES ASSUME SheetInv
             PROVE  SheetTypeOK
  OBVIOUS
<1>1. ASSUME NEW f \in faces
      PROVE  f.page \in 1 .. sheetPages /\ f.of \in 0 .. MaxSheetCards - 1
  <2>1. f.of \in 0 .. Drawn - 1 /\ f.page = (f.of \div 8) + 1
    BY FaceIsNumbered
  <2>2. /\ sheetPages * 8 >= Drawn /\ Drawn <= MaxSheetCards /\ sheetPages \in Nat /\ Drawn \in Nat
        /\ MaxSheetCards \in Nat
    BY SheetAssumption DEF SheetInv
  <2>3. /\ f.of % 8 \in 0 .. 7 /\ f.of \div 8 \in Nat /\ f.of = 8 * (f.of \div 8) + (f.of % 8)
    BY <2>1, <2>2, SlotsOfAPage
  <2> DEFINE q == f.of \div 8
             r == f.of % 8
  <2>4. r \in 0 .. 7 /\ q \in Nat /\ f.of = 8 * q + r /\ f.page = q + 1
    BY <2>1, <2>3
  <2> HIDE DEF q, r
  <2>5. QED
    BY <2>1, <2>2, <2>4
<1>2. Cardinality(cutlines) \in {0, 8}
  <2>1. CASE cutlines = {}
    BY <2>1, FS_EmptySet
  <2>2. CASE cutlines = EveryCut
    <3> DEFINE f == [slot \in 0 .. 7 |-> Flipped(SlotBox(slot))]
    <3>1. IsFiniteSet(0 .. 7) /\ Cardinality(0 .. 7) = 8
      <4> DEFINE k == 0
                 m == 7
      <4>1. k = 0 /\ m = 7 /\ k \in Int /\ m \in Int
        OBVIOUS
      <4> HIDE DEF k, m
      <4>2. IsFiniteSet(k .. m) /\ Cardinality(k .. m) = IF k > m THEN 0 ELSE m - k + 1
        BY <4>1, FS_Interval
      <4>3. QED
        BY <4>1, <4>2
    <3>2. ASSUME NEW i \in 0 .. 7, NEW j \in 0 .. 7, f[i] = f[j]
          PROVE  i = j
      <4> DEFINE a == SlotBox(i)
                 b == SlotBox(j)
                 x == i % 2
                 y == i \div 2
                 x2 == j % 2
                 y2 == j \div 2
      <4>1. /\ a.left = 381 + x * 1858 /\ a.top = 912 + y * 1096 /\ i = 2 * y + x
            /\ x \in 0 .. 1 /\ y \in 0 .. 3
        BY SlotsAreApart
      <4>2. /\ b.left = 381 + x2 * 1858 /\ b.top = 912 + y2 * 1096 /\ j = 2 * y2 + x2
            /\ x2 \in 0 .. 1 /\ y2 \in 0 .. 3
        BY SlotsAreApart
      <4>3. /\ Flipped(a).left = a.left /\ Flipped(a).top = PageH - a.top
            /\ Flipped(b).left = b.left /\ Flipped(b).top = PageH - b.top
        BY DEF Flipped, SlotBox, Box
      <4>4. Flipped(a) = Flipped(b)
        BY <3>2
      <4> HIDE DEF a, b, x, y, x2, y2
      <4>5. a.left = b.left /\ 5588 - a.top = 5588 - b.top
        BY <4>3, <4>4 DEF PageH
      <4>6. QED
        BY <4>1, <4>2, <4>5
    <3>3. f \in Bijection(0 .. 7, EveryCut)
      <4>1. \A t \in EveryCut : \E i \in 0 .. 7 : f[i] = t
        BY DEF EveryCut
      <4>2. f \in [0 .. 7 -> EveryCut]
        BY DEF EveryCut
      <4> HIDE DEF f
      <4>3. QED
        BY <3>2, <4>1, <4>2 DEF Bijection, Injection, Surjection, IsInjective
    <3> HIDE DEF f
    <3>4. Cardinality(EveryCut) = 8
      BY <3>1, <3>3, FS_Bijection DEF ExistsBijection
    <3>5. QED
      BY <2>2, <3>4
  <2>3. QED
    BY <2>1, <2>2 DEF SheetInv
<1>3. QED
  BY <1>1, <1>2, EightToAPage DEF SheetInv, SheetTypeOK

LEMMA CardsComeOnce == SheetInv => EveryCardOnce
<1> SUFFICES ASSUME SheetInv, sheetAsked.state = "sent"
             PROVE  /\ {f.of : f \in faces} = 0 .. sheetAsked.cards - 1
                    /\ Cardinality(faces) = sheetAsked.cards
                    /\ sheetPages = PageCount(sheetAsked.cards)
                    /\ \A f, g \in faces : f.of < g.of => f.page <= g.page
  BY DEF EveryCardOnce
<1> DEFINE n == sheetAsked.cards
<1>1. /\ n \in Nat /\ Drawn = n /\ sheetPages \in Nat
      /\ sheetPages * 8 >= n /\ sheetPages * 8 < n + 8
  BY SheetAssumption DEF SheetInv
<1>2. {f.of : f \in faces} = 0 .. n - 1
  <2>1. \A f \in faces : f.of \in 0 .. n - 1
    BY <1>1, FaceIsNumbered
  <2>2. ASSUME NEW i \in 0 .. n - 1
        PROVE  \E f \in faces : f.of = i
    <3>1. FaceAt(i, sheetAsked.bleed) \in faces
      BY <1>1 DEF SheetInv
    <3>2. QED
      BY <3>1 DEF FaceAt
  <2>3. QED
    BY <2>1, <2>2
<1>3. sheetPages = PageCount(n)
  <2> HIDE DEF n
  <2>1. CASE n = 0
    BY <1>1, <2>1 DEF PageCount
  <2>2. CASE n # 0
    <3>1. PageCount(n) = (n + 7) \div 8
      BY <1>1, <2>2, EightToAPage DEF PageCount
    <3> DEFINE q == (n + 7) \div 8
               r == (n + 7) % 8
    <3>2. n + 7 \in Nat
      BY <1>1
    <3>3. r \in 0 .. 7 /\ q \in Nat /\ n + 7 = 8 * q + r
      BY <3>2, SlotsOfAPage
    <3> HIDE DEF q, r
    <3>4. sheetPages = q
      BY <1>1, <3>3
    <3>5. QED
      BY <3>1, <3>4 DEF q
  <2>3. QED
    BY <2>1, <2>2
<1>4. ASSUME NEW f \in faces, NEW g \in faces, f.of < g.of
      PROVE  f.page <= g.page
  <2> DEFINE q == f.of \div 8
             r == f.of % 8
             q2 == g.of \div 8
             r2 == g.of % 8
  <2>1. f.of \in Nat /\ g.of \in Nat /\ f.page = q + 1 /\ g.page = q2 + 1
    BY FaceIsNumbered
  <2>2. /\ r \in 0 .. 7 /\ q \in Nat /\ f.of = 8 * q + r
        /\ r2 \in 0 .. 7 /\ q2 \in Nat /\ g.of = 8 * q2 + r2
    BY <2>1, SlotsOfAPage
  <2> HIDE DEF q, r, q2, r2
  <2>3. QED
    BY <1>4, <2>1, <2>2
<1>5. QED
  BY <1>1, <1>2, <1>3, <1>4 DEF Drawn

LEMMA CutsStayClean == SheetInv => CutsAreClean
<1> SUFFICES ASSUME SheetInv
             PROVE  CutsAreClean
  OBVIOUS
<1> DEFINE bleed == sheetAsked.bleed
<1>1. bleed \in 0 .. 40
  BY DEF SheetInv
<1>2. ASSUME NEW f \in faces
      PROVE  /\ Within(f.cut, Box(0, 0, PageW, PageH))
             /\ \A m \in Marks : ~Overlap(f.ink, m) /\ ~Overlap(f.cut, m)
  <2>1. /\ f.of % 8 \in 0 .. 7 /\ f.cut = SlotBox(f.of % 8)
        /\ f.ink = Rotated(ColourBar(bleed), SlotBox(f.of % 8))
    BY FaceIsNumbered
  <2> HIDE DEF bleed
  <2>2. QED
    BY <1>1, <2>1, CutsOfAPageAreClean
<1>3. ASSUME NEW f \in faces, NEW g \in faces, f.page = g.page, f.of # g.of
      PROVE  ~Overlap(f.ink, g.cut) /\ ~Overlap(f.cut, g.cut) /\ ~Overlap(f.ink, g.ink)
  <2> DEFINE i == f.of % 8
             j == g.of % 8
             q == f.of \div 8
             q2 == g.of \div 8
  <2>1. /\ f.of \in Nat /\ g.of \in Nat /\ i \in 0 .. 7 /\ j \in 0 .. 7
        /\ f.page = q + 1 /\ g.page = q2 + 1
        /\ f.cut = SlotBox(i) /\ f.ink = Rotated(ColourBar(bleed), SlotBox(i))
        /\ g.cut = SlotBox(j) /\ g.ink = Rotated(ColourBar(bleed), SlotBox(j))
    BY FaceIsNumbered
  <2>2. q \in Nat /\ q2 \in Nat /\ f.of = 8 * q + i /\ g.of = 8 * q2 + j
    BY <2>1, SlotsOfAPage
  <2> HIDE DEF i, j, q, q2, bleed
  <2>3. i # j
    <3>1. q + 1 = q2 + 1 /\ 8 * q + i # 8 * q2 + j
      BY <1>3, <2>1, <2>2
    <3>2. QED
      BY <2>1, <2>2, <3>1
  <2>4. QED
    BY <1>1, <2>1, <2>3, CutsOfAPageAreClean
<1>4. QED
  BY <1>2, <1>3 DEF CutsAreClean

LEMMA CutFilesServe == SheetInv => CutFilesAgree
<1> SUFFICES ASSUME SheetInv, cutlines # {}, NEW f \in faces
             PROVE  Flipped(f.cut) \in cutlines
  BY DEF CutFilesAgree
<1>1. cutlines = EveryCut
  BY DEF SheetInv
<1>2. f.cut = SlotBox(f.of % 8) /\ f.of % 8 \in 0 .. 7
  BY FaceIsNumbered
<1>3. QED
  BY <1>1, <1>2 DEF EveryCut

-----------------------------------------------------------------------------
(* CardSheet, the faces: texts, lines and pills.                            *)

LEMMA EmIsANumber == \A f : Em(f) \in {10583, 2500, 600}
  BY DEF Em

LEMMA MeasureIsANumber ==
    ASSUME NEW f, NEW runes \in Nat, NEW size \in Nat
    PROVE  Measure(f, runes, size) \in Nat
<1>1. runes * size \in Nat
  OBVIOUS
<1> DEFINE n == runes * size
<1> HIDE DEF n
<1>2. n * Em(f) \in Nat
  BY <1>1, EmIsANumber DEF n
<1>3. (n * Em(f)) \div 1000 \in Nat
  BY <1>2
<1>4. QED
  BY <1>3 DEF Measure, n

\* A text with its ellipsis fits where two runes do.
LEMMA TruncatedFits ==
    ASSUME NEW f, NEW runes \in Nat, NEW size \in Nat, NEW width \in Nat,
           Measure(f, 2, size) <= width
    PROVE  /\ Truncated(f, runes, width, size) \in Nat
           /\ Measure(f, Truncated(f, runes, width, size), size) <= width
<1> DEFINE kept == {i \in 1 .. runes - 1 : Measure(f, i + 1, size) <= width}
<1>1. Truncated(f, runes, width, size) =
         IF Measure(f, runes, size) <= width THEN runes
         ELSE IF kept = {} THEN runes ELSE Max(kept) + 1
  BY DEF Truncated
<1>2. CASE Measure(f, runes, size) <= width
  BY <1>1, <1>2
<1>3. CASE ~(Measure(f, runes, size) <= width)
  <2>1. runes >= 2
    <3>1. Measure(f, 0, size) <= width /\ Measure(f, 1, size) <= width
      <4>1. /\ (0 * size * Em(f)) \div 1000 <= width
            /\ (1 * size * Em(f)) \div 1000 <= (2 * size * Em(f)) \div 1000
        <5>1. CASE Em(f) = 10583
          BY <5>1
        <5>2. CASE Em(f) = 2500
          BY <5>2
        <5>3. CASE Em(f) = 600
          BY <5>3
        <5>4. QED
          BY <5>1, <5>2, <5>3, EmIsANumber
      <4>2. Measure(f, 1, size) \in Nat /\ Measure(f, 2, size) \in Nat
        BY MeasureIsANumber
      <4>3. QED
        BY <4>1, <4>2 DEF Measure
    <3>2. runes # 0 /\ runes # 1
      BY <1>3, <3>1
    <3>3. QED
      BY <3>2
  <2>2. 1 \in kept
    <3>1. 1 \in 1 .. runes - 1 /\ 1 + 1 = 2
      BY <2>1
    <3>2. QED
      BY <3>1
  <2>3. IsFiniteSet(kept) /\ kept \subseteq Nat
    <3>1. 1 \in Int /\ runes - 1 \in Int
      BY <2>1
    <3>2. IsFiniteSet(1 .. runes - 1)
      BY <3>1, FS_Interval
    <3>3. kept \subseteq 1 .. runes - 1
      OBVIOUS
    <3>4. QED
      BY <3>2, <3>3, FS_Subset
  <2>4. Max(kept) \in kept
    <3> HIDE DEF kept
    <3>1. kept \subseteq Int /\ kept # {}
      BY <2>2, <2>3
    <3>2. QED
      BY <2>3, <3>1, FiniteMax
  <2>5. Max(kept) + 1 \in Nat /\ Measure(f, Max(kept) + 1, size) <= width
    BY <2>4
  <2>6. Truncated(f, runes, width, size) = Max(kept) + 1
    BY <1>1, <1>3, <2>2
  <2>7. QED
    BY <2>5, <2>6
<1>4. QED
  BY <1>2, <1>3

LEMMA FitIsASize ==
    ASSUME NEW f, NEW runes, NEW width, NEW start \in Nat, NEW min \in Nat, min <= start,
           NEW step \in {1, 2}
    PROVE  Fit(f, runes, width, start, min, step) \in min .. start
<1> DEFINE sizes == {s \in min .. start : (start - s) % step = 0}
           good == {s \in sizes : Measure(f, runes, s) <= width}
<1>1. Fit(f, runes, width, start, min, step) = IF good = {} THEN Min(sizes) ELSE Max(good)
  BY DEF Fit
<1>2. sizes \subseteq min .. start /\ good \subseteq sizes /\ min .. start \subseteq Nat
  OBVIOUS
<1>3. start \in sizes
  <2>1. (start - start) % step = 0 /\ start \in min .. start
    OBVIOUS
  <2>2. QED
    BY <2>1
<1>4. IsFiniteSet(good)
  <2>1. IsFiniteSet(min .. start)
    BY FS_Interval
  <2>2. QED
    BY <1>2, <2>1, FS_Subset
<1> HIDE DEF sizes, good
<1>5. good # {} => Max(good) \in good
  <2>1. good \subseteq Int
    BY <1>2
  <2>2. QED
    BY <1>4, <2>1, FiniteMax
<1>6. Min(sizes) \in sizes
  <2>1. sizes \subseteq Nat /\ sizes # {}
    BY <1>2, <1>3
  <2>2. \E x \in sizes : \A y \in sizes : x <= y
    BY <2>1, NaturalsHaveALeast
  <2>3. QED
    BY <2>2 DEF Min
<1>7. QED
  BY <1>1, <1>2, <1>5, <1>6

\* The runes of the first words of a name.
RunesUpTo(it, words) ==
    it = [n \in 0 .. Len(words) |-> IF n = 0 THEN 0 ELSE Joined(it[n - 1], words[n])]

LEMMA LineRunesIsANumber ==
    ASSUME NEW words \in Seq(Nat)
    PROVE  LineRunes(words) \in Nat
<1> DEFINE N == Len(words)
           step == [p \in (1 .. N) \X Nat |-> Joined(p[2], words[p[1]])]
<1>1. N \in Nat /\ \A n \in 1 .. N : words[n] \in Nat
  OBVIOUS
<1>2. \A n \in 1 .. N : \A x \in Nat :
         step[<<n, x>>] = Joined(x, words[n]) /\ Joined(x, words[n]) \in Nat
  BY <1>1 DEF Joined
<1> HIDE DEF N, step
<1>3. PICK it : Stepwise(it, 0, step, N)
  BY <1>1, StepsExist
<1>4. it = [n \in 0 .. N |-> IF n = 0 THEN 0 ELSE step[<<n, it[n - 1]>>]]
  BY <1>3 DEF Stepwise
<1> DEFINE Built(jt) == /\ jt[0] = 0
                        /\ \A n \in 1 .. N : jt[n - 1] \in Nat => jt[n] = Joined(jt[n - 1], words[n])
<1>5. \A jt : Built(jt) => \A n \in 0 .. N : jt[n] \in Nat
  <2> SUFFICES ASSUME NEW jt, Built(jt)
               PROVE  \A n \in 0 .. N : jt[n] \in Nat
    OBVIOUS
  <2> DEFINE G == {n \in 0 .. N : jt[n] \in Nat}
  <2>1. 0 \in G
    BY <1>1
  <2>2. \A n \in 1 .. N : n - 1 \in G => n \in G
    <3> SUFFICES ASSUME NEW n \in 1 .. N, n - 1 \in G
                 PROVE  n \in G
      OBVIOUS
    <3>1. jt[n] = Joined(jt[n - 1], words[n]) /\ n \in 0 .. N
      OBVIOUS
    <3>2. QED
      BY <1>2, <3>1
  <2> HIDE DEF G
  <2>3. \A n \in 0 .. N : n \in G
    BY <1>1, <2>1, <2>2, UpToInduction
  <2>4. QED
    BY <2>3 DEF G
<1>6. Built(it)
  <2>1. it[0] = 0
    BY <1>1, <1>4
  <2>2. ASSUME NEW n \in 1 .. N, it[n - 1] \in Nat
        PROVE  it[n] = Joined(it[n - 1], words[n])
    <3>1. n \in 0 .. N /\ n # 0
      OBVIOUS
    <3>2. it[n] = step[<<n, it[n - 1]>>]
      BY <1>4, <3>1
    <3>3. QED
      BY <1>2, <2>2, <3>2
  <2>3. QED
    BY <2>1, <2>2
<1>7. RunesUpTo(it, words)
  <2>1. ASSUME NEW n \in 0 .. N
        PROVE  it[n] = IF n = 0 THEN 0 ELSE Joined(it[n - 1], words[n])
    <3>1. CASE n = 0
      BY <1>6, <3>1
    <3>2. CASE n # 0
      <4>1. n \in 1 .. N /\ n - 1 \in 0 .. N
        BY <1>1, <3>2
      <4>2. it[n - 1] \in Nat
        BY <1>5, <1>6, <4>1
      <4>3. QED
        BY <1>6, <3>2, <4>1, <4>2
    <3>3. QED
      BY <3>1, <3>2
  <2>2. it = [n \in 0 .. N |-> it[n]]
    BY <1>4
  <2>3. it = [n \in 0 .. N |-> IF n = 0 THEN 0 ELSE Joined(it[n - 1], words[n])]
    BY <2>1, <2>2, Zenon
  <2>4. QED
    BY <2>3, Zenon DEF RunesUpTo, N
<1> DEFINE jt == CHOOSE x : RunesUpTo(x, words)
<1>8. RunesUpTo(jt, words)
  BY <1>7
<1>9. LineRunes(words) = jt[Len(words)]
  BY Zenon DEF LineRunes, RunesUpTo
<1> HIDE DEF jt
<1>10. Built(jt)
  <2>1. jt = [n \in 0 .. N |-> IF n = 0 THEN 0 ELSE Joined(jt[n - 1], words[n])]
    BY <1>8, Zenon DEF RunesUpTo, N
  <2>2. 0 \in 0 .. N /\ \A n \in 1 .. N : n \in 0 .. N /\ n # 0
    BY <1>1
  <2>3. QED
    BY <2>1, <2>2
<1>11. jt[N] \in Nat
  <2>1. N \in 0 .. N
    BY <1>1
  <2>2. QED
    BY <1>5, <1>10, <2>1
<1>12. QED
  BY <1>9, <1>11 DEF N

LEMMA LineIsAdded ==
    ASSUME NEW lines \in Seq(Nat), NEW line \in Nat
    PROVE  /\ Append(lines, line) \in Seq(Nat) /\ Len(Append(lines, line)) = Len(lines) + 1
           /\ \A i \in 1 .. Len(lines) : Append(lines, line)[i] = lines[i]
  OBVIOUS

WrapState == [lines : Seq(Nat), cur : Nat, taken : Nat, left : BOOLEAN]
NoWords == [lines |-> <<>>, cur |-> 0, taken |-> 0, left |-> FALSE]

LEMMA TookIsAState ==
    ASSUME NEW f, NEW w \in WrapState, NEW word \in Nat, NEW width, NEW size
    PROVE  Took(f, w, word, width, size, 2) \in WrapState
<1> DEFINE trial == Joined(w.cur, word)
           full == IF w.cur = 0 THEN w.lines ELSE Append(w.lines, w.cur)
<1>1. w.cur \in Nat /\ w.lines \in Seq(Nat) /\ w.taken \in Nat /\ w.left \in BOOLEAN
  BY DEF WrapState
<1>2. trial \in Nat /\ full \in Seq(Nat)
  BY <1>1 DEF Joined
<1>3. Took(f, w, word, width, size, 2) =
         IF w.left THEN w
         ELSE IF Measure(f, trial, size) <= width
              THEN [w EXCEPT !.cur = trial, !.taken = @ + 1]
         ELSE [lines |-> full, cur |-> word, taken |-> w.taken + 1, left |-> Len(full) = 1]
  BY DEF Took
<1> DEFINE taken == w.taken + 1
           left == Len(full) = 1
<1>4. taken \in Nat /\ left \in BOOLEAN
  BY <1>1
<1> HIDE DEF trial, full, taken, left
<1>5. /\ [w EXCEPT !.cur = trial, !.taken = taken] \in WrapState
      /\ [lines |-> full, cur |-> word, taken |-> taken, left |-> left] \in WrapState
  BY <1>1, <1>2, <1>4 DEF WrapState
<1>6. /\ [w EXCEPT !.cur = trial, !.taken = @ + 1] \in WrapState
      /\ [lines |-> full, cur |-> word, taken |-> w.taken + 1, left |-> Len(full) = 1] \in WrapState
  BY <1>5 DEF taken, left
<1>7. QED
  BY <1>3, <1>6

\* The lines as they stand after the first words of a name.
WrapUpTo(it, f, name, width, size) ==
    it = [n \in 0 .. Len(name) |->
            IF n = 0 THEN [lines |-> <<>>, cur |-> 0, taken |-> 0, left |-> FALSE]
            ELSE Took(f, it[n - 1], name[n], width, size, 2)]

\* A line that is full fits, unless the first word alone does not.
FitsOrFirst(f, line, name, width, size) ==
    Measure(f, line, size) <= width \/ line = name[1]
LinesHold(w, n, f, name, width, size) ==
    /\ w \in WrapState
    /\ \/ /\ w.lines = <<>> /\ w.left = FALSE
          /\ n = 0 => w.cur = 0
          /\ n # 0 => w.cur # 0 /\ FitsOrFirst(f, w.cur, name, width, size)
       \/ /\ Len(w.lines) = 1 /\ w.left = TRUE /\ n >= 2
          /\ FitsOrFirst(f, w.lines[1], name, width, size)

LEMMA LinesGoOn ==
    ASSUME NEW f, NEW name \in Seq(Nat \ {0}), NEW width, NEW size, NEW n \in 1 .. Len(name),
           NEW w, LinesHold(w, n - 1, f, name, width, size)
    PROVE  LinesHold(Took(f, w, name[n], width, size, 2), n, f, name, width, size)
<1> DEFINE word == name[n]
           trial == Joined(w.cur, word)
           full == IF w.cur = 0 THEN w.lines ELSE Append(w.lines, w.cur)
           to == Took(f, w, word, width, size, 2)
<1>1. w \in WrapState /\ word \in Nat /\ word # 0
  BY DEF LinesHold
<1>2. to \in WrapState
  BY <1>1, TookIsAState
<1>3. w.cur \in Nat /\ w.lines \in Seq(Nat) /\ w.taken \in Nat /\ w.left \in BOOLEAN
  BY <1>1 DEF WrapState
<1>0. SUFFICES LinesHold(to, n, f, name, width, size)
  OBVIOUS
<1>a. to = IF w.left THEN w
           ELSE IF Measure(f, trial, size) <= width
                THEN [w EXCEPT !.cur = trial, !.taken = @ + 1]
           ELSE [lines |-> full, cur |-> word, taken |-> w.taken + 1, left |-> Len(full) = 1]
  BY DEF Took
<1> HIDE DEF to, trial, word, full
<1>4. /\ w.left = TRUE => to = w
      /\ w.left = FALSE /\ Measure(f, trial, size) <= width
            => to = [w EXCEPT !.cur = trial, !.taken = @ + 1]
      /\ w.left = FALSE /\ ~(Measure(f, trial, size) <= width)
            => to = [lines |-> full, cur |-> word, taken |-> w.taken + 1,
                     left |-> Len(full) = 1]
  BY <1>a, Zenon
<1>5. trial \in Nat /\ trial # 0
  BY <1>1, <1>3 DEF Joined, trial
<1>6. n \in Nat /\ n # 0 /\ (n = 1 => word = name[1])
  BY DEF word
<1>7. /\ \/ /\ w.lines = <<>> /\ w.left = FALSE
            /\ n = 1 => w.cur = 0
            /\ n # 1 => w.cur # 0 /\ FitsOrFirst(f, w.cur, name, width, size)
         \/ /\ Len(w.lines) = 1 /\ w.left = TRUE /\ n >= 2
            /\ FitsOrFirst(f, w.lines[1], name, width, size)
  <2>1. (n - 1 = 0 <=> n = 1) /\ (n - 1 >= 2 => n >= 2)
    BY <1>6
  <2>2. QED
    BY <2>1 DEF LinesHold
<1>8. CASE w.left = TRUE
  <2>1. to = w
    BY <1>4, <1>8
  <2>2. Len(w.lines) = 1 /\ n >= 2 /\ FitsOrFirst(f, w.lines[1], name, width, size)
    BY <1>7, <1>8
  <2>3. QED
    BY <1>1, <1>8, <2>1, <2>2, Zenon DEF LinesHold
<1>9. CASE w.left = FALSE /\ Measure(f, trial, size) <= width
  <2>1. to = [w EXCEPT !.cur = trial, !.taken = @ + 1]
    BY <1>4, <1>9
  <2>2. to.lines = w.lines /\ to.cur = trial /\ to.left = w.left
    BY <1>1, <2>1 DEF WrapState
  <2>3. w.lines = <<>>
    BY <1>7, <1>9
  <2>4. FitsOrFirst(f, to.cur, name, width, size) /\ to.cur # 0
    BY <1>5, <1>9, <2>2 DEF FitsOrFirst
  <2>5. to.lines = <<>> /\ to.left = FALSE
    BY <1>9, <2>2, <2>3
  <2>6. QED
    BY <1>2, <1>6, <2>4, <2>5, Zenon DEF LinesHold
<1>10. CASE w.left = FALSE /\ ~(Measure(f, trial, size) <= width)
  <2>1. to = [lines |-> full, cur |-> word, taken |-> w.taken + 1, left |-> Len(full) = 1]
    BY <1>4, <1>10
  <2>2. to.lines = full /\ to.cur = word /\ to.left = (Len(full) = 1)
    BY <2>1
  <2>3. /\ w.lines = <<>> /\ (n = 1 => w.cur = 0)
        /\ n # 1 => w.cur # 0 /\ FitsOrFirst(f, w.cur, name, width, size)
    BY <1>7, <1>10
  <2>4. CASE n = 1
    <3>1. full = <<>> /\ Len(full) = 0
      BY <2>3, <2>4 DEF full
    <3>2. to.lines = <<>> /\ to.left = FALSE
      <4>1. ~(Len(full) = 1)
        BY <3>1
      <4>2. QED
        BY <2>2, <3>1, <4>1, Zenon
    <3>3. to.cur = name[1] /\ to.cur # 0
      BY <1>1, <1>6, <2>2, <2>4
    <3>4. FitsOrFirst(f, to.cur, name, width, size)
      BY <3>3 DEF FitsOrFirst
    <3>5. QED
      BY <1>2, <1>6, <3>2, <3>3, <3>4, Zenon DEF LinesHold
  <2>5. CASE n # 1
    <3>1. n >= 2
      BY <1>6, <2>5
    <3>2. full = <<w.cur>> /\ Len(full) = 1 /\ full[1] = w.cur
      BY <2>3, <2>5 DEF full
    <3>3. Len(to.lines) = 1 /\ to.left = TRUE /\ to.lines[1] = w.cur
      BY <2>2, <3>2
    <3>4. FitsOrFirst(f, to.lines[1], name, width, size)
      BY <2>3, <2>5, <3>3
    <3>5. QED
      BY <1>2, <3>1, <3>3, <3>4, Zenon DEF LinesHold
  <2>6. QED
    BY <2>4, <2>5
<1>11. QED
  BY <1>3, <1>8, <1>9, <1>10, Zenon

LEMMA WrapIsBuilt ==
    ASSUME NEW f, NEW name \in Seq(Nat \ {0}), NEW width, NEW size
    PROVE  \E it : /\ WrapUpTo(it, f, name, width, size)
                   /\ LinesHold(it[Len(name)], Len(name), f, name, width, size)
                   /\ Wrapped(f, name, width, size, 2) =
                        LET end == it[Len(name)]
                            all == IF end.cur = 0 THEN end.lines ELSE Append(end.lines, end.cur)
                            lines == IF Len(all) > 2 THEN SubSeq(all, 1, 2) ELSE all
                        IN  [lines |-> lines, taken |-> end.taken,
                             cut |-> lines # <<>> /\ Measure(f, lines[Len(lines)], size) > width]
<1> DEFINE N == Len(name)
           step == [p \in (1 .. N) \X WrapState |-> Took(f, p[2], name[p[1]], width, size, 2)]
<1>1. N \in Nat /\ \A n \in 1 .. N : name[n] \in Nat
  OBVIOUS
<1>2. \A n \in 1 .. N : \A w \in WrapState :
         step[<<n, w>>] = Took(f, w, name[n], width, size, 2)
  OBVIOUS
<1> HIDE DEF step
<1>3. PICK it : Stepwise(it, NoWords, step, N)
  BY <1>1, StepsExist
<1>4. it = [n \in 0 .. N |-> IF n = 0 THEN NoWords ELSE step[<<n, it[n - 1]>>]]
  BY <1>3 DEF Stepwise
<1> DEFINE Good(w, n) == LinesHold(w, n, f, name, width, size)
           Built(jt) == /\ jt[0] = NoWords
                        /\ \A n \in 1 .. N : Good(jt[n - 1], n - 1) =>
                              jt[n] = Took(f, jt[n - 1], name[n], width, size, 2)
<1>5. \A jt : Built(jt) => \A n \in 0 .. N : Good(jt[n], n)
  <2> SUFFICES ASSUME NEW jt, Built(jt)
               PROVE  \A n \in 0 .. N : Good(jt[n], n)
    OBVIOUS
  <2> DEFINE G == {n \in 0 .. N : Good(jt[n], n)}
  <2>1. 0 \in G
    <3>1. NoWords \in WrapState /\ NoWords.lines = <<>> /\ NoWords.cur = 0
          /\ NoWords.left = FALSE
      BY DEF NoWords, WrapState
    <3>2. Good(NoWords, 0)
      BY <3>1 DEF LinesHold
    <3>3. 0 \in 0 .. N /\ jt[0] = NoWords
      BY <1>1
    <3>4. QED
      BY <3>2, <3>3
  <2>2. \A n \in 1 .. N : n - 1 \in G => n \in G
    <3> SUFFICES ASSUME NEW n \in 1 .. N, n - 1 \in G
                 PROVE  n \in G
      OBVIOUS
    <3>1. Good(jt[n - 1], n - 1) /\ n \in 0 .. N
      OBVIOUS
    <3>2. jt[n] = Took(f, jt[n - 1], name[n], width, size, 2)
      BY <3>1
    <3>3. Good(jt[n], n)
      BY <3>1, <3>2, LinesGoOn
    <3>4. QED
      BY <3>1, <3>3
  <2> HIDE DEF G, N
  <2>3. \A n \in 0 .. N : n \in G
    BY <1>1, <2>1, <2>2, UpToInduction
  <2>4. QED
    BY <2>3 DEF G
<1>6. \A w, n : Good(w, n) => w \in WrapState
  BY DEF LinesHold
<1> HIDE DEF Good, N
<1>7. Built(it)
  <2>1. it[0] = NoWords
    BY <1>1, <1>4
  <2>2. ASSUME NEW n \in 1 .. N, Good(it[n - 1], n - 1)
        PROVE  it[n] = Took(f, it[n - 1], name[n], width, size, 2)
    <3>1. n \in 0 .. N /\ n # 0 /\ it[n - 1] \in WrapState
      BY <1>6, <2>2
    <3>2. it[n] = step[<<n, it[n - 1]>>]
      BY <1>4, <3>1
    <3>3. QED
      BY <1>2, <3>1, <3>2
  <2>3. QED
    BY <2>1, <2>2
<1>8. WrapUpTo(it, f, name, width, size)
  <2>1. ASSUME NEW n \in 0 .. N
        PROVE  it[n] = IF n = 0 THEN NoWords ELSE Took(f, it[n - 1], name[n], width, size, 2)
    <3>1. CASE n = 0
      BY <1>7, <3>1
    <3>2. CASE n # 0
      <4>1. n \in 1 .. N /\ n - 1 \in 0 .. N
        BY <1>1, <3>2
      <4>2. Good(it[n - 1], n - 1)
        BY <1>5, <1>7, <4>1
      <4>3. QED
        BY <1>7, <3>2, <4>1, <4>2
    <3>3. QED
      BY <3>1, <3>2
  <2>2. it = [n \in 0 .. N |-> it[n]]
    BY <1>4
  <2>3. it = [n \in 0 .. N |-> IF n = 0 THEN NoWords
                               ELSE Took(f, it[n - 1], name[n], width, size, 2)]
    BY <2>1, <2>2, Zenon
  <2>4. QED
    BY <2>3, Zenon DEF WrapUpTo, N, NoWords
<1> DEFINE jt == CHOOSE x : WrapUpTo(x, f, name, width, size)
<1>9. WrapUpTo(jt, f, name, width, size)
  BY <1>8
<1>10. Wrapped(f, name, width, size, 2) =
          LET end == jt[Len(name)]
              all == IF end.cur = 0 THEN end.lines ELSE Append(end.lines, end.cur)
              lines == IF Len(all) > 2 THEN SubSeq(all, 1, 2) ELSE all
          IN  [lines |-> lines, taken |-> end.taken,
               cut |-> lines # <<>> /\ Measure(f, lines[Len(lines)], size) > width]
  BY Zenon DEF Wrapped, WrapUpTo
<1> HIDE DEF jt
<1>11. Built(jt)
  <2>1. jt = [n \in 0 .. N |-> IF n = 0 THEN NoWords
                               ELSE Took(f, jt[n - 1], name[n], width, size, 2)]
    BY <1>9, Zenon DEF WrapUpTo, N, NoWords
  <2>2. 0 \in 0 .. N /\ \A n \in 1 .. N : n \in 0 .. N /\ n # 0
    BY <1>1
  <2>3. QED
    BY <2>1, <2>2
<1>12. Good(jt[N], N)
  <2>1. N \in 0 .. N
    BY <1>1
  <2>2. QED
    BY <1>5, <1>11, <2>1
<1>13. QED
  BY <1>9, <1>10, <1>12, Zenon DEF Good, N

\* All lines but the last fit, unless the first word alone is too wide for one.
FullLinesFit(lines, f, name, width, size) ==
    /\ lines \in Seq(Nat) /\ Len(lines) \in 0 .. 2
    /\ \A i \in 1 .. Len(lines) - 1 :
          Measure(f, lines[i], size) <= width \/ (Len(name) > 1 /\ lines[i] = name[1])

LEMMA WrappedFits ==
    ASSUME NEW f, NEW name \in Seq(Nat \ {0}), NEW width, NEW size
    PROVE  FullLinesFit(Wrapped(f, name, width, size, 2).lines, f, name, width, size)
<1> DEFINE N == Len(name)
<1>1. PICK it : /\ LinesHold(it[N], N, f, name, width, size)
                /\ Wrapped(f, name, width, size, 2) =
                     LET end == it[N]
                         all == IF end.cur = 0 THEN end.lines ELSE Append(end.lines, end.cur)
                         lines == IF Len(all) > 2 THEN SubSeq(all, 1, 2) ELSE all
                     IN  [lines |-> lines, taken |-> end.taken,
                          cut |-> lines # <<>> /\ Measure(f, lines[Len(lines)], size) > width]
  BY WrapIsBuilt, Zenon
<1> DEFINE end == it[N]
           all == IF end.cur = 0 THEN end.lines ELSE Append(end.lines, end.cur)
<1>2. end.lines \in Seq(Nat) /\ end.cur \in Nat
  BY <1>1 DEF LinesHold, WrapState
<1>3. \/ end.lines = <<>>
      \/ Len(end.lines) = 1 /\ N >= 2 /\ FitsOrFirst(f, end.lines[1], name, width, size)
  BY <1>1 DEF LinesHold
<1> HIDE DEF end, N
<1>4. /\ all \in Seq(Nat) /\ Len(all) \in 0 .. 2
      /\ \A i \in 1 .. Len(all) - 1 :
            Measure(f, all[i], size) <= width \/ (N > 1 /\ all[i] = name[1])
  <2>1. CASE end.lines = <<>>
    <3>1. Len(all) \in {0, 1} /\ all \in Seq(Nat)
      BY <1>2, <2>1
    <3> DEFINE k == Len(all)
    <3> HIDE DEF all, k
    <3>2. k \in {0, 1} => k \in 0 .. 2 /\ \A i \in 1 .. k - 1 : FALSE
      OBVIOUS
    <3> USE DEF k
    <3>3. QED
      BY <3>1, <3>2, Zenon
  <2>2. CASE Len(end.lines) = 1 /\ N >= 2 /\ FitsOrFirst(f, end.lines[1], name, width, size)
    <3> DEFINE first == end.lines
               cur == end.cur
    <3>1. Len(all) \in {1, 2} /\ all[1] = first[1] /\ all \in Seq(Nat)
      <4>1. all = IF cur = 0 THEN first ELSE Append(first, cur)
        OBVIOUS
      <4>2. first \in Seq(Nat) /\ cur \in Nat /\ Len(first) = 1
        BY <1>2, <2>2
      <4> HIDE DEF all, first, cur
      <4>3. /\ Append(first, cur) \in Seq(Nat) /\ Len(Append(first, cur)) = 2
            /\ Append(first, cur)[1] = first[1]
        <5>1. Append(first, cur) \in Seq(Nat) /\ Len(Append(first, cur)) = Len(first) + 1
          BY <4>2, LineIsAdded
        <5>2. \A i \in 1 .. Len(first) : Append(first, cur)[i] = first[i]
          BY <4>2, LineIsAdded
        <5>3. 1 \in 1 .. 1 /\ 1 + 1 = 2
          OBVIOUS
        <5>4. QED
          BY <4>2, <5>1, <5>2, <5>3, Zenon
      <4>4. CASE cur = 0
        BY <4>1, <4>2, <4>4
      <4>5. CASE cur # 0
        BY <4>1, <4>3, <4>5
      <4>6. QED
        BY <4>4, <4>5
    <3>2. N > 1
      <4>1. N \in Nat
        BY DEF N
      <4>2. QED
        BY <2>2, <4>1
    <3> HIDE DEF all
    <3>3. \A i \in 1 .. Len(all) - 1 : i = 1
      <4> DEFINE k == Len(all)
      <4> HIDE DEF k
      <4>1. k \in {1, 2} => \A i \in 1 .. k - 1 : i = 1
        OBVIOUS
      <4>2. QED
        BY <3>1, <4>1, Zenon DEF k
    <3>4. QED
      BY <2>2, <3>1, <3>2, <3>3 DEF FitsOrFirst
  <2>3. QED
    BY <1>3, <2>1, <2>2
<1> DEFINE lines == IF Len(all) > 2 THEN SubSeq(all, 1, 2) ELSE all
           cut == lines # <<>> /\ Measure(f, lines[Len(lines)], size) > width
<1>5. Wrapped(f, name, width, size, 2) = [lines |-> lines, taken |-> end.taken, cut |-> cut]
  BY <1>1, Zenon DEF end
<1> HIDE DEF cut, lines, all
<1>6. Wrapped(f, name, width, size, 2).lines = lines
  BY <1>5
<1>7. lines = all
  <2>1. Len(all) \in 0 .. 2
    BY <1>4
  <2> DEFINE k == Len(all)
  <2> HIDE DEF k
  <2>2. k \in 0 .. 2 => ~(k > 2)
    OBVIOUS
  <2>3. QED
    BY <2>1, <2>2, Zenon DEF lines, k
<1>8. QED
  BY <1>4, <1>6, <1>7 DEF N, FullLinesFit

\* Pills between the margins of the panel, and the place of the next one.
PillBoxes(from, to) ==
    {b \in [what : {"tag"}, left : Nat, right : Nat, top : {908}, bottom : {960}] :
        from <= b.left /\ b.left <= b.right /\ b.right <= to}
PillState(from, to) == [x : {x \in Nat : x >= from}, full : BOOLEAN,
                        boxes : SUBSET PillBoxes(from, to)]

LEMMA PillsGoOn ==
    ASSUME NEW from \in Nat, NEW to \in Nat, NEW p \in PillState(from, to), NEW tag \in Nat
    PROVE  Pill(p, tag, to) \in PillState(from, to)
<1> DEFINE w == Measure("digital", tag, 28) + 48
           box == Area("tag", p.x, 908, w, 52)
           x == p.x + w + 16
           boxes == p.boxes \cup {box}
<1>1. w \in Nat
  BY MeasureIsANumber
<1>2. Pill(p, tag, to) = IF p.full \/ p.x + w > to THEN [p EXCEPT !.full = TRUE]
                         ELSE [p EXCEPT !.x = x, !.boxes = boxes]
  BY DEF Pill
<1> HIDE DEF w
<1>3. p.x \in Nat /\ p.x >= from /\ p.full \in BOOLEAN /\ p.boxes \in SUBSET PillBoxes(from, to)
  BY DEF PillState
<1>4. [p EXCEPT !.full = TRUE] \in PillState(from, to)
  BY DEF PillState
<1>5. CASE ~(p.x + w > to)
  <2>1. box = [what |-> "tag", left |-> p.x, right |-> p.x + w, top |-> 908, bottom |-> 960]
    BY DEF Area
  <2>2. p.x + w \in Nat /\ p.x <= p.x + w /\ p.x + w <= to
    BY <1>1, <1>3, <1>5
  <2>3. box \in PillBoxes(from, to)
    BY <1>3, <2>1, <2>2 DEF PillBoxes
  <2>4. x \in Nat /\ x >= from
    BY <1>1, <1>3
  <2> HIDE DEF x, box
  <2>5. boxes \in SUBSET PillBoxes(from, to)
    BY <1>3, <2>3
  <2> HIDE DEF boxes
  <2>6. [p EXCEPT !.x = x, !.boxes = boxes] \in PillState(from, to)
    BY <2>4, <2>5 DEF PillState
  <2>7. QED
    BY <1>2, <1>4, <2>6
<1>6. CASE p.x + w > to
  BY <1>2, <1>4, <1>6
<1>7. QED
  BY <1>5, <1>6

PillsUpTo(it, pills, from, to) ==
    it = [n \in 0 .. Len(pills) |->
            IF n = 0 THEN [x |-> from, full |-> FALSE, boxes |-> {}]
            ELSE Pill(it[n - 1], pills[n], to)]

LEMMA PillsFit ==
    ASSUME NEW pills \in Seq(Nat), NEW from \in Nat, NEW to \in Nat
    PROVE  Pills(pills, from, to) \subseteq PillBoxes(from, to)
<1> DEFINE N == Len(pills)
           S == PillState(from, to)
           none == [x |-> from, full |-> FALSE, boxes |-> {}]
           step == [p \in (1 .. N) \X S |-> Pill(p[2], pills[p[1]], to)]
<1>1. N \in Nat /\ \A n \in 1 .. N : pills[n] \in Nat
  OBVIOUS
<1>2. \A n \in 1 .. N : \A p \in S :
         step[<<n, p>>] = Pill(p, pills[n], to) /\ Pill(p, pills[n], to) \in S
  BY <1>1, PillsGoOn
<1>3. none \in S
  BY DEF PillState
<1> HIDE DEF N, S, none, step
<1>4. PICK it : Stepwise(it, none, step, N)
  BY <1>1, StepsExist
<1>5. it = [n \in 0 .. N |-> IF n = 0 THEN none ELSE step[<<n, it[n - 1]>>]]
  BY <1>4 DEF Stepwise
<1> DEFINE Built(jt) == /\ jt[0] = none
                        /\ \A n \in 1 .. N : jt[n - 1] \in S =>
                              jt[n] = Pill(jt[n - 1], pills[n], to)
<1>6. \A jt : Built(jt) => \A n \in 0 .. N : jt[n] \in S
  <2> SUFFICES ASSUME NEW jt, Built(jt)
               PROVE  \A n \in 0 .. N : jt[n] \in S
    OBVIOUS
  <2> DEFINE G == {n \in 0 .. N : jt[n] \in S}
  <2>1. 0 \in G
    BY <1>1, <1>3
  <2>2. \A n \in 1 .. N : n - 1 \in G => n \in G
    <3> SUFFICES ASSUME NEW n \in 1 .. N, n - 1 \in G
                 PROVE  n \in G
      OBVIOUS
    <3>1. jt[n] = Pill(jt[n - 1], pills[n], to) /\ n \in 0 .. N
      OBVIOUS
    <3>2. QED
      BY <1>2, <3>1
  <2> HIDE DEF G
  <2>3. \A n \in 0 .. N : n \in G
    BY <1>1, <2>1, <2>2, UpToInduction
  <2>4. QED
    BY <2>3 DEF G
<1>7. Built(it)
  <2>1. it[0] = none
    BY <1>1, <1>5
  <2>2. ASSUME NEW n \in 1 .. N, it[n - 1] \in S
        PROVE  it[n] = Pill(it[n - 1], pills[n], to)
    <3>1. n \in 0 .. N /\ n # 0
      OBVIOUS
    <3>2. it[n] = step[<<n, it[n - 1]>>]
      BY <1>5, <3>1
    <3>3. QED
      BY <1>2, <2>2, <3>2
  <2>3. QED
    BY <2>1, <2>2
<1>8. PillsUpTo(it, pills, from, to)
  <2>1. ASSUME NEW n \in 0 .. N
        PROVE  it[n] = IF n = 0 THEN none ELSE Pill(it[n - 1], pills[n], to)
    <3>1. CASE n = 0
      BY <1>7, <3>1
    <3>2. CASE n # 0
      <4>1. n \in 1 .. N /\ n - 1 \in 0 .. N
        BY <1>1, <3>2
      <4>2. it[n - 1] \in S
        BY <1>6, <1>7, <4>1
      <4>3. QED
        BY <1>7, <3>2, <4>1, <4>2
    <3>3. QED
      BY <3>1, <3>2
  <2>2. it = [n \in 0 .. N |-> it[n]]
    BY <1>5
  <2>3. it = [n \in 0 .. N |-> IF n = 0 THEN none ELSE Pill(it[n - 1], pills[n], to)]
    BY <2>1, <2>2, Zenon
  <2>4. QED
    BY <2>3, Zenon DEF PillsUpTo, N, none
<1> DEFINE jt == CHOOSE x : PillsUpTo(x, pills, from, to)
<1>9. PillsUpTo(jt, pills, from, to)
  BY <1>8
<1>10. Pills(pills, from, to) = jt[Len(pills)].boxes
  BY Zenon DEF Pills, PillsUpTo
<1> HIDE DEF jt
<1>11. Built(jt)
  <2>1. jt = [n \in 0 .. N |-> IF n = 0 THEN none ELSE Pill(jt[n - 1], pills[n], to)]
    BY <1>9, Zenon DEF PillsUpTo, N, none
  <2>2. 0 \in 0 .. N /\ \A n \in 1 .. N : n \in 0 .. N /\ n # 0
    BY <1>1
  <2>3. QED
    BY <2>1, <2>2
<1>12. jt[N] \in S
  <2>1. N \in 0 .. N
    BY <1>1
  <2>2. QED
    BY <1>6, <1>11, <2>1
<1>13. QED
  BY <1>10, <1>12 DEF N, S, PillState

-----------------------------------------------------------------------------
(* The designs, box by box.                                                 *)

FaceCard == [name : CardNames, label : LabelLengths, circuit : BOOLEAN,
             wall : TextLengths \cup {0}, gym : {0, 12}, setter : TextLengths \cup {0},
             tags : TagLengths, url : {UrlRunes}]

LEMMA CardIsTyped ==
    ASSUME NEW c \in FaceCard
    PROVE  /\ c.name \in Seq(Nat \ {0}) /\ c.tags \in Seq(Nat) /\ c.label \in Nat
           /\ c.wall \in Nat /\ c.gym \in Nat /\ c.setter \in Nat /\ c.url \in Nat
<1>1. /\ c.name \in CardNames /\ c.tags \in TagLengths /\ c.label \in LabelLengths
      /\ c.wall \in TextLengths \cup {0} /\ c.gym \in {0, 12}
      /\ c.setter \in TextLengths \cup {0} /\ c.url = 71
  BY DEF FaceCard, UrlRunes
<1>2. c.name \in Seq(Nat \ {0}) /\ c.tags \in Seq(Nat)
  BY <1>1, FacesAssumption, Zenon
<1>3. c.label \in Nat /\ c.wall \in Nat /\ c.setter \in Nat
  <2>1. TextLengths \subseteq Nat /\ LabelLengths \subseteq Nat
    BY FacesAssumption, Zenon
  <2>2. c.label \in Nat
    BY <1>1, <2>1, Zenon
  <2>3. 0 \in Nat
    OBVIOUS
  <2>4. c.wall \in Nat /\ c.setter \in Nat
    <3>1. TextLengths \cup {0} \subseteq Nat
      BY <2>1, <2>3, Zenon
    <3>2. QED
      BY <1>1, <3>1, Zenon
  <2>5. QED
    BY <2>2, <2>4
<1>4. QED
  BY <1>1, <1>2, <1>3

IsBox(b) == b.left \in Int /\ b.right \in Int /\ b.top \in Int /\ b.bottom \in Int

\* What FaceReads asks of one box.
Fine(f, c, b) ==
    /\ b.left <= b.right
    /\ b.what \notin Unbounded(f, c) => b.left >= 0 /\ b.right <= Widest(f)

LEMMA TextIsAt ==
    ASSUME NEW f, NEW what, NEW x \in Int, NEW y, NEW runes \in Nat, NEW size \in Nat
    PROVE  LET b == Text(f, what, x, y, runes, size)
           IN  /\ b.what = what /\ b.left = x /\ b.right = x + Measure(f, runes, size)
               /\ b.top = y - Height(f, size) /\ b.bottom = y /\ b.left <= b.right
<1>1. x <= x + Measure(f, runes, size)
  BY MeasureIsANumber
<1>2. QED
  BY <1>1 DEF Text

LEMMA CentredIsAt ==
    ASSUME NEW f, NEW what, NEW x0 \in Int, NEW x1 \in Int, NEW y, NEW runes \in Nat,
           NEW size \in Nat
    PROVE  LET b == Centred(f, what, x0, x1, y, runes, size)
           IN  b.what = what /\ b.left <= b.right
<1>1. x0 + (x1 - x0 - Measure(f, runes, size)) \div 2 \in Int
  BY MeasureIsANumber
<1>2. QED
  BY <1>1, TextIsAt DEF Centred

LEMMA HeightIsANumber ==
    ASSUME NEW f, NEW size \in Nat
    PROVE  Height(f, size) \in Int
<1>1. CASE Em(f) = 10583
  BY <1>1 DEF Height
<1>2. CASE Em(f) = 2500
  BY <1>2 DEF Height
<1>3. CASE Em(f) = 600
  BY <1>3 DEF Height
<1>4. QED
  BY <1>1, <1>2, <1>3, EmIsANumber

\* The lines of a name stay within their width, unless it is overlong.
LEMMA NameIsOn ==
    ASSUME NEW f \in {"sheet", "preview", "digital"}, NEW name \in Seq(Nat \ {0}),
           NEW x \in Nat, NEW y \in Nat, NEW pitch \in Nat
    PROVE  LET lines == NameOn(f, name).lines
           IN  /\ Len(lines) \in 0 .. 2
               /\ \A b \in NameLines(f, lines, x, y, pitch) :
                     /\ IsBox(b) /\ b.what = "name" /\ b.left = x /\ b.left <= b.right
                     /\ b.bottom <= y + pitch
                     /\ b.right <= x + NameWidth(f) \/ Overlong(f, name)
<1> DEFINE lines == NameOn(f, name).lines
           size == NameSize(f)
           width == NameWidth(f)
<1>1. size \in Nat /\ width \in Nat /\ Measure(f, 2, size) <= width
  BY DEF NameSize, NameWidth, Measure, Em
<1>2. /\ lines \in Seq(Nat) /\ Len(lines) \in 0 .. 2
      /\ \A i \in 1 .. Len(lines) - 1 :
            Measure(f, lines[i], size) <= width \/ (Len(name) > 1 /\ lines[i] = name[1])
  BY WrappedFits DEF NameOn, FullLinesFit
<1> HIDE DEF lines
<1>3. ASSUME NEW i \in 1 .. Len(lines)
      PROVE  LET runes == IF i = Len(lines) THEN Truncated(f, lines[i], width, size) ELSE lines[i]
             IN  runes \in Nat /\ (Measure(f, runes, size) <= width \/ Overlong(f, name))
  <2>1. lines[i] \in Nat
    BY <1>2
  <2>2. CASE i = Len(lines)
    BY <1>1, <2>1, <2>2, TruncatedFits
  <2>3. CASE i # Len(lines)
    <3>1. i \in 1 .. Len(lines) - 1
      BY <1>2, <2>3
    <3>2. Measure(f, lines[i], size) <= width \/ (Len(name) > 1 /\ lines[i] = name[1])
      BY <1>2, <3>1
    <3>3. CASE Measure(f, lines[i], size) <= width
      BY <2>1, <2>3, <3>3
    <3>4. CASE Len(name) > 1 /\ lines[i] = name[1] /\ ~(Measure(f, lines[i], size) <= width)
      <4>1. Measure(f, name[1], size) > width
        BY <1>1, <2>1, <3>4, MeasureIsANumber
      <4>2. QED
        BY <2>1, <2>3, <3>4, <4>1 DEF Overlong
    <3>5. QED
      BY <3>2, <3>3, <3>4
  <2>4. QED
    BY <2>2, <2>3
<1>4. ASSUME NEW b \in NameLines(f, lines, x, y, pitch)
      PROVE  /\ IsBox(b) /\ b.what = "name" /\ b.left = x /\ b.left <= b.right
             /\ b.bottom <= y + pitch
             /\ b.right <= x + width \/ Overlong(f, name)
  <2>1. PICK i \in DOMAIN lines :
           b = LET runes == IF i = Len(lines) THEN Truncated(f, lines[i], width, size)
                            ELSE lines[i]
               IN  Text(f, "name", x, y + (i - 1) * pitch, runes, size)
    BY DEF NameLines
  <2>2. i \in 1 .. Len(lines)
    BY <1>2
  <2> DEFINE runes == IF i = Len(lines) THEN Truncated(f, lines[i], width, size) ELSE lines[i]
  <2>3. runes \in Nat /\ (Measure(f, runes, size) <= width \/ Overlong(f, name))
    BY <1>3, <2>2
  <2>4. b = Text(f, "name", x, y + (i - 1) * pitch, runes, size)
    BY <2>1
  <2> HIDE DEF runes, size, width
  <2> DEFINE m == Measure(f, runes, size)
             h == Height(f, size)
             z == y + (i - 1) * pitch
  <2>5. b = [what |-> "name", left |-> x, right |-> x + m, top |-> z - h, bottom |-> z]
    BY <2>4 DEF Text
  <2>6. i \in {1, 2}
    BY <1>2, <2>2
  <2>7. y + (i - 1) * pitch <= y + pitch
    <3>1. CASE i = 1
      BY <3>1
    <3>2. CASE i = 2
      BY <3>2
    <3>3. QED
      BY <2>6, <3>1, <3>2
  <2>8. Measure(f, runes, size) <= width => x + Measure(f, runes, size) <= x + width
    BY <1>1, <2>3, MeasureIsANumber
  <2>9. Measure(f, runes, size) \in Nat /\ Height(f, size) \in Int
    BY <1>1, <2>3, MeasureIsANumber, HeightIsANumber
  <2>10. y + (i - 1) * pitch \in Int
    BY <2>6
  <2> HIDE DEF m, h, z
  <2>11. /\ b.what = "name" /\ b.left = x /\ b.right = x + m /\ b.top = z - h /\ b.bottom = z
    BY <2>5
  <2>12. IsBox(b) /\ b.left <= b.right
    <3>1. m \in Nat /\ h \in Int /\ z \in Int
      BY <2>9, <2>10 DEF m, h, z
    <3>2. QED
      BY <2>11, <3>1 DEF IsBox
  <2>13. b.bottom <= y + pitch /\ (b.right <= x + width \/ Overlong(f, name))
    BY <2>3, <2>7, <2>8, <2>11 DEF m, z
  <2>14. QED
    BY <2>11, <2>12, <2>13
<1>5. QED
  BY <1>2, <1>4 DEF lines

\* Two boxes of a face keep clear where FaceReads asks it.
Clear(a, b) == a # b /\ {a.what, b.what} \cap {"qr", "setter"} # {}
                     /\ "label" \notin {a.what, b.what} => ~Overlap(a, b)

\* A box that keeps away from the code and, if there is one, from the setter's name.
Apart(b, qr, setter) ==
    /\ b.what \notin {"qr", "setter"}
    /\ b.right <= qr.left \/ b.bottom <= qr.top \/ b.top >= qr.bottom
    /\ b.right <= setter.left \/ b.bottom <= setter.top \/ b.top >= setter.bottom

LEMMA ApartIsClear ==
    ASSUME NEW S, NEW qr, NEW setter, IsBox(qr), IsBox(setter), qr.what = "qr",
           setter.what = "setter", setter.right <= qr.left,
           \A b \in S : \/ b.what = "label" \/ b = qr \/ b = setter
                        \/ IsBox(b) /\ Apart(b, qr, setter)
    PROVE  \A a, b \in S : Clear(a, b)
<1>1. ASSUME NEW a \in S, NEW b \in S, a # b, a.what # "label", b.what # "label",
             {a.what, b.what} \cap {"qr", "setter"} # {}, Overlap(a, b)
      PROVE  FALSE
  <2>1. ASSUME NEW x, IsBox(x), Apart(x, qr, setter)
        PROVE  ~Overlap(x, qr) /\ ~Overlap(qr, x) /\ ~Overlap(x, setter) /\ ~Overlap(setter, x)
    BY <2>1 DEF Apart, IsBox, Overlap
  <2>2. ~Overlap(qr, setter) /\ ~Overlap(setter, qr)
    BY DEF IsBox, Overlap
  <2>3. /\ a = qr \/ a = setter \/ (IsBox(a) /\ Apart(a, qr, setter))
        /\ b = qr \/ b = setter \/ (IsBox(b) /\ Apart(b, qr, setter))
    BY <1>1
  <2>4. a \in {qr, setter} \/ b \in {qr, setter}
    BY <1>1, <2>3 DEF Apart
  <2>5. QED
    BY <1>1, <2>1, <2>2, <2>3, <2>4
<1>2. QED
  BY <1>1 DEF Clear

LEMMA SheetFaceReads ==
    ASSUME NEW c \in FaceCard
    PROVE  /\ \A b \in SheetFace(c) : Fine("sheet", c, b)
           /\ \A a, b \in SheetFace(c) : Clear(a, b)
<1> DEFINE f == "sheet"
           lines == NameOn(f, c.name).lines
           labelSize == Fit(f, c.label, 5080 - 800, IF c.circuit THEN 48 ELSE 68, 20, 1)
           metaY == Max({4200 + 440 * Len(lines), 4200 + 2 * 440 + 120})
           wallSize == Fit(f, c.wall, Col1W, 18, 14, 1)
           setterSize == Fit(f, c.setter, Col2W, 18, 14, 1)
           wallRunes == Truncated(f, c.wall, Col1W, wallSize)
           setterRunes == Truncated(f, c.setter, Col2W, setterSize)
           label == Centred(f, "label", 0, 5080, 6690 + 1100 + (Height(f, labelSize) * 36) \div 100,
                            c.label, labelSize)
           wall == Text(f, "wall", 300, metaY + 360, wallRunes, wallSize)
           setter == Text(f, "setter", 2150, metaY + 360, setterRunes, setterSize)
           qr == QrOn(f)
           fixed == {Text(f, "WALL", 300, metaY, 4, 11), Text(f, "SETTER", 2150, metaY, 6, 11),
                     Text(f, "SET", 300, metaY + 800, 3, 11),
                     Text(f, "date", 300, metaY + 1160, DateRunes, 18)}
           names == NameLines(f, lines, 300, 4200, 440)
<1>1. \A b \in SheetFace(c) :
         b = label \/ b = qr \/ b = wall \/ b = setter \/ b \in fixed \/ b \in names
  <2>1. 300 + Col1W + 150 = 2150
    BY DEF Col1W
  <2>2. QED
    BY <2>1 DEF SheetFace, Shown
<1>2. /\ c.name \in Seq(Nat \ {0}) /\ c.label \in Nat /\ c.wall \in Nat /\ c.setter \in Nat
  BY CardIsTyped
<1>3. Len(lines) \in 0 .. 2
      /\ \A b \in names : /\ IsBox(b) /\ b.what = "name" /\ b.left = 300 /\ b.left <= b.right
                          /\ b.bottom <= 4200 + 440
                          /\ b.right <= 300 + NameWidth(f) \/ Overlong(f, c.name)
  BY <1>2, NameIsOn
<1> HIDE DEF lines
<1>4. metaY = 5200
  <2> DEFINE k == 4200 + 440 * Len(lines)
             S == {k, 5200}
  <2>1. k \in Nat /\ k <= 5200
    <3> DEFINE n == Len(lines)
    <3> HIDE DEF n
    <3>1. n \in 0 .. 2 => 4200 + 440 * n \in Nat /\ 4200 + 440 * n <= 5200
      OBVIOUS
    <3>2. QED
      BY <1>3, <3>1 DEF n
  <2> HIDE DEF k
  <2>2. IsFiniteSet({5200}) /\ S = {5200} \cup {k}
    <3>1. S = {5200} \cup {k}
      OBVIOUS
    <3>2. \A n \in Nat : IsFiniteSet({n})
      BY FS_Singleton
    <3>3. QED
      BY <3>1, <3>2, SMT
  <2>3. IsFiniteSet(S) /\ S \subseteq Int /\ S # {} /\ 5200 \in S
    BY <2>1, <2>2, FS_AddElement
  <2>4. Max(S) \in S /\ \A x \in S : x <= Max(S)
    BY <2>3, FiniteMax
  <2>5. Max(S) = 5200
    BY <2>1, <2>4
  <2>6. 4200 + 2 * 440 + 120 = 5200
    OBVIOUS
  <2>7. QED
    BY <2>5, <2>6 DEF k
<1> HIDE DEF metaY
<1>5. labelSize \in Nat
  <2>1. labelSize \in 20 .. (IF c.circuit THEN 48 ELSE 68)
    <3>1. (IF c.circuit THEN 48 ELSE 68) \in Nat /\ 20 <= (IF c.circuit THEN 48 ELSE 68)
      OBVIOUS
    <3>2. QED
      BY <3>1, FitIsASize
  <2>2. QED
    BY <2>1
<1>6. wallSize \in 14 .. 18 /\ setterSize \in 14 .. 18
  BY FitIsASize
<1> HIDE DEF labelSize, wallSize, setterSize
<1>7. /\ wallRunes \in Nat /\ Measure(f, wallRunes, wallSize) <= 1700
      /\ setterRunes \in Nat /\ Measure(f, setterRunes, setterSize) <= 1150
  <2>1. Measure(f, 2, wallSize) <= 1150 /\ Measure(f, 2, setterSize) <= 1150
    BY <1>6 DEF Measure, Em
  <2>2. wallRunes \in Nat /\ Measure(f, wallRunes, wallSize) <= Col1W
    <3>1. Col1W \in Nat /\ wallSize \in Nat /\ Measure(f, 2, wallSize) <= Col1W
      BY <1>6, <2>1, MeasureIsANumber DEF Col1W
    <3>2. QED
      BY <1>2, <3>1, TruncatedFits
  <2>3. setterRunes \in Nat /\ Measure(f, setterRunes, setterSize) <= Col2W
    <3>1. Col2W \in Nat /\ setterSize \in Nat /\ Measure(f, 2, setterSize) <= Col2W
      BY <1>6, <2>1 DEF Col2W
    <3>2. QED
      BY <1>2, <3>1, TruncatedFits
  <2>4. QED
    BY <2>2, <2>3 DEF Col1W, Col2W
<1> HIDE DEF wallRunes, setterRunes
<1>8. label.what = "label" /\ label.left <= label.right
  BY <1>2, <1>5, CentredIsAt
<1>9. qr = [what |-> "qr", left |-> 3430, right |-> 4830, top |-> 5090, bottom |-> 6490]
  BY DEF QrOn, Area
<1>10. /\ wall.what = "wall" /\ wall.left = 300 /\ wall.left <= wall.right /\ wall.right <= 2000
       /\ IsBox(wall)
  <2> DEFINE m == Measure(f, wallRunes, wallSize)
             h == Height(f, wallSize)
  <2>1. wall = [what |-> "wall", left |-> 300, right |-> 300 + m, top |-> 5560 - h, bottom |-> 5560]
    BY <1>4 DEF Text
  <2>2. h \in Int
    BY <1>6 DEF Height, Em
  <2>3. m \in Nat /\ m <= 1700
    BY <1>6, <1>7, MeasureIsANumber
  <2> HIDE DEF wall, m, h
  <2>4. QED
    BY <2>1, <2>2, <2>3 DEF IsBox
<1>11. /\ setter.what = "setter" /\ setter.left = 2150 /\ setter.left <= setter.right
       /\ setter.right <= 3300 /\ setter.top >= 5200 /\ setter.bottom = 5560 /\ IsBox(setter)
  <2> DEFINE m == Measure(f, setterRunes, setterSize)
             h == Height(f, setterSize)
  <2>1. setter = [what |-> "setter", left |-> 2150, right |-> 2150 + m, top |-> 5560 - h, bottom |-> 5560]
    BY <1>4 DEF Text
  <2>2. h \in 0 .. 360
    BY <1>6 DEF Height, Em
  <2>3. m \in Nat /\ m <= 1150
    BY <1>6, <1>7, MeasureIsANumber
  <2> HIDE DEF setter, m, h
  <2>4. QED
    BY <2>1, <2>2, <2>3 DEF IsBox
<1>12. ASSUME NEW b \in fixed
       PROVE  /\ b.what \in {"WALL", "SETTER", "SET", "date"} /\ b.left >= 0
              /\ b.left <= b.right /\ b.right <= 3430 /\ IsBox(b)
              /\ b.bottom <= 5200 \/ b.top >= 5560
  BY <1>4 DEF Text, Measure, Height, Em, DateRunes, IsBox
<1> HIDE DEF label, qr, wall, setter, fixed, names
<1>13. ASSUME NEW b \in SheetFace(c)
       PROVE  Fine(f, c, b)
  <2>1. Widest(f) = 5080 /\ NameWidth(f) = 2880
    BY DEF Widest, NameWidth
  <2>2. Unbounded(f, c) = {"label"} \cup (IF Overlong(f, c.name) THEN {"name"} ELSE {})
    BY DEF Unbounded
  <2>3. CASE b = label
    BY <1>8, <2>2, <2>3 DEF Fine
  <2>4. CASE b \in {qr, wall, setter} \cup fixed
    BY <1>9, <1>10, <1>11, <1>12, <2>1, <2>4 DEF Fine, IsBox
  <2>5. CASE b \in names
    <3>1. /\ IsBox(b) /\ b.what = "name" /\ b.left = 300 /\ b.left <= b.right
          /\ b.right <= 300 + NameWidth(f) \/ Overlong(f, c.name)
      BY <1>3, <2>5
    <3>2. CASE Overlong(f, c.name)
      BY <2>2, <3>1, <3>2 DEF Fine
    <3>3. CASE b.right <= 300 + NameWidth(f)
      BY <2>1, <3>1, <3>3 DEF Fine, IsBox
    <3>4. QED
      BY <3>1, <3>2, <3>3
  <2>6. QED
    BY <1>1, <2>3, <2>4, <2>5
<1>14. \A a, b \in SheetFace(c) : Clear(a, b)
  <2>1. IsBox(qr) /\ qr.what = "qr" /\ setter.right <= qr.left
    BY <1>9, <1>11 DEF IsBox
  <2>2. ASSUME NEW b \in SheetFace(c)
        PROVE  \/ b.what = "label" \/ b = qr \/ b = setter
               \/ IsBox(b) /\ Apart(b, qr, setter)
    <3>1. CASE b = wall
      BY <1>9, <1>10, <1>11, <3>1 DEF Apart, IsBox
    <3>2. CASE b \in fixed
      BY <1>9, <1>11, <1>12, <3>2 DEF Apart, IsBox
    <3>3. CASE b \in names
      BY <1>3, <1>9, <1>11, <3>3 DEF Apart, IsBox
    <3>4. QED
      BY <1>1, <1>8, <3>1, <3>2, <3>3
  <2>3. QED
    BY <1>11, <2>1, <2>2, ApartIsClear
<1>15. QED
  BY <1>13, <1>14

\* A text that is truncated to the width it has.
OnLine(b, what, x, y, width, h) ==
    /\ b.what = what /\ b.left = x /\ b.right \in Int /\ x <= b.right /\ b.right <= x + width
    /\ b.top = y - h /\ b.bottom = y

LEMMA TruncatedIsOnLine ==
    ASSUME NEW f, NEW what, NEW x \in Int, NEW y, NEW runes \in Nat, NEW size \in Nat,
           NEW width \in Nat, Measure(f, 2, size) <= width
    PROVE  OnLine(Text(f, what, x, y, Truncated(f, runes, width, size), size),
                  what, x, y, width, Height(f, size))
<1> DEFINE shown == Truncated(f, runes, width, size)
           m == Measure(f, shown, size)
           h == Height(f, size)
           b == Text(f, what, x, y, shown, size)
<1>1. shown \in Nat /\ m <= width
  BY TruncatedFits
<1> HIDE DEF shown
<1>2. m \in Nat
  BY <1>1, MeasureIsANumber
<1>3. b = [what |-> what, left |-> x, right |-> x + m, top |-> y - h, bottom |-> y]
  BY DEF Text
<1> HIDE DEF m, h, b
<1>4. OnLine(b, what, x, y, width, h)
  BY <1>1, <1>2, <1>3 DEF OnLine
<1>5. QED
  BY <1>4 DEF b, h, shown

LEMMA PreviewFaceReads ==
    ASSUME NEW c \in FaceCard
    PROVE  \A b \in PreviewFace(c) : Fine("preview", c, b)
<1> DEFINE f == "preview"
           lines == NameOn(f, c.name).lines
           y == IF c.name = <<>> THEN 496 ELSE 496 + 68 * Len(lines) + 14
           size == Fit(f, c.label, 520, IF c.circuit THEN 56 ELSE 72, 18, 2)
           label == Centred(f, "label", 0, 600, 1050, c.label, size)
           wall == Text(f, "wall", 30, y + 52, Truncated(f, c.wall, 260, 13), 13)
           setter == Text(f, "setter", 310, y + 52, Truncated(f, c.setter, 240, 13), 13)
           fixed == {Text(f, "WALL", 30, y, 4, 9), Text(f, "SETTER", 310, y, 6, 9),
                     Text(f, "SET", 30, y + 90, 3, 9),
                     Text(f, "date", 30, y + 142, DateRunes, 13), QrOn(f)}
           names == NameLines(f, lines, 30, 496, 68)
<1>1. \A b \in PreviewFace(c) : b = label \/ b = wall \/ b = setter \/ b \in fixed \/ b \in names
  BY DEF PreviewFace, Shown
<1>2. /\ c.name \in Seq(Nat \ {0}) /\ c.label \in Nat /\ c.wall \in Nat /\ c.setter \in Nat
  BY CardIsTyped
<1>3. \A b \in names : /\ IsBox(b) /\ b.what = "name" /\ b.left = 30 /\ b.left <= b.right
                       /\ b.right <= 30 + NameWidth(f) \/ Overlong(f, c.name)
  BY <1>2, NameIsOn
<1>4. label.what = "label" /\ label.left <= label.right
  <2>1. size \in 18 .. (IF c.circuit THEN 56 ELSE 72)
    <3>1. (IF c.circuit THEN 56 ELSE 72) \in Nat /\ 18 <= (IF c.circuit THEN 56 ELSE 72)
      OBVIOUS
    <3>2. QED
      BY <3>1, FitIsASize
  <2>2. size \in Nat
    BY <2>1
  <2> HIDE DEF size
  <2>3. QED
    BY <1>2, <2>2, CentredIsAt
<1> HIDE DEF y
<1>5. /\ OnLine(wall, "wall", 30, y + 52, 260, Height(f, 13))
      /\ OnLine(setter, "setter", 310, y + 52, 240, Height(f, 13))
  <2>1. Measure(f, 2, 13) <= 260 /\ Measure(f, 2, 13) <= 240
    BY DEF Measure, Em
  <2>2. QED
    BY <1>2, <2>1, TruncatedIsOnLine
<1>6. ASSUME NEW b \in fixed
      PROVE  /\ b.what \in {"WALL", "SETTER", "SET", "date", "qr"} /\ b.left >= 0
             /\ b.left <= b.right /\ b.right <= 600
  BY DEF Text, Measure, Em, DateRunes, QrOn, Area
<1>7. Widest(f) = 600 /\ NameWidth(f) = 540
  BY DEF Widest, NameWidth
<1>8. Unbounded(f, c) = {"label"} \cup (IF Overlong(f, c.name) THEN {"name"} ELSE {})
  BY DEF Unbounded
<1> HIDE DEF label, wall, setter, fixed, names
<1>9. ASSUME NEW b \in PreviewFace(c)
      PROVE  Fine(f, c, b)
  <2>1. CASE b = label
    BY <1>4, <1>8, <2>1 DEF Fine
  <2>2. CASE b = wall \/ b = setter
    BY <1>5, <1>7, <2>2 DEF Fine, OnLine
  <2>3. CASE b \in fixed
    BY <1>6, <1>7, <2>3 DEF Fine
  <2>4. CASE b \in names
    <3>1. /\ IsBox(b) /\ b.what = "name" /\ b.left = 30 /\ b.left <= b.right
          /\ b.right <= 30 + NameWidth(f) \/ Overlong(f, c.name)
      BY <1>3, <2>4
    <3>2. CASE Overlong(f, c.name)
      BY <1>8, <3>1, <3>2 DEF Fine
    <3>3. CASE b.right <= 30 + NameWidth(f)
      BY <1>7, <3>1, <3>3 DEF Fine, IsBox
    <3>4. QED
      BY <3>1, <3>2, <3>3
  <2>5. QED
    BY <1>1, <2>1, <2>2, <2>3, <2>4
<1>10. QED
  BY <1>9

LEMMA GradedFaceReads ==
    ASSUME NEW c \in FaceCard
    PROVE  /\ \A b \in GradedFace(c) : Fine("graded", c, b)
           /\ \A a, b \in GradedFace(c) : Clear(a, b)
<1> DEFINE f == "graded"
           runes == LineRunes(c.name)
           y == IF c.name = <<>> THEN 46 ELSE 78
           size == IF c.label <= 2 THEN 64 ELSE IF c.label <= 4 THEN 52 ELSE 42
           line(what, at, n, pt) == Text(f, what, 150, at, Truncated(f, n, 230, pt), pt)
           label == Centred(f, "label", 20, 130, 110 + size \div 2, c.label, size)
           name == line("name", 46, runes, 24)
           wall == line("wall", y, c.wall, 16)
           setter == line("setter", 170, 7 + c.setter, 12)
           date == Text(f, "date", 150, IF c.setter = 0 THEN 170 ELSE 188, DateRunes, 11)
           brand == Text(f, "brand", 20, 286, 9, 9)
           qr == QrOn(f)
<1>1. \A b \in GradedFace(c) : \/ b \in {label, date, qr, brand, name, wall}
                               \/ b = setter /\ c.setter # 0
  <2>1. 400 - 150 - 20 = 230
    OBVIOUS
  <2>2. QED
    BY <2>1 DEF GradedFace, Shown
<1>2. c.label \in Nat /\ c.wall \in Nat /\ c.setter \in Nat /\ runes \in Nat
  <2>1. c.name \in Seq(Nat)
    BY CardIsTyped
  <2>2. QED
    BY <2>1, CardIsTyped, LineRunesIsANumber
<1> HIDE DEF runes
<1>3. label.what = "label" /\ label.left <= label.right
  <2>1. size \in Nat
    OBVIOUS
  <2> HIDE DEF size
  <2>2. QED
    BY <1>2, <2>1, CentredIsAt
<1>4. /\ OnLine(name, "name", 150, 46, 230, Height(f, 24))
      /\ OnLine(wall, "wall", 150, y, 230, Height(f, 16))
      /\ OnLine(setter, "setter", 150, 170, 230, Height(f, 12))
  <2>1. Measure(f, 2, 24) <= 230 /\ Measure(f, 2, 16) <= 230 /\ Measure(f, 2, 12) <= 230
    BY DEF Measure, Em
  <2>2. 7 + c.setter \in Nat
    BY <1>2
  <2> HIDE DEF y
  <2>3. QED
    BY <1>2, <2>1, <2>2, TruncatedIsOnLine
<1>5. Height(f, 24) = 24 /\ Height(f, 16) = 16 /\ Height(f, 12) = 12
  BY DEF Height, Em
<1>6. qr = [what |-> "qr", left |-> 300, right |-> 380, top |-> 182, bottom |-> 262]
  BY DEF QrOn, Area
<1>7. brand = [what |-> "brand", left |-> 20, right |-> 68, top |-> 277, bottom |-> 286]
  BY DEF Text, Measure, Height, Em
<1>8. date = [what |-> "date", left |-> 150, right |-> 229,
              top |-> IF c.setter = 0 THEN 159 ELSE 177,
              bottom |-> IF c.setter = 0 THEN 170 ELSE 188]
  BY DEF Text, Measure, Height, Em, DateRunes
<1>9. y \in {46, 78}
  OBVIOUS
<1>10. Widest(f) = 400 /\ Unbounded(f, c) = {"label"}
  BY DEF Widest, Unbounded, Overlong
<1> HIDE DEF label, name, wall, setter, date, brand, qr, y
<1>11. ASSUME NEW b \in GradedFace(c)
       PROVE  Fine(f, c, b)
  <2>1. CASE b = label
    BY <1>3, <1>10, <2>1 DEF Fine
  <2>2. CASE b \in {name, wall, setter}
    BY <1>4, <1>10, <2>2 DEF Fine, OnLine
  <2>3. CASE b \in {qr, brand, date}
    BY <1>6, <1>7, <1>8, <1>10, <2>3 DEF Fine
  <2>4. QED
    BY <1>1, <2>1, <2>2, <2>3
<1>12. ASSUME NEW a \in GradedFace(c), NEW b \in GradedFace(c)
       PROVE  Clear(a, b)
  <2>1. IsBox(qr) /\ qr.what = "qr" /\ qr.left = 300 /\ qr.top = 182 /\ qr.bottom = 262
    BY <1>6 DEF IsBox
  <2>2. /\ IsBox(setter) /\ setter.what = "setter" /\ setter.left = 150 /\ setter.right <= 380
        /\ setter.top = 158 /\ setter.bottom = 170
    BY <1>4, <1>5 DEF IsBox, OnLine
  <2>3. ASSUME NEW x \in GradedFace(c)
        PROVE  \/ x.what = "label"
               \/ x = qr
               \/ x = setter /\ c.setter # 0
               \/ /\ IsBox(x) /\ x.what \notin {"qr", "setter"}
                  /\ (x.right <= 300 \/ x.bottom <= 182 \/ x.top >= 262)
                  /\ (c.setter # 0 => x.bottom <= 158 \/ x.top >= 170)
    <3>1. CASE x \in {name, wall}
      BY <1>4, <1>5, <1>9, <3>1 DEF OnLine, IsBox
    <3>2. CASE x \in {brand, date}
      BY <1>7, <1>8, <3>2 DEF IsBox
    <3>3. QED
      BY <1>1, <1>3, <3>1, <3>2
  <2>4. ~Overlap(qr, setter) /\ ~Overlap(setter, qr)
    BY <2>1, <2>2 DEF IsBox, Overlap
  <2>5. ASSUME NEW x, IsBox(x), x.right <= 300 \/ x.bottom <= 182 \/ x.top >= 262
        PROVE  ~Overlap(x, qr) /\ ~Overlap(qr, x)
    BY <2>1, <2>5 DEF IsBox, Overlap
  <2>6. ASSUME NEW x, IsBox(x), x.bottom <= 158 \/ x.top >= 170
        PROVE  ~Overlap(x, setter) /\ ~Overlap(setter, x)
    BY <2>2, <2>6 DEF IsBox, Overlap
  <2>7. SUFFICES ASSUME a # b, {a.what, b.what} \cap {"qr", "setter"} # {},
                        a.what # "label", b.what # "label"
                 PROVE  ~Overlap(a, b)
    BY DEF Clear
  <2>8. CASE a \in {qr, setter} /\ b \in {qr, setter}
    BY <2>4, <2>7, <2>8
  <2>9. CASE a \in {qr, setter} /\ b \notin {qr, setter}
    BY <2>3, <2>5, <2>6, <2>7, <2>9
  <2>10. CASE a \notin {qr, setter} /\ b \in {qr, setter}
    BY <2>3, <2>5, <2>6, <2>7, <2>10
  <2>11. CASE a \notin {qr, setter} /\ b \notin {qr, setter}
    BY <2>3, <2>7, <2>11
  <2>12. QED
    BY <2>8, <2>9, <2>10, <2>11
<1>13. QED
  BY <1>11, <1>12

LEMMA CircuitFaceReads ==
    ASSUME NEW c \in FaceCard
    PROVE  \A b \in CircuitFace(c) : Fine("circuit", c, b)
<1> DEFINE f == "circuit"
           runes == LineRunes(c.name)
           y == IF c.name = <<>> THEN 130 ELSE 158
           label == Text(f, "label", 52, 72, c.label, 52)
           name == Text(f, "name", 52, 130, runes, 20)
           setter == Text(f, "setter", 52, 266, 7 + c.setter + 5 + DateRunes, 11)
           wall == Text(f, "wall", 52, y, Truncated(f, c.wall, 228, 16), 16)
           fixed == {Text(f, "circuit", 52, 94, 7, 14), Text(f, "brand", 52, 286, 9, 9), QrOn(f)}
<1>1. \A b \in CircuitFace(c) : b \in {label, name, setter} \/ b = wall \/ b \in fixed
  <2>1. 400 - 52 - 120 = 228
    OBVIOUS
  <2>2. QED
    BY <2>1 DEF CircuitFace, Shown
<1>2. c.label \in Nat /\ c.wall \in Nat /\ c.setter \in Nat /\ runes \in Nat
  <2>1. c.name \in Seq(Nat)
    BY CardIsTyped
  <2>2. QED
    BY <2>1, CardIsTyped, LineRunesIsANumber
<1> HIDE DEF runes, y
<1>3. /\ label.what = "label" /\ label.left <= label.right
      /\ name.what = "name" /\ name.left <= name.right
      /\ setter.what = "setter" /\ setter.left <= setter.right
  <2>1. 7 + c.setter + 5 + DateRunes \in Nat
    BY <1>2 DEF DateRunes
  <2> DEFINE n == 7 + c.setter + 5 + DateRunes
  <2> HIDE DEF n
  <2>2. n \in Nat
    BY <2>1 DEF n
  <2>3. setter = Text(f, "setter", 52, 266, n, 11)
    BY DEF n
  <2>4. QED
    BY <1>2, <2>2, <2>3, TextIsAt
<1>4. OnLine(wall, "wall", 52, y, 228, Height(f, 16))
  <2>1. Measure(f, 2, 16) <= 228
    BY DEF Measure, Em
  <2>2. QED
    BY <1>2, <2>1, TruncatedIsOnLine
<1>5. ASSUME NEW b \in fixed
      PROVE  b.left >= 0 /\ b.left <= b.right /\ b.right <= 400
  BY DEF Text, Measure, Em, QrOn, Area
<1>6. Widest(f) = 400 /\ Unbounded(f, c) = {"label", "name", "setter"}
  BY DEF Widest, Unbounded
<1> HIDE DEF label, name, setter, wall, fixed
<1>7. ASSUME NEW b \in CircuitFace(c)
      PROVE  Fine(f, c, b)
  <2>1. CASE b \in {label, name, setter}
    BY <1>3, <1>6, <2>1 DEF Fine
  <2>2. CASE b = wall
    BY <1>4, <1>6, <2>2 DEF Fine, OnLine
  <2>3. CASE b \in fixed
    BY <1>5, <1>6, <2>3 DEF Fine
  <2>4. QED
    BY <1>1, <2>1, <2>2, <2>3
<1>8. QED
  BY <1>7

LEMMA DigitalFaceReads ==
    ASSUME NEW c \in FaceCard
    PROVE  \A b \in DigitalFace(c) : Fine("digital", c, b)
<1> DEFINE f == "digital"
           lines == NameOn(f, c.name).lines
           y == IF c.name = <<>> THEN 144 ELSE 144 + 116 * Len(lines) + 40
           runes == IF c.wall # 0 /\ c.gym # 0 THEN c.wall + 5 + c.gym ELSE c.wall + c.gym
           shown == Truncated(f, c.url, 739, 22)
           placed == IF runes = 0 THEN y ELSE y + 24
           size == Fit(f, c.label, 800, IF c.circuit THEN 360 ELSE 440, 144, 1)
           by == 7 + c.setter + 5 + DateRunes
           label == Centred(f, "label", 0, 960, 630 + (size * 252) \div 1000, c.label, size)
           brand == Text(f, "brand", 1072, 1204, 33, 24)
           link == Text(f, "link", 2304 - Measure(f, shown, 22), 1204, shown, 22)
           place == Text(f, "place", 1072, placed, Truncated(f, runes, 1232, 44), 44)
           setter == Text(f, "setter", 1072, placed + 56, by, 36)
           names == NameLines(f, lines, 1072, 260, 116)
           pills == Pills(c.tags, 1072, 2304)
<1>1. \A b \in DigitalFace(c) : \/ b \in {label, setter} \/ b \in {brand, link, place}
                                \/ b \in names \/ b \in pills
  <2>1. /\ 960 + 112 = 1072 /\ 2400 - 96 = 2304 /\ 2304 - 1072 = 1232 /\ (1232 * 6) \div 10 = 739
        /\ 960 - 160 = 800 /\ 9 + 3 * 8 = 33
    OBVIOUS
  <2>2. QED
    BY <2>1 DEF DigitalFace, Shown
<1>2. /\ c.name \in Seq(Nat \ {0}) /\ c.tags \in Seq(Nat) /\ c.label \in Nat /\ c.setter \in Nat
      /\ c.url \in Nat /\ runes \in Nat
  BY CardIsTyped
<1>3. \A b \in names : /\ IsBox(b) /\ b.what = "name" /\ b.left = 1072 /\ b.left <= b.right
                       /\ b.right <= 1072 + NameWidth(f) \/ Overlong(f, c.name)
  BY <1>2, NameIsOn
<1>4. \A b \in pills : /\ b.what = "tag" /\ b.left \in Nat /\ b.right \in Nat /\ b.left <= b.right
                       /\ b.right <= 2304
  <2>1. pills \subseteq PillBoxes(1072, 2304)
    BY <1>2, PillsFit
  <2>2. QED
    BY <2>1 DEF PillBoxes
<1> HIDE DEF y, runes, placed
<1>5. label.what = "label" /\ label.left <= label.right
  <2>1. size \in 144 .. (IF c.circuit THEN 360 ELSE 440)
    <3>1. (IF c.circuit THEN 360 ELSE 440) \in Nat /\ 144 <= (IF c.circuit THEN 360 ELSE 440)
      OBVIOUS
    <3>2. QED
      BY <3>1, FitIsASize
  <2>2. size \in Nat
    BY <2>1
  <2> HIDE DEF size
  <2>3. QED
    BY <1>2, <2>2, CentredIsAt
<1>6. setter.what = "setter" /\ setter.left <= setter.right
  <2>1. by \in Nat
    BY <1>2 DEF DateRunes
  <2> HIDE DEF by
  <2>2. QED
    BY <2>1, TextIsAt
<1>7. OnLine(place, "place", 1072, placed, 1232, Height(f, 44))
  <2>1. Measure(f, 2, 44) <= 1232
    BY DEF Measure, Em
  <2>2. QED
    BY <1>2, <2>1, TruncatedIsOnLine
<1>8. link.what = "link" /\ link.left \in Nat /\ link.right = 2304 /\ link.left <= 2304
  <2>1. Measure(f, 2, 22) <= 739
    BY DEF Measure, Em
  <2>2. shown \in Nat /\ Measure(f, shown, 22) <= 739
    BY <1>2, <2>1, TruncatedFits
  <2> DEFINE m == Measure(f, shown, 22)
             h == Height(f, 22)
  <2>3. m \in Nat
    BY <2>2, MeasureIsANumber
  <2>4. link = [what |-> "link", left |-> 2304 - m, right |-> 2304 - m + m, top |-> 1204 - h,
                bottom |-> 1204]
    BY DEF Text
  <2> HIDE DEF m, h, link
  <2>5. QED
    BY <2>2, <2>3, <2>4 DEF m
<1>9. brand.what = "brand" /\ brand.left = 1072 /\ brand.right = 1547
  BY DEF Text, Measure, Em
<1>10. Widest(f) = 2400 /\ NameWidth(f) = 1232
  BY DEF Widest, NameWidth
<1>11. Unbounded(f, c) = {"label", "setter"} \cup (IF Overlong(f, c.name) THEN {"name"} ELSE {})
  BY DEF Unbounded
<1> HIDE DEF label, setter, brand, link, place, names, pills
<1>12. ASSUME NEW b \in DigitalFace(c)
       PROVE  Fine(f, c, b)
  <2>1. CASE b \in {label, setter}
    BY <1>5, <1>6, <1>11, <2>1 DEF Fine
  <2>2. CASE b \in {brand, link}
    BY <1>8, <1>9, <1>10, <2>2 DEF Fine
  <2>3. CASE b = place
    BY <1>7, <1>10, <2>3 DEF Fine, OnLine
  <2>4. CASE b \in pills
    BY <1>4, <1>10, <2>4 DEF Fine
  <2>5. CASE b \in names
    <3>1. /\ IsBox(b) /\ b.what = "name" /\ b.left = 1072 /\ b.left <= b.right
          /\ b.right <= 1072 + NameWidth(f) \/ Overlong(f, c.name)
      BY <1>3, <2>5
    <3>2. CASE Overlong(f, c.name)
      BY <1>11, <3>1, <3>2 DEF Fine
    <3>3. CASE b.right <= 1072 + NameWidth(f)
      BY <1>10, <3>1, <3>3 DEF Fine, IsBox
    <3>4. QED
      BY <3>1, <3>2, <3>3
  <2>6. QED
    BY <1>1, <2>1, <2>2, <2>3, <2>4, <2>5
<1>13. QED
  BY <1>12

-----------------------------------------------------------------------------
\* What is drawn is the face of the card.
FacesInv ==
    /\ card \in FaceCard /\ face \in FaceKinds \cup {"none"}
    /\ drawn = {} \/ (face \in FaceKinds /\ drawn = FaceOf(face, card))

LEMMA FacesBegin == FaceInit => FacesInv
<1> SUFFICES ASSUME FaceInit
             PROVE  FacesInv
  OBVIOUS
<1>1. card \in FaceCard
  BY DEF FaceInit, NewCard, FaceCard
<1>2. QED
  BY <1>1 DEF FaceInit, FacesInv

LEMMA FacesStep == FacesInv /\ [FaceNext]_faceVars => FacesInv'
<1> SUFFICES ASSUME FacesInv, [FaceNext]_faceVars
             PROVE  FacesInv'
  OBVIOUS
<1>1. CASE UNCHANGED faceVars
  BY <1>1 DEF faceVars, FacesInv
<1>2. CASE DrawFace
  BY <1>2 DEF DrawFace, FacesInv
<1>3. ASSUME NEW wall \in TextLengths \cup {0}, NEW setter \in TextLengths \cup {0},
             NEW gym \in {0, 12}, ResolveCardData(card, wall, gym, setter)
      PROVE  FacesInv'
  <2>1. card' = [card EXCEPT !.wall = wall, !.gym = gym, !.setter = setter] /\ drawn' = {}
        /\ face' \in FaceKinds
    BY <1>3 DEF ResolveCardData
  <2>2. card' \in FaceCard
    BY <2>1 DEF FacesInv, FaceCard
  <2>3. QED
    BY <2>1, <2>2 DEF FacesInv
<1>4. QED
  BY <1>1, <1>2, <1>3 DEF FaceNext

LEMMA FacesRead == FacesInv => FaceTypeOK /\ FaceReads
<1> SUFFICES ASSUME FacesInv
             PROVE  FaceTypeOK /\ FaceReads
  OBVIOUS
<1>1. card \in FaceCard /\ face \in FaceKinds \cup {"none"}
  BY DEF FacesInv
<1>2. CASE drawn = {}
  BY <1>1, <1>2 DEF FaceTypeOK, FaceReads
<1>3. CASE face \in FaceKinds /\ drawn = FaceOf(face, card)
  <2>1. /\ \A b \in FaceOf(face, card) : Fine(face, card, b)
        /\ face \in {"sheet", "graded"} => \A a, b \in FaceOf(face, card) : Clear(a, b)
    <3>1. CASE face = "sheet"
      BY <1>1, <3>1, SheetFaceReads DEF FaceOf
    <3>2. CASE face = "preview"
      BY <1>1, <3>2, PreviewFaceReads DEF FaceOf
    <3>3. CASE face = "graded"
      BY <1>1, <3>3, GradedFaceReads DEF FaceOf
    <3>4. CASE face = "circuit"
      BY <1>1, <3>4, CircuitFaceReads DEF FaceOf
    <3>5. CASE face = "digital"
      BY <1>1, <3>5, DigitalFaceReads DEF FaceOf
    <3>6. QED
      BY <1>3, <3>1, <3>2, <3>3, <3>4, <3>5 DEF FaceKinds
  <2>2. FaceTypeOK
    BY <1>1, <1>3, <2>1 DEF Fine, FaceTypeOK
  <2>3. FaceReads
    BY <1>3, <2>1, Zenon DEF Fine, Clear, FaceReads
  <2>4. QED
    BY <2>2, <2>3
<1>4. QED
  BY <1>2, <1>3 DEF FacesInv

-----------------------------------------------------------------------------
(* The run looks at one component at a time, and leaves the others alone.   *)
LEMMA SettingSteps ==
    ASSUME [SettingNext]_<<focus, setVars, playbookVars, planVars, photoVars, batchVars,
                           sheetVars, faceVars>>
    PROVE  /\ [RowSetsNext]_setVars /\ [PlaybookNext]_playbookVars /\ [PlanNext]_planVars
           /\ [PhotosNext]_photoVars /\ [BatchesNext]_batchVars /\ [SheetNext]_sheetVars
           /\ [FaceNext]_faceVars
<1>1. CASE SettingNext
  BY <1>1 DEF SettingNext
<1>2. CASE UNCHANGED <<focus, setVars, playbookVars, planVars, photoVars, batchVars,
                       sheetVars, faceVars>>
  BY <1>2
<1>3. QED
  BY <1>1, <1>2

\* For any number of members, requests, steps and plans: a set replaced by one request
\* at a time is the set it sent (repository/tag.go, user_tag.go), playbook steps never
\* share a place (session_playbook.go), a plan keeps what it promises of its session and
\* its strips (session.go), and a sheet shows a list its batch had while it was printed,
\* with every route that was there throughout and none that was gone (cardbatch).
THEOREM ListsAreWhole == SettingSpec => []ListsStayWhole
<1> DEFINE ListsInv == RowSetsInv /\ PlaybookInv /\ PlanInv /\ BatchesInv
<1>1. SettingInit => ListsInv
  BY RowSetsBegin, PlaybookBegins, PlanBegins, BatchesBegin DEF SettingInit
<1>2. ListsInv
         /\ [SettingNext]_<<focus, setVars, playbookVars, planVars, photoVars, batchVars,
                            sheetVars, faceVars>>
      => ListsInv'
  BY RowSetsStep, PlaybookStep, PlanStep, BatchesStep, SettingSteps
<1>3. ListsInv => ListsStayWhole
  BY RowSetsHold, PlanIsHeld, SheetsAreCurrent DEF PlaybookInv, ListsStayWhole
<1>4. QED
  BY <1>1, <1>2, <1>3, PTL DEF SettingSpec

\* For any number of uploads in flight and any cap: the photos of a route exceed the cap
\* by fewer than the uploads, and no upload or delete takes the object of a row that
\* stays, unless two uploads shared a millisecond (handler/routephoto.go, storage.go).
THEOREM PhotosAreHeld == SettingSpec => PhotosHold
<1>1. SettingInit => PhotosInv
  BY PhotosBegin DEF SettingInit
<1>2. PhotosInv
         /\ [SettingNext]_<<focus, setVars, playbookVars, planVars, photoVars, batchVars,
                            sheetVars, faceVars>>
      => PhotosInv'
  BY PhotosStep, SettingSteps
<1>3. PhotosInv
         /\ [SettingNext]_<<focus, setVars, playbookVars, planVars, photoVars, batchVars,
                            sheetVars, faceVars>>
      => [ObjectsOutliveRows]_photoVars
  BY SettingSteps, ObjectsHaveOneRow
<1>4. PhotosInv => PhotosTypeOK /\ CapHolds
  BY CapIsNearlyHeld
<1>5. QED
  BY <1>1, <1>2, <1>3, <1>4, PTL DEF SettingSpec, PhotosHold

\* For any number of cards and any bleed a caller asks for, a sheet that is sent has
\* every card once, in order, on as many pages as are announced, no ink or cut reaches
\* into another card or a mark, and the DXF cuts where the cards are (cardsheet/sheet.go).
THEOREM SheetsAreHeld == SettingSpec => []SheetsHold
<1>1. SettingInit => SheetInv
  BY SheetsBegin DEF SettingInit
<1>2. SheetInv
         /\ [SettingNext]_<<focus, setVars, playbookVars, planVars, photoVars, batchVars,
                            sheetVars, faceVars>>
      => SheetInv'
  BY SheetStep, SettingSteps
<1>3. SheetInv => SheetsHold
  BY SheetsAreTyped, CardsComeOnce, CutsStayClean, CutFilesServe DEF SheetsHold, SheetsComeOutWhole
<1>4. QED
  BY <1>1, <1>2, <1>3, PTL DEF SettingSpec

\* For any number of prints and cards, and names, labels and tags of any length: a batch is
\* a row as the code writes it (handler/route_card_batches.go); every text that is
\* truncated to fit stays between the edges of its card, but for a name whose first word
\* alone is wider than its line and is followed by another; and on the two faces printed
\* for the wall the QR code and the setter's line are clear of every other text but the
\* label (service/card_draw.go, cardgen.go).
THEOREM CardsAreHeld == SettingSpec => []CardsHold
<1> DEFINE CardsInv == BatchesInv /\ BatchRowsInv /\ FacesInv
<1>1. SettingInit => CardsInv
  BY BatchesBegin, BatchRowsBegin, FacesBegin DEF SettingInit
<1>2. CardsInv
         /\ [SettingNext]_<<focus, setVars, playbookVars, planVars, photoVars, batchVars,
                            sheetVars, faceVars>>
      => CardsInv'
  BY BatchesStep, BatchRowsStep, FacesStep, SettingSteps
<1>3. CardsInv => CardsHold
  BY BatchesAreTyped, FacesRead DEF CardsHold
<1>4. QED
  BY <1>1, <1>2, <1>3, PTL DEF SettingSpec
=============================================================================
