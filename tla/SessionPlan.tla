---------------------------- MODULE SessionPlan ----------------------------
(***************************************************************************)
(* The plan of a setting session: who sets on which wall and what is to be *)
(* stripped (handler/session.go; repository/session.go).  SettingSession   *)
(* has what publishing does with the routes; here are the rows around the  *)
(* session, the pages they are read from and the deletion that has to      *)
(* clear them: assignments have no ON DELETE CASCADE, strip targets have.  *)
(***************************************************************************)
EXTENDS Naturals, FiniteSets

CONSTANTS
    Planners,    \* requests in flight
    Plans,       \* sessions
    SettersOf,   \* people who can be assigned
    Spots,       \* walls
    Anywhere,    \* no wall in particular (NULL)
    Grades,      \* what an assignment asks for
    MaxRows,     \* bound: rows ever made
    NoPlan

ASSUME SessionPlanAssumption ==
    /\ Anywhere \notin Spots /\ NoPlan \notin Plans \cup Planners
    /\ "none" \notin Grades /\ MaxRows \in Nat

VARIABLES
    plan,       \* each session: "none", "there" or "gone"
    heldBy,     \* the request that holds its row FOR UPDATE
    assigned,   \* setting_session_assignments
    strips,     \* session_strip_targets
    planner,    \* the requests and the page each works from
    rowsMade,
    asked,      \* history: grades last asked for on each wall, "none" if taken off
    undeleted   \* history: deletions that a row of the plan has refused

planVars == <<plan, heldBy, assigned, strips, planner, rowsMade, asked, undeleted>>

Unread == [of |-> NoPlan, assigned |-> {}, strips |-> {}]
Resting == [pc |-> "idle", of |-> NoPlan, dropped |-> {}, page |-> Unread]
Doing(p, pc) == planner[p].pc = pc
Unlocked(s) == heldBy[s] = NoPlan

PlanInit ==
    /\ plan = [s \in Plans |-> "none"]
    /\ heldBy = [s \in Plans |-> NoPlan]
    /\ assigned = {} /\ strips = {}
    /\ planner = [p \in Planners |-> Resting]
    /\ rowsMade = 0
    /\ asked = [s \in Plans |-> [u \in SettersOf |-> [w \in Spots |-> "none"]]]
    /\ undeleted = {}

-----------------------------------------------------------------------------

\* Create.
MakeSession(s) ==
    /\ plan[s] = "none"
    /\ plan' = [plan EXCEPT ![s] = "there"]
    /\ UNCHANGED <<heldBy, assigned, strips, planner, rowsMade, asked, undeleted>>

\* The session and its assignments in one query ...
LoadSession(p, s) ==
    /\ Doing(p, "idle") /\ plan[s] = "there"
    /\ planner' = [planner EXCEPT ![p].page =
          [of |-> s, assigned |-> {a \in assigned : a.of = s}, strips |-> {}]]
    /\ UNCHANGED <<plan, heldBy, assigned, strips, rowsMade, asked, undeleted>>

\* ... and its strip list in another request.
LoadStripTargets(p) ==
    LET s == planner[p].page.of IN
    /\ Doing(p, "idle") /\ s # NoPlan /\ plan[s] = "there"
    /\ planner' = [planner EXCEPT ![p].page.strips = {t \in strips : t.of = s}]
    /\ UNCHANGED <<plan, heldBy, assigned, strips, rowsMade, asked, undeleted>>

\* Every request by id starts by finding the session (resolveSession).
Resolve(p, s, pc) ==
    /\ Doing(p, "idle") /\ plan[s] = "there"
    /\ planner' = [planner EXCEPT ![p].pc = pc, ![p].of = s]
    /\ UNCHANGED <<plan, heldBy, assigned, strips, rowsMade, asked, undeleted>>

Answered(p) == planner' = [planner EXCEPT ![p] = [Resting EXCEPT !.page = planner[p].page]]

\* A row that a deletion has removed and not committed makes others wait.
Dropping(x) == \E p \in Planners : x \in planner[p].dropped

\* Mutant of Upserted: DO NOTHING.
UpsertedNot(a, grades) == a

\* DO UPDATE SET target_grades = EXCLUDED.target_grades.
Upserted(a, grades) == [a EXCEPT !.grades = grades]

\* AddAssignment.  A new row waits for the session's (foreign key) and fails
\* without it; two rows without a wall never conflict.
Assign(p, u, w, grades) ==
    LET s    == planner[p].of
        same == {a \in assigned : /\ a.of = s /\ a.setter = u /\ a.wall = w
                                  /\ w # Anywhere}
        row  == [id |-> rowsMade, of |-> s, setter |-> u, wall |-> w,
                 grades |-> grades]
    IN  /\ Doing(p, "assign")
        /\ \A a \in same : ~Dropping(a)
        /\ same = {} => Unlocked(s) /\ rowsMade < MaxRows
        /\ IF same # {}
           THEN /\ assigned' = (assigned \ same) \cup
                                  {Upserted(a, grades) : a \in same}
                /\ UNCHANGED rowsMade
           ELSE IF plan[s] = "there"
           THEN assigned' = assigned \cup {row} /\ rowsMade' = rowsMade + 1
           ELSE UNCHANGED <<assigned, rowsMade>>
        /\ asked' = IF w # Anywhere /\ plan[s] = "there"
                    THEN [asked EXCEPT ![s][u][w] = grades] ELSE asked
        /\ Answered(p)
        /\ UNCHANGED <<plan, heldBy, strips, undeleted>>

\* The row of that id in that session.
RemoveAssignment(s, id) == {a \in assigned : a.id = id /\ a.of = s}

\* An id on the page; a row that is gone is a 404.
Unassign(p, seen) ==
    LET hit == RemoveAssignment(planner[p].of, seen.id) IN
    /\ Doing(p, "unassign")
    /\ \A a \in hit : ~Dropping(a)
    /\ assigned' = assigned \ hit
    /\ asked' = IF hit # {} /\ seen.wall # Anywhere
                THEN [asked EXCEPT ![seen.of][seen.setter][seen.wall] = "none"]
                ELSE asked
    /\ Answered(p)
    /\ UNCHANGED <<plan, heldBy, strips, rowsMade, undeleted>>

\* AddStripTarget: a target that is there already is a 409.
PlanStrip(p, w) ==
    LET s == planner[p].of IN
    /\ Doing(p, "strip") /\ Unlocked(s) /\ rowsMade < MaxRows
    /\ IF plan[s] = "there" /\ \A t \in strips : <<t.of, t.wall>> # <<s, w>>
       THEN /\ strips' = strips \cup {[id |-> rowsMade, of |-> s, wall |-> w]}
            /\ rowsMade' = rowsMade + 1
       ELSE UNCHANGED <<strips, rowsMade>>
    /\ Answered(p)
    /\ UNCHANGED <<plan, heldBy, assigned, asked, undeleted>>

UnplanStrip(p, seen) ==
    /\ Doing(p, "strip")
    /\ strips' = {t \in strips : <<t.id, t.of>> # <<seen.id, planner[p].of>>}
    /\ Answered(p)
    /\ UNCHANGED <<plan, heldBy, assigned, rowsMade, asked, undeleted>>

-----------------------------------------------------------------------------
(* Delete: lock the session, clear what does not cascade, remove it.       *)

LockPlan(p) ==
    LET s == planner[p].of IN
    /\ Doing(p, "delete") /\ Unlocked(s)
    /\ IF plan[s] = "there"
       THEN /\ heldBy' = [heldBy EXCEPT ![s] = p]
            /\ planner' = [planner EXCEPT ![p].pc = "clear"]
       ELSE Answered(p) /\ UNCHANGED heldBy
    /\ UNCHANGED <<plan, assigned, strips, rowsMade, asked, undeleted>>

\* Mutant of Cleared: assignments are left to a cascade they do not have.
ClearedNone(s) == {}

\* DELETE FROM setting_session_assignments.
Cleared(s) == {a \in assigned : a.of = s}

ClearPlan(p) ==
    /\ Doing(p, "clear")
    /\ planner' = [planner EXCEPT ![p].pc = "remove",
                                  ![p].dropped = Cleared(planner[p].of)]
    /\ UNCHANGED <<plan, heldBy, assigned, strips, rowsMade, asked, undeleted>>

\* DELETE FROM setting_sessions, with the strip targets and the commit, unless
\* an assignment still refers to the session.
RemovePlan(p) ==
    LET s    == planner[p].of
        kept == assigned \ planner[p].dropped
    IN  /\ Doing(p, "remove")
        /\ IF \E a \in kept : a.of = s
           THEN /\ undeleted' = undeleted \cup {s}
                /\ UNCHANGED <<plan, assigned, strips, asked>>
           ELSE /\ plan' = [plan EXCEPT ![s] = "gone"]
                /\ assigned' = kept
                /\ strips' = {t \in strips : t.of # s}
                /\ asked' = [asked EXCEPT ![s] =
                                [u \in SettersOf |-> [w \in Spots |-> "none"]]]
                /\ UNCHANGED undeleted
        /\ heldBy' = [heldBy EXCEPT ![s] = NoPlan]
        /\ Answered(p)
        /\ UNCHANGED rowsMade

\* A statement fails or the deadline passes.
GiveUp(p) ==
    /\ ~Doing(p, "idle")
    /\ heldBy' = [s \in Plans |-> IF heldBy[s] = p THEN NoPlan ELSE heldBy[s]]
    /\ Answered(p)
    /\ UNCHANGED <<plan, assigned, strips, rowsMade, asked, undeleted>>

PlanNext ==
    \/ \E s \in Plans : MakeSession(s)
    \/ \E p \in Planners :
          \/ \E s \in Plans :
                \/ LoadSession(p, s)
                \/ \E pc \in {"assign", "unassign", "strip", "delete"} :
                      Resolve(p, s, pc)
          \/ LoadStripTargets(p)
          \/ \E u \in SettersOf, w \in Spots \cup {Anywhere}, g \in Grades :
                Assign(p, u, w, g)
          \/ \E seen \in planner[p].page.assigned : Unassign(p, seen)
          \/ \E w \in Spots : PlanStrip(p, w)
          \/ \E seen \in planner[p].page.strips : UnplanStrip(p, seen)
          \/ LockPlan(p) \/ ClearPlan(p) \/ RemovePlan(p) \/ GiveUp(p)

PlanSpec == PlanInit /\ [][PlanNext]_planVars

-----------------------------------------------------------------------------

PlanTypeOK ==
    /\ plan \in [Plans -> {"none", "there", "gone"}]
    /\ heldBy \in [Plans -> Planners \cup {NoPlan}]
    /\ rowsMade \in 0 .. MaxRows
    /\ \A a \in assigned : a.of \in Plans /\ a.id \in 0 .. MaxRows - 1
    /\ \A t \in strips : t.of \in Plans /\ t.wall \in Spots

\* Whatever is assigned, taken off, re-added and deleted from several pages at
\* once: on each wall stands what was last asked for, no row outlives its
\* session, and a deletion is never refused because of one (AddAssignment,
\* RemoveAssignment, Delete).
PlanHolds ==
    /\ \A s \in Plans, u \in SettersOf, w \in Spots :
          {a.grades : a \in {b \in assigned :
                               <<b.of, b.setter, b.wall>> = <<s, u, w>>}}
            = {asked[s][u][w]} \ {"none"}
    /\ \A x \in assigned : plan[x.of] = "there"
    /\ \A t \in strips : plan[t.of] = "there"
    /\ undeleted = {}
=============================================================================
