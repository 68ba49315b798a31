-------------------------------- MODULE Playbook --------------------------------
(***************************************************************************)
(* The playbook of a gym, an ordered list of steps its head setters edit,  *)
(* and the checklists of its setting sessions (internal/handler/           *)
(* playbook.go, session.go; internal/repository/session.go; migration      *)
(* 000009).  A request is one transaction; a move locks its step, picks a  *)
(* neighbour from the statement's snapshot, waits for the neighbour's row  *)
(* and checks it again.                                                    *)
(***************************************************************************)
EXTENDS Naturals, Sequences, FiniteSets, FiniteSetsExt, Functions

CONSTANTS
    Editors,      \* requests in flight
    MaxSteps,     \* bound on the steps ever created
    MaxSessions   \* bound on the sessions

\* A gym begins with two steps and one session.
ASSUME PlaybookAssumption == MaxSteps \in Nat \ {0, 1} /\ MaxSessions \in Nat \ {0}

VARIABLES
    sort_order,   \* step -> number, for the steps there are
    request,      \* editor -> transaction
    sessions,     \* each session's checklist; history: the playbook at its creation
                  \* and the completion_count last answered
    made,         \* steps created so far
    refused       \* history: steps whose move found a neighbour and failed

playbookVars == <<sort_order, request, sessions, made, refused>>

-----------------------------------------------------------------------------
None == [op |-> "none"]
Steps == 1 .. MaxSteps    \* ids, in the order of creation
PlaybookSteps == DOMAIN sort_order
RowsHeld(e) == IF request[e].op = "move" THEN request[e].held ELSE {}

PlaybookTypeOK ==
    /\ PlaybookSteps \subseteq Steps /\ \A s \in PlaybookSteps : sort_order[s] \in Nat
    /\ \A e \in Editors : request[e].op \in {"none", "create", "move"}
    /\ sessions \in Seq([template : SUBSET Steps, items : SUBSET Steps, ticked : SUBSET Steps, told : Nat])
    /\ Len(sessions) <= MaxSessions
    /\ made \in 0 .. MaxSteps /\ refused \subseteq Steps

\* A gym with two steps, and a session of the days when opening its page copied
\* them.
PlaybookInit ==
    /\ sort_order = [s \in {1, 2} |-> s]
    /\ request = [e \in Editors |-> None]
    /\ sessions = <<[template |-> {1, 2}, items |-> {1, 2}, ticked |-> {},
                   told |-> 0]>>
    /\ made = 2 /\ refused = {}

Finish(e) == request' = [request EXCEPT ![e] = None]

-----------------------------------------------------------------------------
\* Mutant of Admitted: "sort_order has no UNIQUE constraint".
AdmittedAlways(order) == TRUE

\* UNIQUE (location_id, sort_order), checked row by row.
Admitted(order) == IsInjective(order)

\* The statement's subquery sees the committed steps ...
CreatePlaybookStep(e) ==
    LET top == {sort_order[s] + 1 : s \in PlaybookSteps} IN
    /\ request[e] = None /\ made < MaxSteps
    /\ made' = made + 1
    /\ request' = [request EXCEPT ![e] =
                      [op |-> "create", id |-> made + 1, at |-> Max(top \cup {0})]]
    /\ UNCHANGED <<sort_order, sessions, refused>>

\* ... and its row waits for another at the same place, which makes it fail.
Created(e) ==
    LET order == [n \in PlaybookSteps \cup {request[e].id} |->
                     IF n = request[e].id THEN request[e].at ELSE sort_order[n]] IN
    /\ request[e].op = "create"
    /\ sort_order' = IF Admitted(order) THEN order ELSE sort_order
    /\ Finish(e)
    /\ UNCHANGED <<sessions, made, refused>>

LockedByOther(e, s) == \E o \in Editors \ {e} : s \in RowsHeld(o)

DeletePlaybookStep(e, s) ==
    /\ request[e] = None /\ ~LockedByOther(e, s)
    /\ sort_order' = Restrict(sort_order, PlaybookSteps \ {s})
    /\ UNCHANGED <<request, sessions, made, refused>>

\* SELECT ... FOR UPDATE of the step.
MovePlaybookStep(e, s, direction) ==
    /\ request[e] = None /\ ~LockedByOther(e, s)
    /\ request' = [request EXCEPT ![e] =
                      [op |-> "move", step |-> s, direction |-> direction, held |-> {s},
                       sortOrder |-> sort_order[s], rest |-> {}, found |-> FALSE]]
    /\ UNCHANGED <<sort_order, sessions, made, refused>>

Beyond(x, n) == IF x.direction = "up" THEN n < x.sortOrder ELSE n > x.sortOrder

\* The snapshot of the neighbour query.
FindNeighbour(e) ==
    LET x == request[e] IN
    /\ x.op = "move" /\ ~x.found
    /\ request' = [request EXCEPT ![e].found = TRUE,
          ![e].rest = {<<sort_order[s], s>> : s \in {n \in PlaybookSteps : Beyond(x, sort_order[n])}}]
    /\ UNCHANGED <<sort_order, sessions, made, refused>>

\* ORDER BY sort_order DESC, or ASC.
Nearest(x) == CHOOSE c \in x.rest :
    \A d \in x.rest : IF x.direction = "up" THEN d[1] <= c[1] ELSE d[1] >= c[1]

\* The first UPDATE of the swap, with the neighbour still in its place.
HalfSwapped(x, n) == [sort_order EXCEPT ![x.step] = sort_order[n]]

\* The nearest row's lock; a row that no longer qualifies is passed over.
LockNeighbour(e) ==
    LET x == request[e]
        n == Nearest(x)[2] IN
    /\ x.op = "move" /\ x.found /\ x.rest # {}
    /\ ~LockedByOther(e, n)
    /\ IF n \in PlaybookSteps /\ Beyond(x, sort_order[n])
       THEN /\ IF Admitted(HalfSwapped(x, n))
               THEN /\ sort_order' = [HalfSwapped(x, n) EXCEPT ![n] = x.sortOrder]
                    /\ UNCHANGED refused
               ELSE refused' = refused \cup {x.step} /\ UNCHANGED sort_order
            /\ Finish(e)
       ELSE /\ request' = [request EXCEPT ![e].rest = @ \ {Nearest(x)},
                                          ![e].held = @ \cup ({n} \cap PlaybookSteps)]
            /\ UNCHANGED <<sort_order, refused>>
    /\ UNCHANGED <<sessions, made>>

\* At the edge already, a missing row, a deadlock's victim, a lost connection.
Drop(e) ==
    /\ request[e] # None
    /\ Finish(e)
    /\ UNCHANGED <<sort_order, sessions, made, refused>>

-----------------------------------------------------------------------------
(* Sessions and their checklists.                                           *)

\* SessionHandler.Create writes the session; nothing copies the playbook.
OpenSession ==
    /\ Len(sessions) < MaxSessions
    /\ sessions' = Append(sessions, [template |-> PlaybookSteps, items |-> {}, ticked |-> {}, told |-> 0])
    /\ UNCHANGED <<sort_order, request, made, refused>>

\* completed = NOT completed.
Toggled(ticked, item) == IF item \in ticked THEN ticked \ {item} ELSE ticked \cup {item}

\* Of an item of this session; it answers the rows the UPDATE affected.
ToggleChecklistItem(n, item) ==
    /\ item \in sessions[n].items
    /\ sessions' = [sessions EXCEPT ![n].ticked = Toggled(@, item), ![n].told = 1]
    /\ UNCHANGED <<sort_order, request, made, refused>>

PlaybookNext ==
    \/ \E e \in Editors :
          \/ CreatePlaybookStep(e) \/ Created(e) \/ FindNeighbour(e) \/ LockNeighbour(e)
          \/ Drop(e)
          \/ \E s \in PlaybookSteps : DeletePlaybookStep(e, s)
          \/ \E s \in PlaybookSteps, d \in {"up", "down"} : MovePlaybookStep(e, s, d)
    \/ OpenSession
    \/ \E n \in DOMAIN sessions, item \in Steps : ToggleChecklistItem(n, item)

PlaybookSpec == PlaybookInit /\ [][PlaybookNext]_playbookVars

-----------------------------------------------------------------------------
\* Creations that overlap, moves in any order and deletions leave every step a
\* place of its own (CreatePlaybookStep, MovePlaybookStep).
PlacesAreDistinct == IsInjective(sort_order)

\* "Sort_order has no UNIQUE constraint, so a direct two-step update is fine"
\* (MovePlaybookStep): a step with a neighbour trades places with it.
MovesSucceed == refused = {}

\* ToggleChecklistItem "returns the new completion count" (handler/session.go).
CountIsAnswered ==
    \A n \in DOMAIN sessions :
        sessions[n].told > 0 => sessions[n].told = Cardinality(sessions[n].ticked)

\* "New sessions get the default playbook checklist" (the gym settings).
ChecklistIsMade == \A n \in DOMAIN sessions : sessions[n].items = sessions[n].template
=============================================================================
