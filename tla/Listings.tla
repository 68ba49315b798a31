------------------------------ MODULE Listings ------------------------------
(***************************************************************************)
(* The lists of the API: routes, a climber's ticks, the labor log and the  *)
(* activity of a gym, read page by page while rows are written, the        *)
(* ascents and ratings of a route, which hide private profiles, and the    *)
(* team of a gym, one line for each person (internal/repository/route.go,  *)
(* ascent.go, rating.go, labor.go, activity.go, follow.go, user.go).       *)
(*                                                                         *)
(* A statement is a list of conditions with numbered placeholders and the  *)
(* arguments they stand for.  A row has the columns that the filters and   *)
(* the orders tell apart; a page is one statement, the pages of a walk are *)
(* many, and the rows may change between them.                             *)
(***************************************************************************)
EXTENDS Integers, Sequences, SequencesExt, FiniteSetsExt

CONSTANTS
    Members,       \* users
    Me,            \* the one who asks for a route's ascents
    DefaultPage,   \* clampPage's default and cap
    PageCap,
    MaxMade,       \* bound: rows ever inserted
    MaxListWrites      \* bound: listWrites during a run

ASSUME ListingsAssumption ==
    /\ Me \in Members
    /\ DefaultPage \in Nat /\ PageCap \in Nat
    /\ 0 < DefaultPage /\ DefaultPage <= PageCap
    /\ MaxMade \in Nat \ {0} /\ MaxListWrites \in Nat

Lists == {"routes", "ticks", "labor", "activity"}
Cells == {1, 2}              \* the values of a filtered column
Posts == 1 .. 3              \* setter, gym_manager, org_admin
Reach == {"gym", "org-wide", "elsewhere"}

VARIABLES
    table,     \* the rows of the list that is walked, live or not
    people,    \* the live memberships: who, where, which role
    hiders,    \* the users with show_profile off
    walk,      \* the client's walk over the pages
    shown,     \* history: what the route's page has shown the caller
    listWrites

listingVars == <<table, people, hiders, walk, shown, listWrites>>

Row == [made : 1 .. MaxMade, day : Cells, wall : Cells, grade : Cells]

NoWalk == [kind |-> "none"]

\* A gym with rows to list and nobody in it, or with people and no rows.
ListingInit ==
    /\ \/ /\ people = {}
          /\ \E days \in [1 .. MaxMade - 1 -> Cells], wall \in Cells :
                table = {[made |-> n, day |-> days[n], grade |-> 1 + (n % 2),
                          wall |-> IF n = 1 THEN 1 ELSE wall] :
                         n \in 1 .. MaxMade - 1}
       \/ /\ table = {}
          /\ people \in SUBSET [who : Members, at : Reach, role : Posts]
          /\ Cardinality(people) <= 3
    /\ hiders = {}
    /\ walk = NoWalk
    /\ shown = {}
    /\ listWrites = 0

-----------------------------------------------------------------------------
(* The filter of the route list: whereBuilder.                             *)

\* A statement under construction: conditions, arguments, next placeholder.
newWhereBuilder == [conds |-> <<>>, args |-> <<"gym">>, argN |-> 2]

Missing == {}

\* addEq, addGte, addLte: nothing for an empty value.
Compared(wb, column, test, value) ==
    IF value = Missing THEN wb
    ELSE [conds |-> Append(wb.conds, [column |-> column, test |-> test,
                                      places |-> {wb.argN}]),
          args  |-> wb.args \o SetToSeq(value),
          argN  |-> wb.argN + 1]

\* Mutant of AddIn: one placeholder for the whole list.
AddInOnce(wb, column, values) ==
    IF values = Missing THEN wb
    ELSE [conds |-> Append(wb.conds, [column |-> column, test |-> "in",
                                      places |-> {wb.argN}]),
          args  |-> wb.args \o SetToSeq(values),
          argN  |-> wb.argN + 1]

\* addIn: a placeholder for each value.
AddIn(wb, column, values) ==
    LET n == Cardinality(values)
    IN  IF values = Missing THEN wb
        ELSE [conds |-> Append(wb.conds,
                               [column |-> column, test |-> "in",
                                places |-> wb.argN .. wb.argN + n - 1]),
              args  |-> wb.args \o SetToSeq(values),
              argN  |-> wb.argN + n]

\* What a client may ask for: each field one value or none.
Optional == {Missing} \cup {{c} : c \in Cells}
Filters == [wall : Optional, grade : Optional, gradeIn : SUBSET Cells,
            from : Optional, to : Optional]

buildWhere(f) ==
    LET w == Compared(newWhereBuilder, "wall", "eq", f.wall)
        g == Compared(w, "grade", "eq", f.grade)
        i == AddIn(g, "grade", f.gradeIn)
        l == Compared(i, "day", "ge", f.from)
    IN  Compared(l, "day", "le", f.to)

\* A row passes a statement: each condition holds of the arguments that its
\* placeholders name, and the page takes the two after them.
Passes(row, wb) ==
    \A n \in DOMAIN wb.conds :
        LET c == wb.conds[n]
            v == row[c.column]
            a == {wb.args[i] : i \in c.places}
        IN  \E x \in a : (c.test = "ge" /\ v >= x) \/ (c.test = "le" /\ v <= x)
                         \/ (c.test \in {"eq", "in"} /\ v = x)

\* What the filter means.
Meant(row, f) ==
    /\ f.wall = Missing \/ row.wall \in f.wall
    /\ f.grade = Missing \/ row.grade \in f.grade
    /\ f.gradeIn = Missing \/ row.grade \in f.gradeIn
    /\ \A d \in f.from : d <= row.day
    /\ \A d \in f.to : row.day <= d

-----------------------------------------------------------------------------
(* Pages.                                                                  *)

\* clampPage.
clampPage(limit) ==
    Min({IF limit <= 0 THEN DefaultPage ELSE limit, PageCap})

\* Mutant of Before: ties in any order.
BeforeByDay(kind, r, q) == r.day > q.day

\* The ORDER BY of a list.  Only the labor log leaves ties.
Before(kind, r, q) ==
    \/ kind # "activity" /\ r.day > q.day
    \/ kind = "activity" /\ r.made > q.made
    \/ kind \in {"routes", "ticks"} /\ r.day = q.day /\ r.made > q.made

\* The orders the database may return a list in.
Orders(kind, set) ==
    {order \in SetToSeqs(set) :
        \A i, j \in DOMAIN order : i < j => ~Before(kind, order[j], order[i])}

\* Only the route list of the API takes filters.
Listed(f) == {r \in table : Passes(r, buildWhere(f))}

Open == [wall |-> Missing, grade |-> Missing, gradeIn |-> Missing, from |-> Missing,
         to |-> Missing]

\* A client starts to walk over a list.
StartWalk(kind, asked, f) ==
    /\ walk = NoWalk
    /\ kind = "routes" \/ f = Open
    /\ walk' = [kind |-> kind, filter |-> f, limit |-> clampPage(asked),
                offset |-> 0, seen |-> {}, steady |-> Listed(f),
                moved |-> FALSE, over |-> FALSE]
    /\ UNCHANGED <<table, people, hiders, shown, listWrites>>

\* One page: List, ListByUserFiltered, ListByLocation.  An empty page ends
\* the walk, and so does a short one.
NextPage ==
    /\ walk # NoWalk /\ ~walk.over
    /\ \E order \in Orders(walk.kind, Listed(walk.filter)) :
          LET page == SubSeq(order, walk.offset + 1,
                             Min({walk.offset + walk.limit, Len(order)}))
          IN  walk' = [walk EXCEPT !.offset = @ + walk.limit,
                                   !.seen = @ \cup ToSet(page),
                                   !.over = Len(page) < walk.limit]
    /\ UNCHANGED <<table, people, hiders, shown, listWrites>>

EndWalk ==
    /\ walk # NoWalk /\ walk.over
    /\ walk' = NoWalk
    /\ UNCHANGED <<table, people, hiders, shown, listWrites>>

\* A row is inserted, and one leaves the table or changes its place.
InsertRow(day, wall) ==
    /\ listWrites < MaxListWrites /\ MaxMade \notin {r.made : r \in table}
    /\ table' = table \cup {[made |-> MaxMade, day |-> day, wall |-> wall,
                             grade |-> 1]}
    /\ listWrites' = listWrites + 1
    /\ UNCHANGED <<people, hiders, walk, shown>>

MoveRow(row, day) ==
    /\ listWrites < MaxListWrites /\ row \in table /\ day # row.day
    /\ table' = (table \ {row}) \cup {[row EXCEPT !.day = day]}
    /\ walk' = IF walk = NoWalk THEN walk ELSE [walk EXCEPT !.moved = TRUE]
    /\ listWrites' = listWrites + 1
    /\ UNCHANGED <<people, hiders, shown>>

RemoveRow(row) ==
    /\ listWrites < MaxListWrites /\ row \in table
    /\ table' = table \ {row}
    /\ walk' = IF walk = NoWalk THEN walk ELSE [walk EXCEPT !.moved = TRUE]
    /\ listWrites' = listWrites + 1
    /\ UNCHANGED <<people, hiders, shown>>

-----------------------------------------------------------------------------
(* What one user sees of others.                                           *)

\* The ascents and ratings of a route as the statement selects them for a
\* viewer.  The empty string is no UUID: the database refuses it.
ListByRouteForViewer(viewer) ==
    IF viewer = "" THEN {"refused"}
    ELSE {u \in Members : u = viewer \/ u \notin hiders}

\* RouteAscents and RouteRatings, for every caller.
RouteAscents ==
    /\ shown' = ListByRouteForViewer("")
    /\ UNCHANGED <<table, people, hiders, walk, listWrites>>

\* A user shows or hides the profile.
ToggleProfile(u) ==
    /\ listWrites < MaxListWrites
    /\ hiders' = IF u \in hiders THEN hiders \ {u} ELSE hiders \cup {u}
    /\ shown' = {}
    /\ listWrites' = listWrites + 1
    /\ UNCHANGED <<table, people, walk>>

-----------------------------------------------------------------------------
(* The team of a gym.                                                      *)

\* SearchMembersByLocation takes the memberships of the gym and the ones of
\* the whole organization, SearchMembersByOrg all of them.
Covering(scope) ==
    {m \in people : scope = "org" \/ m.at \in {"gym", "org-wide"}}

\* DISTINCT ON (u.id), ordered by rank: one row for each user.
Ranked(scope) ==
    {m \in Covering(scope) :
        \A o \in Covering(scope) : o.who = m.who => o.role <= m.role}

\* Mutant of Team: the filter comes before the choice of the row.
TeamFiltered(scope, roles) ==
    {[who |-> m.who, role |-> m.role] :
        m \in {n \in Covering(scope) : n.role \in roles /\
                 \A o \in Covering(scope) :
                    (o.who = n.who /\ o.role \in roles) => o.role <= n.role}}

\* List, ListOrg: the role filter applies to the row that was chosen.
Team(scope, roles) ==
    {[who |-> m.who, role |-> m.role] :
        m \in {n \in Ranked(scope) : n.role \in roles}}

ListingNext ==
    \/ \E kind \in Lists, asked \in {0, 1, PageCap + 1}, w \in Optional :
          StartWalk(kind, asked, [Open EXCEPT !.wall = w])
    \/ NextPage
    \/ EndWalk
    \/ \E day, wall \in Cells : InsertRow(day, wall)
    \/ \E row \in table, day \in Cells : MoveRow(row, day)
    \/ \E row \in table : RemoveRow(row)
    \/ RouteAscents
    \/ \E u \in Members : ToggleProfile(u)

ListingSpec == ListingInit /\ [][ListingNext]_listingVars

-----------------------------------------------------------------------------

ListingTypeOK ==
    /\ table \subseteq Row
    /\ hiders \subseteq Members
    /\ listWrites \in 0 .. MaxListWrites

\* Every filter selects the rows it means, whichever of its fields are set:
\* the placeholders and the arguments of the builder keep in step.
FiltersMean ==
    (table # {} /\ listWrites = 0 /\ walk = NoWalk) =>
        \A f \in Filters : Listed(f) = {r \in table : Meant(r, f)}

\* A walk that nothing was removed from or moved under misses no row, even
\* when others are inserted; only days shared in the labor log excuse it.
WalksMissNothing ==
    (walk # NoWalk /\ walk.over /\ ~walk.moved) =>
        \/ walk.steady \subseteq walk.seen
        \/ /\ walk.kind = "labor"
           /\ \E r, q \in table : r # q /\ r.day = q.day

\* A person is on the team once, and under a filter only with the role that
\* the gates would grant there, however many memberships say less.
TeamIsBest ==
    people # {} =>
    \A scope \in {"gym", "org"}, roles \in SUBSET Posts :
        \A line \in Team(scope, roles) :
            \A m \in Covering(scope) : m.who = line.who => m.role <= line.role

\* The lists of the API show what they are asked for (whereBuilder, the
\* ORDER BYs and the DISTINCT ON of the member search).
ListsAreTrue == ListingTypeOK /\ FiltersMean /\ WalksMissNothing /\ TeamIsBest

\* "The viewer always sees their own ascents regardless of privacy"
\* (repository/ascent.go:235).
OwnAscentsAreShown == shown # {} => Me \in shown
=============================================================================
