--------------------------- MODULE ClimbingProofs ---------------------------
(***************************************************************************)
(* Walls and routes, records and their edits, ascents with the counters    *)
(* beside them, ratings, the reports over all of these and the lists that  *)
(* show them page by page, for any number of requests, walls, routes,      *)
(* ticks, raters, setters and rows.                                        *)
(***************************************************************************)
EXTENDS MCClimbing, FiniteSetTheorems, TLAPS

-----------------------------------------------------------------------------
(* One record and its edits: module RecordEdits. *)

\* An edit takes, and a creation fills, only what its handler may write; and a guarded
\* column is in no form.
LEMMA HandlersKeepToTheirColumns ==
    /\ \A h \in Edits : h.must \cup h.may \subseteq Updated[h.of]
    /\ \A k \in DOMAIN Updated : Updated[k] \subseteq Columns(k)
    /\ \A s \in Statements : s.sets \subseteq Columns(s.of)
    /\ \A s \in Statements : \A c \in s.resets : <<s.of, c>> = <<"item", "ticked">>
    /\ \A k \in DOMAIN Updated : \A c \in Updated[k] : <<k, c>> \notin Guarded
<1>1. \A h \in Edits : h.must \cup h.may \subseteq Updated[h.of]
  BY DEF Edits, Patch, Updated, UpdateLocation, SetDomain, UpdateOrg, UpdateMe,
         UpdateCompetition, UpdateEvent, UpdateProblem, UpdateWall, UpdateRoute,
         UploadPhoto, UpdateSession, UpdateDomain, UpdateQuest, UpdateBadge, UpdatePlan,
         LocationColumns, OrgColumns, UserColumns, CompetitionColumns, EventColumns,
         ProblemColumns, WallColumns, RouteColumns, SessionColumns, DomainColumns,
         QuestColumns, BadgeColumns, PlanColumns
<1>2. \A k \in DOMAIN Updated : Updated[k] \subseteq Columns(k)
  BY DEF Columns
<1>3. \A s \in Statements : s.sets \subseteq Columns(s.of)
  BY DEF Columns
<1>4. \A s \in Statements : \A c \in s.resets : <<s.of, c>> = <<"item", "ticked">>
  BY DEF Statements, Statement, SetProgressionsEnabled, UpdateLocationSettings,
         UpdatePassword, ArchiveWall, RouteStatusEdit, RateRoute, SessionStatus,
         DeactivateQuest, UpsertPartner, CompleteItem, EditItem
<1>5. \A k \in DOMAIN Updated : \A c \in Updated[k] : <<k, c>> \notin Guarded
  <2>1. ASSUME NEW k, NEW c, <<k, c>> \in Guarded, k \in DOMAIN Updated, c \in Updated[k]
        PROVE  FALSE
    BY <2>1 DEF Guarded, Updated, LocationColumns, UserColumns, WallColumns, RouteColumns,
                SessionColumns
  <2>2. QED
    BY <2>1
<1>6. QED
  BY <1>1, <1>2, <1>3, <1>4, <1>5

LEMMA FieldsBegin == RecordsInit => FieldsSurvive
<1> SUFFICES ASSUME RecordsInit
             PROVE  FieldsSurvive
  OBVIOUS
<1> USE RecordsAssumption DEF RecordsInit
<1>1. Fresh(kind) \in [Columns(kind) -> Numbers]
  BY DEF Fresh, Numbers
<1>2. RecordsTypeOK
  BY <1>1 DEF RecordsTypeOK, NoEdit
<1>3. Stored => row = kept
  BY DEF Stored
<1>4. QED
  BY <1>2, <1>3 DEF FieldsSurvive

LEMMA NumberIsNext ==
    ASSUME RecordsTypeOK, writes < MaxWrites
    PROVE  /\ writes + 2 \in Numbers /\ 0 \in Numbers /\ 1 \in Numbers
           /\ writes + 1 \in 0 .. MaxWrites
  BY RecordsAssumption DEF RecordsTypeOK, Numbers

\* The statement of an edit writes the columns of its form: those asked for are what
\* the request gave, and the others are the ones the form was loaded with.
LEMMA SaveKeepsFields ==
    ASSUME FieldsSurvive, NEW w \in Writers, Save(w)
    PROVE  FieldsSurvive'
<1> DEFINE e == edit[w]
           number == writes + 2
           given == Overlaid(e, number)
<1>1. /\ e # NoEdit /\ Stored /\ writes < MaxWrites
      /\ writes' = writes + 1
      /\ row' = [c \in Columns(kind) |-> IF c \in Updated[kind] THEN given[c] ELSE row[c]]
      /\ kept' = [c \in Columns(kind) |-> IF c \in e.asked THEN number ELSE kept[c]]
      /\ undone' = (undone \cup {c \in Updated[kind] : e.base[c] # row[c]}) \ e.asked
      /\ edit' = [edit EXCEPT ![w] = NoEdit]
      /\ kind' = kind
  BY DEF Save
<1>2. RecordsTypeOK
  BY DEF FieldsSurvive
<1>3. /\ row \in [Columns(kind) -> Numbers] /\ kept \in [Columns(kind) -> Numbers]
      /\ e.base \in [Columns(kind) -> Numbers] /\ e.asked \subseteq Updated[kind]
      /\ kind \in DOMAIN Updated /\ Updated[kind] \subseteq Columns(kind)
      /\ number \in Numbers /\ writes' \in 0 .. MaxWrites
  BY <1>1, <1>2, NumberIsNext, HandlersKeepToTheirColumns DEF RecordsTypeOK, Stored
<1>4. given = [c \in Columns(kind) |-> IF c \in e.asked THEN number ELSE e.base[c]]
  BY DEF Overlaid
<1> HIDE DEF given, number, e
<1>5. given \in [Columns(kind) -> Numbers]
  BY <1>3, <1>4
<1>6. row' \in [Columns(kind) -> Numbers] /\ kept' \in [Columns(kind) -> Numbers]
  BY <1>1, <1>3, <1>5
<1>7. RecordsTypeOK'
  <2>1. \A v \in Writers : edit'[v] # NoEdit => edit'[v] = edit[v]
    BY <1>1
  <2>2. \A v \in Writers : edit'[v] # NoEdit =>
           /\ edit'[v].handler \in Edits /\ edit'[v].base \in [Columns(kind) -> Numbers]
           /\ edit'[v].asked \subseteq Updated[kind]
    BY <1>2, <2>1 DEF RecordsTypeOK
  <2>3. undone' \subseteq Columns(kind)
    BY <1>1, <1>2, <1>3 DEF RecordsTypeOK
  <2>4. QED
    BY <1>1, <1>3, <1>6, <2>2, <2>3 DEF RecordsTypeOK, Columns, Numbers
<1>8. ASSUME NEW c \in Columns(kind)
      PROVE  \/ row'[c] = kept'[c]
             \/ c \in undone' /\ <<kind, c>> \notin Guarded
             \/ <<kind, c>> = <<"item", "ticked">>
  <2>1. CASE c \in e.asked
    BY <1>1, <1>3, <1>4, <2>1
  <2>2. CASE c \in Updated[kind] /\ c \notin e.asked
    <3>1. row'[c] = e.base[c] /\ kept'[c] = kept[c] /\ <<kind, c>> \notin Guarded
      BY <1>1, <1>3, <1>4, <2>2, HandlersKeepToTheirColumns
    <3>2. e.base[c] # row[c] => c \in undone'
      BY <1>1, <2>2
    <3>3. c \in undone => c \in undone'
      BY <1>1, <2>2
    <3>4. QED
      BY <1>1, <3>1, <3>2, <3>3 DEF FieldsSurvive
  <2>3. CASE c \notin Updated[kind]
    <3>1. row'[c] = row[c] /\ kept'[c] = kept[c] /\ (c \in undone => c \in undone')
      BY <1>1, <1>3, <2>3
    <3>2. QED
      BY <1>1, <3>1 DEF FieldsSurvive
  <2>4. QED
    BY <2>1, <2>2, <2>3
<1>9. Columns(kind)' = Columns(kind)
  BY <1>1 DEF Columns
<1>10. QED
  BY <1>1, <1>7, <1>8, <1>9 DEF FieldsSurvive

\* A statement of one column writes what it is asked.
LEMMA RunKeepsFields ==
    ASSUME FieldsSurvive, NEW s \in Statements, Run(s)
    PROVE  FieldsSurvive'
<1> DEFINE number == writes + 2
<1>1. /\ Stored /\ s.of = kind /\ writes < MaxWrites
      /\ writes' = writes + 1
      /\ row' = [c \in Columns(kind) |-> IF c \in s.sets THEN number
                                        ELSE IF c \in s.resets THEN 0 ELSE row[c]]
      /\ kept' = [c \in Columns(kind) |-> IF c \in s.sets THEN number ELSE kept[c]]
      /\ undone' = undone \ s.sets
      /\ UNCHANGED <<kind, edit>>
  BY DEF Run, Blank
<1>2. RecordsTypeOK
  BY DEF FieldsSurvive
<1>3. /\ row \in [Columns(kind) -> Numbers] /\ kept \in [Columns(kind) -> Numbers]
      /\ number \in Numbers /\ 0 \in Numbers /\ writes' \in 0 .. MaxWrites
  BY <1>1, <1>2, NumberIsNext DEF RecordsTypeOK, Stored
<1> HIDE DEF number
<1>4. row' \in [Columns(kind) -> Numbers] /\ kept' \in [Columns(kind) -> Numbers]
  BY <1>1, <1>3
<1>5. undone' \subseteq Columns(kind)
  BY <1>1, <1>2 DEF RecordsTypeOK
<1>6. RecordsTypeOK'
  BY <1>1, <1>2, <1>3, <1>4, <1>5 DEF RecordsTypeOK, Columns, Numbers
<1>7. ASSUME NEW c \in Columns(kind)
      PROVE  \/ row'[c] = kept'[c]
             \/ c \in undone' /\ <<kind, c>> \notin Guarded
             \/ <<kind, c>> = <<"item", "ticked">>
  <2>1. CASE c \in s.sets
    BY <1>1, <2>1
  <2>2. CASE c \in s.resets
    BY <1>1, <2>2, HandlersKeepToTheirColumns
  <2>3. CASE c \notin s.sets /\ c \notin s.resets
    BY <1>1, <2>3 DEF FieldsSurvive
  <2>4. QED
    BY <2>1, <2>2, <2>3
<1>8. Columns(kind)' = Columns(kind)
  BY <1>1 DEF Columns
<1>9. QED
  BY <1>1, <1>6, <1>7, <1>8 DEF FieldsSurvive

LEMMA FieldsStep == FieldsSurvive /\ [RecordsNext]_recordVars => FieldsSurvive'
<1> SUFFICES ASSUME FieldsSurvive, [RecordsNext]_recordVars
             PROVE  FieldsSurvive'
  OBVIOUS
<1>0. RecordsTypeOK
  BY DEF FieldsSurvive
<1>1. ASSUME NEW w \in Writers, NEW h \in Edits, Load(w, h)
      PROVE  FieldsSurvive'
  <2>1. PICK named \in SUBSET h.may :
           edit' = [edit EXCEPT ![w] =
                      [handler |-> h, base |-> row, asked |-> h.must \cup named]]
    BY <1>1 DEF Load
  <2>2. /\ Stored /\ h.of = kind /\ UNCHANGED <<kind, row, kept, undone, writes>>
    BY <1>1 DEF Load
  <2>3. row \in [Columns(kind) -> Numbers] /\ h.must \cup named \subseteq Updated[kind]
    BY <1>0, <2>2, HandlersKeepToTheirColumns DEF RecordsTypeOK, Stored
  <2>4. ASSUME NEW v \in Writers, edit'[v] # NoEdit
        PROVE  /\ edit'[v].handler \in Edits /\ edit'[v].base \in [Columns(kind) -> Numbers]
               /\ edit'[v].asked \subseteq Updated[kind]
    <3>1. CASE v = w /\ w \in DOMAIN edit
      <4>1. edit'[v] = [handler |-> h, base |-> row, asked |-> h.must \cup named]
        BY <2>1, <3>1
      <4>2. QED
        BY <4>1, <2>3
    <3>2. CASE v # w \/ w \notin DOMAIN edit
      BY <1>0, <2>1, <2>4, <3>2 DEF RecordsTypeOK
    <3>3. QED
      BY <3>1, <3>2
  <2>5. RecordsTypeOK'
    BY <1>0, <2>2, <2>4 DEF RecordsTypeOK, Columns, Numbers
  <2>6. QED
    BY <2>2, <2>5 DEF FieldsSurvive, Stored, Columns, Guarded
<1>2. ASSUME NEW w \in Writers, Save(w)
      PROVE  FieldsSurvive'
  BY <1>2, SaveKeepsFields
<1>3. ASSUME NEW w \in Writers, Refuse(w)
      PROVE  FieldsSurvive'
  <2>1. \A v \in Writers : edit'[v] # NoEdit => edit'[v] = edit[v]
    BY <1>3 DEF Refuse
  <2>2. UNCHANGED <<kind, row, kept, undone, writes>>
    BY <1>3 DEF Refuse
  <2>3. RecordsTypeOK'
    BY <1>0, <2>1, <2>2 DEF RecordsTypeOK, Columns, Numbers
  <2>4. QED
    BY <2>2, <2>3 DEF FieldsSurvive, Stored, Columns, Guarded
<1>4. ASSUME NEW h \in Creations, NEW named \in SUBSET h.may, Insert(h, h.must \cup named)
      PROVE  FieldsSurvive'
  <2>1. /\ writes < MaxWrites /\ writes' = writes + 1
        /\ kept' = [c \in Columns(kind) |-> IF c \in h.must \cup named THEN writes + 2 ELSE 1]
        /\ row' = kept'
        /\ UNCHANGED <<kind, edit, undone>>
    BY <1>4 DEF Insert
  <2>2. kept' \in [Columns(kind) -> Numbers] /\ writes' \in 0 .. MaxWrites
    BY <1>0, <2>1, NumberIsNext
  <2>3. RecordsTypeOK'
    BY <1>0, <2>1, <2>2 DEF RecordsTypeOK, Columns, Numbers
  <2>4. QED
    BY <2>1, <2>3 DEF FieldsSurvive
<1>5. ASSUME NEW s \in Statements, Run(s)
      PROVE  FieldsSurvive'
  BY <1>5, RunKeepsFields
<1>6. CASE Delete
  <2>1. row' = Gone /\ UNCHANGED <<kind, edit, kept, undone, writes>>
    BY <1>6 DEF Delete
  <2>2. RecordsTypeOK'
    BY <1>0, <2>1 DEF RecordsTypeOK, Columns, Numbers, Gone, Unborn
  <2>3. ~Stored'
    BY <2>1 DEF Stored, Gone
  <2>4. QED
    BY <2>2, <2>3 DEF FieldsSurvive
<1>7. CASE UNCHANGED recordVars
  <2>1. UNCHANGED <<kind, row, edit, kept, undone, writes>>
    BY <1>7 DEF recordVars
  <2>2. Columns(kind)' = Columns(kind) /\ Stored' = Stored
    BY <2>1 DEF Columns, Stored
  <2>3. RecordsTypeOK'
    BY <2>1, <2>2 DEF FieldsSurvive, RecordsTypeOK
  <2>4. QED
    BY <2>1, <2>2, <2>3 DEF FieldsSurvive
<1>8. QED
  BY <1>1, <1>2, <1>3, <1>4, <1>5, <1>6, <1>7 DEF RecordsNext

-----------------------------------------------------------------------------
(* Counting. *)

LEMMA IndicatorIsABit ==
    ASSUME NEW b
    PROVE  Indicator(b) \in {0, 1} /\ (b => Indicator(b) = 1) /\ (~b => Indicator(b) = 0)
  BY DEF Indicator

\* Two sets that differ in one element at most differ in size by what it is to each.
LEMMA OneApart ==
    ASSUME NEW S, IsFiniteSet(S), NEW T, NEW i, T \ {i} = S \ {i}
    PROVE  /\ IsFiniteSet(T) /\ Cardinality(S) \in Nat /\ Cardinality(T) \in Nat
           /\ Indicator(i \in S) <= Cardinality(S)
           /\ Cardinality(T) = (Cardinality(S) + Indicator(i \in T)) - Indicator(i \in S)
<1> DEFINE R == S \ {i}
<1>1. IsFiniteSet(R) /\ Cardinality(R) \in Nat
  BY FS_RemoveElement, FS_CardinalityType
<1>2. \A Z : Z \ {i} = R =>
         /\ IsFiniteSet(Z)
         /\ Cardinality(Z) = Cardinality(R) + Indicator(i \in Z)
  <2> SUFFICES ASSUME NEW Z, Z \ {i} = R
               PROVE  /\ IsFiniteSet(Z)
                      /\ Cardinality(Z) = Cardinality(R) + Indicator(i \in Z)
    OBVIOUS
  <2>1. CASE i \in Z
    <3>1. Z = R \cup {i} /\ i \notin R
      BY <2>1
    <3>2. QED
      BY <1>1, <2>1, <3>1, FS_AddElement DEF Indicator
  <2>2. CASE i \notin Z
    <3>1. Z = R
      BY <2>2
    <3>2. QED
      BY <1>1, <2>2, <3>1 DEF Indicator
  <2>3. QED
    BY <2>1, <2>2
<1>3. /\ Cardinality(S) = Cardinality(R) + Indicator(i \in S)
      /\ IsFiniteSet(T) /\ Cardinality(T) = Cardinality(R) + Indicator(i \in T)
  BY <1>2
<1>4. Indicator(i \in S) \in {0, 1} /\ Indicator(i \in T) \in {0, 1}
  BY DEF Indicator
<1> HIDE DEF R
<1>5. QED
  BY <1>1, <1>3, <1>4

-----------------------------------------------------------------------------
(* Ascents and their counters: module Ascents. *)

Busy(c) == climb[c] # NoClimb
Looked(c) == Busy(c) /\ climb[c].step = "looked"

\* What a request will leave completed: a completion it writes and does not delete.
Completing(c) == Writing(c) /\ climb[c].op # "delete" /\ Completes(climb[c].type)

\* A tick is one row's: of the request that inserts it, or of a row there is, with
\* that row's route; and two transactions never write the same one.
TicksAreOwned ==
    /\ \A c \in Climbs : Busy(c) =>
          /\ climb[c].op = "insert" => climb[c].tick \notin DOMAIN ascents
          /\ climb[c].op # "insert" /\ climb[c].tick \in DOMAIN ascents =>
                ascents[climb[c].tick].route = climb[c].route
          /\ climb[c].op # "insert" /\ Writing(c) => climb[c].tick \in DOMAIN ascents
    /\ \A c, d \in Climbs : c # d /\ Busy(c) /\ Busy(d) /\ climb[c].tick = climb[d].tick =>
          /\ climb[c].op # "insert" /\ climb[d].op # "insert"
          /\ ~(Writing(c) /\ Writing(d))

\* The index admits one completion of a route, of those in the table and those under
\* way.
OneCompletes ==
    /\ \A i, j \in DOMAIN ascents :
          /\ ascents[i].route = ascents[j].route
          /\ Completes(ascents[i].type) /\ Completes(ascents[j].type)
          => i = j
    /\ \A c \in Climbs : Completing(c) =>
          /\ \A i \in TicksOn(climb[c].route) \ {climb[c].tick} : ~Completes(ascents[i].type)
          /\ \A d \in Climbs \ {c} : Completing(d) => climb[d].route # climb[c].route

\* While no first or last ticks of a route have met, what a request has seen of the
\* route is still so.
LooksStand ==
    overlapped = {} =>
        /\ \A c \in Climbs : Looked(c) /\ climb[c].op # "update" =>
              (climb[c].alone <=> TicksOn(climb[c].route) \ {climb[c].tick} = {})
        /\ \A c, d \in Climbs :
              /\ c # d /\ Looked(c) /\ Looked(d)
              /\ climb[c].op # "update" /\ climb[d].op # "update"
              => climb[c].route # climb[d].route

RoutesClimbed == {ascents[i].route : i \in DOMAIN ascents}

AscentsInv ==
    /\ AscentsTypeOK
    /\ IsFiniteSet(DOMAIN ascents) /\ IsFiniteSet(RoutesClimbed)
    /\ TicksAreOwned
    /\ OneCompletes
    /\ LooksStand
    /\ CountersMatchRows

\* What the users trigger makes of the user's counters.
UserRecounted(u, x, old) ==
    CASE x.op = "insert" -> Inserted(u, x)
      [] x.op = "delete" -> Deleted(u, old, x)
      [] x.op = "update" -> Retyped(u, old, x.type)

LEMMA RaisedAndLowered ==
    ASSUME NEW n \in Nat, NEW up \in {0, 1}, NEW down \in {0, 1}, down <= n
    PROVE  Lowered(n, down) = n - down /\ Moved(n, up, down) = (n + up) - down
  BY DEF Lowered, Moved

LEMMA AscentsBegin == AscentsInit => AscentsInv
<1> SUFFICES ASSUME AscentsInit
             PROVE  AscentsInv
  OBVIOUS
<1>1. /\ DOMAIN ascents = {} /\ \A c \in Climbs : climb[c] = NoClimb
      /\ climb \in [Climbs -> {NoClimb}]
      /\ users = [sends |-> 0, flashes |-> 0, logged |-> 0, unique |-> 0]
      /\ routes = [r \in Climbable |-> [ascents |-> 0, attempts |-> 0]]
      /\ overlapped = {}
  BY DEF AscentsInit
<1>2. IsFiniteSet({}) /\ Cardinality({}) = 0
  BY FS_EmptySet
<1>3. AscentsTypeOK
  BY <1>1 DEF AscentsTypeOK
<1>4. \A r : TicksOn(r) = {}
  BY <1>1 DEF TicksOn
<1>5. \A P : OfType({}, P) = {}
  BY DEF OfType
<1>6. RoutesClimbed = {}
  BY <1>1 DEF RoutesClimbed
<1>7. TicksAreOwned /\ OneCompletes /\ LooksStand
  BY <1>1 DEF TicksAreOwned, OneCompletes, LooksStand, Busy, Looked, Completing, Writing
<1>8. CountersMatchRows
  <2>1. \A r \in Climbable : routes[r].ascents = 0 /\ routes[r].attempts = 0
    BY <1>1
  <2>2. users.sends = 0 /\ users.flashes = 0 /\ users.logged = 0 /\ users.unique = 0
    BY <1>1
  <2>3. {ascents[i].route : i \in DOMAIN ascents} = {}
    BY <1>1
  <2>4. QED
    BY <1>1, <1>2, <1>4, <1>5, <2>1, <2>2, <2>3 DEF CountersMatchRows, HowMany
<1>9. QED
  BY <1>1, <1>2, <1>3, <1>6, <1>7, <1>8 DEF AscentsInv

\* A step that leaves the rows and the counters alone keeps what relates them.
LEMMA RowsStay ==
    ASSUME AscentsInv, UNCHANGED <<ascents, users, routes>>, climb' \in [Climbs -> Transactions \cup {NoClimb}],
           overlapped' \subseteq Climbable, overlapped' = {} => overlapped = {}
    PROVE  /\ AscentsTypeOK' /\ IsFiniteSet(DOMAIN ascents)' /\ IsFiniteSet(RoutesClimbed)'
           /\ CountersMatchRows'
           /\ \A r : TicksOn(r)' = TicksOn(r)
<1>1. AscentsTypeOK'
  BY DEF AscentsInv, AscentsTypeOK, Transactions, NoClimb, Types
<1>2. IsFiniteSet(DOMAIN ascents)' /\ IsFiniteSet(RoutesClimbed)'
  BY DEF AscentsInv, RoutesClimbed
<1>3. \A r : TicksOn(r)' = TicksOn(r)
  BY DEF TicksOn
<1>4. /\ \A P : OfType(DOMAIN ascents, P)' = OfType(DOMAIN ascents, P)
      /\ \A r, P : OfType(TicksOn(r), P)' = OfType(TicksOn(r), P)
  BY DEF OfType, TicksOn
<1>5. CountersMatchRows'
  <2>1. CountersMatchRows
    BY DEF AscentsInv
  <2>2. QED
    BY <1>3, <1>4, <2>1 DEF CountersMatchRows, HowMany
<1>6. QED
  BY <1>1, <1>2, <1>3, <1>5

LEMMA ClimbIsTyped ==
    ASSUME AscentsInv, NEW c \in Climbs
    PROVE  /\ climb[c] \in Transactions \cup {NoClimb}
           /\ climb[c] # NoClimb => climb[c] \in Transactions
           /\ climb \in [Climbs -> Transactions \cup {NoClimb}]
           /\ NoClimb \notin Transactions
  BY DEF AscentsInv, AscentsTypeOK, Transactions, NoClimb

\* A request is asked for: an insertion takes a tick nobody has, and the others one of
\* a row there is, with its route.
LEMMA AskingKeeps ==
    ASSUME AscentsInv, NEW c \in Climbs, NEW op \in {"insert", "update", "delete"},
           NEW i \in Ticks, NEW r \in Climbable, NEW t \in Types, AskFor(c, op, i, r, t),
           op = "insert" => i \notin DOMAIN ascents /\ \A d \in Climbs : Busy(d) => climb[d].tick # i,
           op # "insert" => i \in DOMAIN ascents /\ ascents[i].route = r
    PROVE  AscentsInv'
<1> DEFINE y == [op |-> op, tick |-> i, route |-> r, type |-> t, step |-> "asked", alone |-> FALSE]
<1>1. /\ climb[c] = NoClimb /\ climb' = [climb EXCEPT ![c] = y]
      /\ UNCHANGED <<ascents, users, routes, climbed, overlapped>>
  BY DEF AskFor
<1>2. y \in Transactions /\ y # NoClimb /\ y.op = op /\ y.tick = i /\ y.route = r /\ y.step = "asked"
  BY DEF Transactions, NoClimb
<1> HIDE DEF y
<1>3. /\ climb' \in [Climbs -> Transactions \cup {NoClimb}]
      /\ climb'[c] = y /\ \A d \in Climbs \ {c} : climb'[d] = climb[d]
  BY <1>1, <1>2, ClimbIsTyped
<1>4. /\ AscentsTypeOK' /\ IsFiniteSet(DOMAIN ascents)' /\ IsFiniteSet(RoutesClimbed)'
      /\ CountersMatchRows' /\ \A q : TicksOn(q)' = TicksOn(q)
  <2>1. overlapped' \subseteq Climbable /\ (overlapped' = {} => overlapped = {})
    BY <1>1 DEF AscentsInv, AscentsTypeOK
  <2>2. QED
    BY <1>1, <1>3, <2>1, RowsStay
<1>5. /\ ~Writing(c)' /\ ~Completing(c)' /\ ~Looked(c)'
      /\ \A d \in Climbs \ {c} : /\ Busy(d)' <=> Busy(d)
                                 /\ Writing(d)' <=> Writing(d)
                                 /\ Completing(d)' <=> Completing(d)
                                 /\ Looked(d)' <=> Looked(d)
  BY <1>2, <1>3 DEF Writing, Completing, Looked, Busy
<1>6. TicksAreOwned'
  <2>1. TicksAreOwned /\ ~Busy(c)
    BY <1>1 DEF AscentsInv, Busy
  <2>2. \A d \in Climbs : Busy(d)' =>
          /\ climb'[d].op = "insert" => climb'[d].tick \notin DOMAIN ascents
          /\ climb'[d].op # "insert" /\ climb'[d].tick \in DOMAIN ascents =>
                ascents[climb'[d].tick].route = climb'[d].route
          /\ climb'[d].op # "insert" /\ Writing(d)' => climb'[d].tick \in DOMAIN ascents
    BY <1>2, <1>3, <1>5, <2>1 DEF TicksAreOwned
  <2>3. \A d, e \in Climbs : d # e /\ Busy(d)' /\ Busy(e)' /\ climb'[d].tick = climb'[e].tick =>
          /\ climb'[d].op # "insert" /\ climb'[e].op # "insert"
          /\ ~(Writing(d)' /\ Writing(e)')
    <3> SUFFICES ASSUME NEW d \in Climbs, NEW e \in Climbs, d # e, Busy(d)', Busy(e)',
                        climb'[d].tick = climb'[e].tick
                 PROVE  /\ climb'[d].op # "insert" /\ climb'[e].op # "insert"
                        /\ ~(Writing(d)' /\ Writing(e)')
      OBVIOUS
    <3>1. CASE d # c /\ e # c
      BY <1>3, <1>5, <2>1, <3>1 DEF TicksAreOwned
    <3>2. ASSUME NEW o \in Climbs, o # c, Busy(o), climb[o].tick = i
          PROVE  op # "insert" /\ climb[o].op # "insert"
      BY <2>1, <3>2 DEF TicksAreOwned
    <3>3. CASE d = c
      BY <1>2, <1>3, <1>5, <3>2, <3>3
    <3>4. CASE e = c
      BY <1>2, <1>3, <1>5, <3>2, <3>4
    <3>5. QED
      BY <3>1, <3>3, <3>4
  <2>4. QED
    BY <1>1, <2>2, <2>3 DEF TicksAreOwned
<1>7. OneCompletes'
  <2>1. OneCompletes
    BY DEF AscentsInv
  <2>2. \A d \in Climbs : Completing(d)' => d # c /\ Completing(d) /\ climb'[d] = climb[d]
    BY <1>3, <1>5
  <2>3. QED
    BY <1>1, <1>4, <2>1, <2>2 DEF OneCompletes
<1>8. LooksStand'
  <2>1. LooksStand
    BY DEF AscentsInv
  <2>2. \A d \in Climbs : Looked(d)' => d # c /\ Looked(d) /\ climb'[d] = climb[d]
    BY <1>3, <1>5
  <2>3. QED
    BY <1>1, <1>4, <2>1, <2>2 DEF LooksStand
<1>9. QED
  BY <1>4, <1>6, <1>7, <1>8 DEF AscentsInv

\* The row is written: nobody else writes it, and the index has let it in.
LEMMA WritingKeeps ==
    ASSUME AscentsInv, NEW c \in Climbs, Write(c)
    PROVE  AscentsInv'
<1> DEFINE x == climb[c]
           y == [x EXCEPT !.step = "written"]
<1>1. /\ x # NoClimb /\ x.step = "asked"
      /\ x.op # "insert" => x.tick \in DOMAIN ascents /\ ~Pending(x.tick)
      /\ IndexAdmits(x)
      /\ climb' = [climb EXCEPT ![c].step = "written"]
      /\ UNCHANGED <<ascents, users, routes, overlapped>>
  BY DEF Write
<1>2. /\ x \in Transactions /\ y \in Transactions /\ NoClimb \notin Transactions
      /\ y.step = "written" /\ y.op = x.op /\ y.tick = x.tick /\ y.route = x.route
      /\ y.type = x.type /\ y.alone = x.alone
  <2>1. x \in Transactions /\ NoClimb \notin Transactions
    BY <1>1, ClimbIsTyped
  <2>2. QED
    BY <2>1 DEF Transactions
<1>3. /\ climb' \in [Climbs -> Transactions \cup {NoClimb}]
      /\ climb'[c] = y /\ \A d \in Climbs \ {c} : climb'[d] = climb[d]
  BY <1>1, <1>2, ClimbIsTyped
<1> HIDE DEF y
<1>4. /\ AscentsTypeOK' /\ IsFiniteSet(DOMAIN ascents)' /\ IsFiniteSet(RoutesClimbed)'
      /\ CountersMatchRows' /\ \A q : TicksOn(q)' = TicksOn(q)
  <2>1. overlapped' \subseteq Climbable /\ (overlapped' = {} => overlapped = {})
    BY <1>1 DEF AscentsInv, AscentsTypeOK
  <2>2. QED
    BY <1>1, <1>3, <2>1, RowsStay
<1>5. /\ Busy(c) /\ ~Writing(c) /\ ~Looked(c) /\ Busy(c)' /\ Writing(c)' /\ ~Looked(c)'
      /\ Completing(c)' <=> x.op # "delete" /\ Completes(x.type)
      /\ \A d \in Climbs \ {c} : /\ Busy(d)' <=> Busy(d)
                                 /\ Writing(d)' <=> Writing(d)
                                 /\ Completing(d)' <=> Completing(d)
                                 /\ Looked(d)' <=> Looked(d)
  BY <1>1, <1>2, <1>3 DEF Writing, Completing, Looked, Busy
<1>6. TicksAreOwned'
  <2>1. TicksAreOwned
    BY DEF AscentsInv
  <2>2. \A d \in Climbs : Busy(d)' =>
          /\ climb'[d].op = "insert" => climb'[d].tick \notin DOMAIN ascents
          /\ climb'[d].op # "insert" /\ climb'[d].tick \in DOMAIN ascents =>
                ascents[climb'[d].tick].route = climb'[d].route
          /\ climb'[d].op # "insert" /\ Writing(d)' => climb'[d].tick \in DOMAIN ascents
    <3> SUFFICES ASSUME NEW d \in Climbs, Busy(d)'
                 PROVE  /\ climb'[d].op = "insert" => climb'[d].tick \notin DOMAIN ascents
                        /\ climb'[d].op # "insert" /\ climb'[d].tick \in DOMAIN ascents =>
                              ascents[climb'[d].tick].route = climb'[d].route
                        /\ climb'[d].op # "insert" /\ Writing(d)' =>
                              climb'[d].tick \in DOMAIN ascents
      OBVIOUS
    <3>1. CASE d = c
      BY <1>1, <1>2, <1>3, <1>5, <2>1, <3>1 DEF TicksAreOwned
    <3>2. CASE d # c
      BY <1>3, <1>5, <2>1, <3>2 DEF TicksAreOwned
    <3>3. QED
      BY <3>1, <3>2
  <2>3. \A d, e \in Climbs : d # e /\ Busy(d)' /\ Busy(e)' /\ climb'[d].tick = climb'[e].tick =>
          /\ climb'[d].op # "insert" /\ climb'[e].op # "insert"
          /\ ~(Writing(d)' /\ Writing(e)')
    <3> SUFFICES ASSUME NEW d \in Climbs, NEW e \in Climbs, d # e, Busy(d)', Busy(e)',
                        climb'[d].tick = climb'[e].tick
                 PROVE  /\ climb'[d].op # "insert" /\ climb'[e].op # "insert"
                        /\ ~(Writing(d)' /\ Writing(e)')
      OBVIOUS
    <3>1. CASE d # c /\ e # c
      BY <1>3, <1>5, <2>1, <3>1 DEF TicksAreOwned
    <3>2. ASSUME NEW o \in Climbs, o # c, Busy(o), climb[o].tick = x.tick
          PROVE  x.op # "insert" /\ climb[o].op # "insert" /\ ~Writing(o)
      <4>1. x.op # "insert" /\ climb[o].op # "insert"
        BY <1>5, <2>1, <3>2 DEF TicksAreOwned
      <4>2. ~Pending(x.tick)
        BY <1>1, <4>1
      <4>3. QED
        BY <3>2, <4>1, <4>2 DEF Pending
    <3>3. CASE d = c
      BY <1>2, <1>3, <1>5, <3>2, <3>3
    <3>4. CASE e = c
      BY <1>2, <1>3, <1>5, <3>2, <3>4
    <3>5. QED
      BY <3>1, <3>3, <3>4
  <2>4. QED
    BY <1>1, <2>2, <2>3 DEF TicksAreOwned
<1>7. OneCompletes'
  <2>1. OneCompletes /\ TicksAreOwned
    BY DEF AscentsInv
  <2>2. Completing(c)' =>
          /\ \A i \in TicksOn(x.route) \ {x.tick} : ~Completes(ascents[i].type)
          /\ \A d \in Climbs \ {c} : Completing(d) => climb[d].route # x.route
    <3> SUFFICES ASSUME Completing(c)'
                 PROVE  /\ \A i \in TicksOn(x.route) \ {x.tick} : ~Completes(ascents[i].type)
                        /\ \A d \in Climbs \ {c} : Completing(d) => climb[d].route # x.route
      OBVIOUS
    <3>1. /\ \A i \in TicksOn(x.route) \ {x.tick} : ~Completes(ascents[i].type)
          /\ \A d \in Climbs :
                Writing(d) /\ climb[d].route = x.route /\ climb[d].tick # x.tick
                   => ~Completes(climb[d].type)
      BY <1>1, <1>5 DEF IndexAdmits
    <3>2. ASSUME NEW d \in Climbs \ {c}, Completing(d)
          PROVE  climb[d].route # x.route
      <4>1. Writing(d) /\ Busy(d) /\ Completes(climb[d].type)
        BY <3>2 DEF Completing, Writing, Busy
      <4>2. climb[d].tick # x.tick
        <5>1. Writing(d)' /\ Busy(d)' /\ climb'[d].tick = climb[d].tick
          BY <1>3, <1>5, <4>1
        <5>2. QED
          BY <1>2, <1>3, <1>5, <1>6, <5>1 DEF TicksAreOwned
      <4>3. QED
        BY <3>1, <4>1, <4>2
    <3>3. QED
      BY <3>1, <3>2
  <2>3. \A d \in Climbs : d # c /\ Completing(d)' => Completing(d) /\ climb'[d] = climb[d]
    BY <1>3, <1>5
  <2>4. \A d \in Climbs : climb'[d].route = climb[d].route /\ climb'[d].tick = climb[d].tick
    BY <1>2, <1>3
  <2>5. \A d \in Climbs : Completing(d)' =>
          /\ \A i \in TicksOn(climb'[d].route) \ {climb'[d].tick} : ~Completes(ascents[i].type)
          /\ \A e \in Climbs \ {d} : Completing(e)' => climb'[e].route # climb'[d].route
    <3> SUFFICES ASSUME NEW d \in Climbs, Completing(d)'
                 PROVE  /\ \A i \in TicksOn(climb[d].route) \ {climb[d].tick} :
                              ~Completes(ascents[i].type)
                        /\ \A e \in Climbs \ {d} : Completing(e)' => climb[e].route # climb[d].route
      BY <2>4
    <3>1. CASE d = c
      BY <2>2, <2>3, <3>1
    <3>2. CASE d # c
      BY <2>1, <2>2, <2>3, <3>2 DEF OneCompletes
    <3>3. QED
      BY <3>1, <3>2
  <2>6. \A i, j \in DOMAIN ascents :
          /\ ascents[i].route = ascents[j].route
          /\ Completes(ascents[i].type) /\ Completes(ascents[j].type)
          => i = j
    BY <2>1 DEF OneCompletes
  <2>7. QED
    BY <1>1, <1>4, <2>5, <2>6 DEF OneCompletes
<1>8. LooksStand'
  <2>1. LooksStand
    BY DEF AscentsInv
  <2>2. \A d \in Climbs : Looked(d)' => d # c /\ Looked(d) /\ climb'[d] = climb[d]
    BY <1>3, <1>5
  <2>3. QED
    BY <1>1, <1>4, <2>1, <2>2 DEF LooksStand
<1>9. QED
  BY <1>4, <1>6, <1>7, <1>8 DEF AscentsInv

\* Requests that write no more than before, what they wrote, do not meet either.
LEMMA ApartTheyStay ==
    ASSUME AscentsInv, ascents' = ascents,
           \A d \in Climbs : Busy(d)' =>
              /\ Busy(d)
              /\ Writing(d)' => Writing(d)
              /\ Completing(d)' => Completing(d)
              /\ climb'[d].op = climb[d].op /\ climb'[d].tick = climb[d].tick
              /\ climb'[d].route = climb[d].route
    PROVE  TicksAreOwned' /\ OneCompletes'
<1>1. TicksAreOwned /\ OneCompletes
  BY DEF AscentsInv
<1>2. \A d \in Climbs : /\ Writing(d)' => Busy(d)'
                       /\ Completing(d)' => Busy(d)'
  BY DEF Writing, Busy, Completing
<1>3. \A d \in Climbs : Busy(d)' =>
         /\ climb'[d].op = "insert" => climb'[d].tick \notin DOMAIN ascents
         /\ climb'[d].op # "insert" /\ climb'[d].tick \in DOMAIN ascents =>
               ascents[climb'[d].tick].route = climb'[d].route
         /\ climb'[d].op # "insert" /\ Writing(d)' => climb'[d].tick \in DOMAIN ascents
  BY <1>1 DEF TicksAreOwned
<1>4. \A d, e \in Climbs : d # e /\ Busy(d)' /\ Busy(e)' /\ climb'[d].tick = climb'[e].tick =>
         /\ climb'[d].op # "insert" /\ climb'[e].op # "insert"
         /\ ~(Writing(d)' /\ Writing(e)')
  BY <1>1 DEF TicksAreOwned
<1>5. \A q : TicksOn(q)' = TicksOn(q)
  BY DEF TicksOn
<1>6. \A d \in Climbs : Completing(d)' =>
         /\ \A i \in TicksOn(climb'[d].route) \ {climb'[d].tick} : ~Completes(ascents[i].type)
         /\ \A e \in Climbs \ {d} : Completing(e)' => climb'[e].route # climb'[d].route
  <2> SUFFICES ASSUME NEW d \in Climbs, Completing(d)'
               PROVE  /\ \A i \in TicksOn(climb'[d].route) \ {climb'[d].tick} :
                            ~Completes(ascents[i].type)
                      /\ \A e \in Climbs \ {d} :
                            Completing(e)' => climb'[e].route # climb'[d].route
    OBVIOUS
  <2>1. Completing(d) /\ climb'[d].route = climb[d].route /\ climb'[d].tick = climb[d].tick
    <3>1. Busy(d)'
      BY DEF Completing, Writing, Busy
    <3>2. QED
      BY <3>1
  <2>5. \A e \in Climbs : Completing(e)' => (Completing(e) /\ climb'[e].route = climb[e].route)
    <3> SUFFICES ASSUME NEW e \in Climbs, Completing(e)'
                 PROVE  Completing(e) /\ climb'[e].route = climb[e].route
      OBVIOUS
    <3>1. Busy(e)'
      BY DEF Completing, Writing, Busy
    <3>2. QED
      BY <3>1
  <2>2. \A i \in TicksOn(climb[d].route) \ {climb[d].tick} : ~Completes(ascents[i].type)
    BY <1>1, <2>1 DEF OneCompletes
  <2>3. \A e \in Climbs \ {d} : Completing(e) => climb[e].route # climb[d].route
    BY <1>1, <2>1 DEF OneCompletes
  <2>4. QED
    BY <2>1, <2>2, <2>3, <2>5
<1>7. TicksAreOwned'
  BY <1>3, <1>4 DEF TicksAreOwned
<1>8. OneCompletes'
  BY <1>1, <1>5, <1>6 DEF OneCompletes
<1>9. QED
  BY <1>7, <1>8

\* A request that gives up leaves nothing behind.
LEMMA AbandoningKeeps ==
    ASSUME AscentsInv, NEW c \in Climbs, Abandon(c)
    PROVE  AscentsInv'
<1>1. /\ climb' = [climb EXCEPT ![c] = NoClimb]
      /\ UNCHANGED <<ascents, users, routes, climbed, overlapped>>
  BY DEF Abandon
<1>3. /\ climb' \in [Climbs -> Transactions \cup {NoClimb}]
      /\ climb'[c] = NoClimb /\ \A d \in Climbs \ {c} : climb'[d] = climb[d]
  BY <1>1, ClimbIsTyped
<1>4. /\ AscentsTypeOK' /\ IsFiniteSet(DOMAIN ascents)' /\ IsFiniteSet(RoutesClimbed)'
      /\ CountersMatchRows' /\ \A q : TicksOn(q)' = TicksOn(q)
  <2>1. overlapped' \subseteq Climbable /\ (overlapped' = {} => overlapped = {})
    BY <1>1 DEF AscentsInv, AscentsTypeOK
  <2>2. QED
    BY <1>1, <1>3, <2>1, RowsStay
<1>5. /\ \A d \in Climbs : Busy(d)' => d # c /\ climb'[d] = climb[d] /\ Busy(d)
      /\ \A d \in Climbs : (Looked(d)' => d # c /\ climb'[d] = climb[d] /\ Looked(d))
  BY <1>3 DEF Looked, Busy
<1>6. \A d \in Climbs : Busy(d)' => /\ (Writing(d)' => Writing(d))
                                  /\ (Completing(d)' => Completing(d))
  BY <1>5 DEF Writing, Completing
<1>7. TicksAreOwned' /\ OneCompletes'
  BY <1>1, <1>5, <1>6, ApartTheyStay
<1>8. LooksStand'
  <2>1. LooksStand
    BY DEF AscentsInv
  <2>2. QED
    BY <1>1, <1>4, <1>5, <2>1 DEF LooksStand
<1>9. QED
  BY <1>4, <1>7, <1>8 DEF AscentsInv

\* The look: alone on the route as of now, and a meeting is remembered.
LEMMA LookingKeeps ==
    ASSUME AscentsInv, NEW c \in Climbs, Look(c)
    PROVE  AscentsInv'
<1> DEFINE x == climb[c]
           b == (TicksOn(x.route) \ {x.tick} = {})
           z == [x EXCEPT !.step = "looked"]
           y == [z EXCEPT !.alone = b]
<1>1. /\ x # NoClimb /\ x.step = "written"
      /\ climb' = [climb EXCEPT ![c].step = "looked", ![c].alone = b]
      /\ overlapped' = IF \E d \in Climbs \ {c} : Writing(d) /\ climb[d].op # "update"
                                                   /\ climb[d].route = x.route
                       THEN overlapped \cup {x.route} ELSE overlapped
      /\ UNCHANGED <<ascents, users, routes>>
  BY DEF Look
<1>2. /\ x \in Transactions /\ y \in Transactions /\ NoClimb \notin Transactions
      /\ y.step = "looked" /\ y.op = x.op /\ y.tick = x.tick /\ y.route = x.route
      /\ y.type = x.type /\ y.alone = b
  <2>1. x \in Transactions /\ NoClimb \notin Transactions
    BY <1>1, ClimbIsTyped
  <2>2. z \in Transactions /\ z.step = "looked" /\ z.op = x.op /\ z.tick = x.tick
        /\ z.route = x.route /\ z.type = x.type
    BY <2>1 DEF Transactions
  <2>3. b \in BOOLEAN
    OBVIOUS
  <2> HIDE DEF x, b, z
  <2>4. QED
    BY <2>1, <2>2, <2>3 DEF Transactions
<1>3. /\ climb' \in [Climbs -> Transactions \cup {NoClimb}]
      /\ climb'[c] = y /\ \A d \in Climbs \ {c} : climb'[d] = climb[d]
  <2>1. c \in DOMAIN climb /\ climb \in [Climbs -> Transactions \cup {NoClimb}]
    BY ClimbIsTyped
  <2> HIDE DEF b
  <2>2. climb' = [climb EXCEPT ![c] = y]
    BY <1>1, <2>1
  <2> HIDE DEF y
  <2>3. QED
    BY <1>2, <2>1, <2>2
<1> HIDE DEF y, z
<1>4. /\ AscentsTypeOK' /\ IsFiniteSet(DOMAIN ascents)' /\ IsFiniteSet(RoutesClimbed)'
      /\ CountersMatchRows' /\ \A q : TicksOn(q)' = TicksOn(q)
  <2>1. x.route \in Climbable
    BY <1>2 DEF Transactions
  <2>2. overlapped' \subseteq Climbable /\ (overlapped' = {} => overlapped = {})
    BY <1>1, <2>1 DEF AscentsInv, AscentsTypeOK
  <2>3. QED
    BY <1>1, <1>3, <2>2, RowsStay
<1>5. /\ Busy(c) /\ Writing(c) /\ ~Looked(c) /\ Busy(c)' /\ Writing(c)' /\ Looked(c)'
      /\ \A d \in Climbs : /\ Busy(d)' <=> Busy(d)
                           /\ Writing(d)' <=> Writing(d)
                           /\ Completing(d)' <=> Completing(d)
                           /\ d # c => (Looked(d)' <=> Looked(d))
  BY <1>1, <1>2, <1>3 DEF Writing, Completing, Looked, Busy
<1>6. \A d \in Climbs :
         /\ climb'[d].op = climb[d].op /\ climb'[d].tick = climb[d].tick
         /\ climb'[d].route = climb[d].route
  BY <1>2, <1>3
<1>7. TicksAreOwned' /\ OneCompletes'
  BY <1>1, <1>5, <1>6, ApartTheyStay
<1>9. LooksStand'
  <2> SUFFICES ASSUME overlapped' = {}
               PROVE  /\ \A d \in Climbs : Looked(d)' /\ climb'[d].op # "update" =>
                            (climb'[d].alone <=> TicksOn(climb'[d].route) \ {climb'[d].tick} = {})
                      /\ \A d, e \in Climbs :
                            /\ d # e /\ Looked(d)' /\ Looked(e)'
                            /\ climb'[d].op # "update" /\ climb'[e].op # "update"
                            => climb'[d].route # climb'[e].route
    BY <1>4 DEF LooksStand
  <2>1. /\ overlapped = {}
        /\ \A d \in Climbs \ {c} : Writing(d) /\ climb[d].op # "update" => climb[d].route # x.route
    BY <1>1
  <2>2. LooksStand
    BY DEF AscentsInv
  <2>3. \A d \in Climbs : Looked(d) => Writing(d)
    BY DEF Looked, Writing, Busy
  <2>4. \A d \in Climbs : Looked(d)' /\ climb'[d].op # "update" =>
           (climb'[d].alone <=> TicksOn(climb'[d].route) \ {climb'[d].tick} = {})
    <3> SUFFICES ASSUME NEW d \in Climbs, Looked(d)', climb'[d].op # "update"
                 PROVE  climb'[d].alone <=> TicksOn(climb'[d].route) \ {climb'[d].tick} = {}
      OBVIOUS
    <3>1. CASE d = c
      BY <1>2, <1>3, <3>1
    <3>2. CASE d # c
      BY <1>3, <1>5, <2>1, <2>2, <3>2 DEF LooksStand
    <3>3. QED
      BY <3>1, <3>2
  <2>5. \A d, e \in Climbs :
           /\ d # e /\ Looked(d)' /\ Looked(e)'
           /\ climb'[d].op # "update" /\ climb'[e].op # "update"
           => climb'[d].route # climb'[e].route
    <3> SUFFICES ASSUME NEW d \in Climbs, NEW e \in Climbs, d # e, Looked(d)', Looked(e)',
                        climb[d].op # "update", climb[e].op # "update"
                 PROVE  climb[d].route # climb[e].route
      BY <1>6
    <3>1. CASE d # c /\ e # c
      BY <1>5, <2>1, <2>2, <3>1 DEF LooksStand
    <3>2. CASE d = c
      BY <1>5, <2>1, <2>3, <3>2
    <3>3. CASE e = c
      BY <1>5, <2>1, <2>3, <3>3
    <3>4. QED
      BY <3>1, <3>2, <3>3
  <2>6. QED
    BY <2>4, <2>5
<1>10. QED
  BY <1>4, <1>7, <1>9 DEF AscentsInv

\* What the triggers on routes make of a route's counters: the row's old type counted
\* out, the new one in.
LEMMA RouteIsRecounted ==
    ASSUME NEW n \in [ascents : Nat, attempts : Nat], NEW op \in {"insert", "update", "delete"},
           NEW old, NEW new,
           Indicator(op # "insert" /\ Completes(old)) <= n.ascents,
           Indicator(op # "insert") <= n.attempts
    PROVE  LET m == RouteCounted(n, op, old, new) IN
           /\ m \in [ascents : Nat, attempts : Nat]
           /\ m.ascents = (n.ascents + Indicator(op # "delete" /\ Completes(new)))
                             - Indicator(op # "insert" /\ Completes(old))
           /\ m.attempts = (n.attempts + Indicator(op # "delete")) - Indicator(op # "insert")
<1>1. n.ascents \in Nat /\ n.attempts \in Nat
  OBVIOUS
<1>2. Indicator(Completes(old)) \in {0, 1} /\ Indicator(Completes(new)) \in {0, 1}
  BY IndicatorIsABit
<1>3. Indicator(TRUE) = 1 /\ Indicator(FALSE) = 0
  BY DEF Indicator
<1>4. CASE op = "insert"
  <2>1. RouteCounted(n, op, old, new) = [ascents |-> n.ascents + Indicator(Completes(new)),
                                         attempts |-> n.attempts + 1]
    BY <1>4 DEF RouteCounted
  <2>2. /\ Indicator(op # "insert" /\ Completes(old)) = 0 /\ Indicator(op # "insert") = 0
        /\ Indicator(op # "delete" /\ Completes(new)) = Indicator(Completes(new))
        /\ Indicator(op # "delete") = 1
    BY <1>4 DEF Indicator
  <2>3. QED
    BY <1>1, <1>2, <1>3, <2>1, <2>2
<1>5. CASE op = "delete"
  <2>1. RouteCounted(n, op, old, new) =
           [ascents |-> Lowered(n.ascents, Indicator(Completes(old))),
            attempts |-> Lowered(n.attempts, 1)]
    BY <1>5 DEF RouteCounted
  <2>2. /\ Indicator(op # "insert" /\ Completes(old)) = Indicator(Completes(old))
        /\ Indicator(op # "insert") = 1
        /\ Indicator(op # "delete" /\ Completes(new)) = 0 /\ Indicator(op # "delete") = 0
    BY <1>5 DEF Indicator
  <2>3. /\ Lowered(n.ascents, Indicator(Completes(old))) =
              n.ascents - Indicator(Completes(old))
        /\ Lowered(n.attempts, 1) = n.attempts - 1
    BY <1>1, <1>2, <1>3, <2>2 DEF Lowered
  <2>4. QED
    BY <1>1, <1>2, <1>3, <2>1, <2>2, <2>3
<1>6. CASE op = "update"
  <2>1. RouteCounted(n, op, old, new) =
           [n EXCEPT !.ascents = Moved(@, Indicator(Completes(new)), Indicator(Completes(old)))]
    BY <1>6 DEF RouteCounted
  <2>2. /\ Indicator(op # "insert" /\ Completes(old)) = Indicator(Completes(old))
        /\ Indicator(op # "insert") = 1
        /\ Indicator(op # "delete" /\ Completes(new)) = Indicator(Completes(new))
        /\ Indicator(op # "delete") = 1
    BY <1>6 DEF Indicator
  <2>3. Moved(n.ascents, Indicator(Completes(new)), Indicator(Completes(old))) =
           (n.ascents + Indicator(Completes(new))) - Indicator(Completes(old))
    BY <1>1, <1>2, <2>2 DEF Moved, Lowered
  <2>4. QED
    BY <1>1, <1>2, <1>3, <2>1, <2>2, <2>3
<1>7. QED
  BY <1>4, <1>5, <1>6

\* The same of the users trigger; the distinct routes go by what it has seen.
LEMMA UserIsRecounted ==
    ASSUME NEW u \in [sends : Nat, flashes : Nat, logged : Nat, unique : Nat],
           NEW x \in Transactions, NEW old,
           Indicator(x.op # "insert" /\ Completes(old)) <= u.sends,
           Indicator(x.op # "insert" /\ old = "flash") <= u.flashes,
           Indicator(x.op # "insert") <= u.logged
    PROVE  LET v == UserRecounted(u, x, old) IN
           /\ v \in [sends : Nat, flashes : Nat, logged : Nat, unique : Nat]
           /\ v.sends = (u.sends + Indicator(x.op # "delete" /\ Completes(x.type)))
                           - Indicator(x.op # "insert" /\ Completes(old))
           /\ v.flashes = (u.flashes + Indicator(x.op # "delete" /\ x.type = "flash"))
                             - Indicator(x.op # "insert" /\ old = "flash")
           /\ v.logged = (u.logged + Indicator(x.op # "delete")) - Indicator(x.op # "insert")
           /\ x.op = "insert" => v.unique = u.unique + Indicator(x.alone)
           /\ x.op = "delete" => v.unique = Lowered(u.unique, Indicator(x.alone))
           /\ x.op = "update" => v.unique = u.unique
<1> DEFINE v == UserRecounted(u, x, old)
<1>1. /\ u.sends \in Nat /\ u.flashes \in Nat /\ u.logged \in Nat /\ u.unique \in Nat
      /\ x.op \in {"insert", "update", "delete"}
  BY DEF Transactions
<1>2. /\ Indicator(Completes(old)) \in {0, 1} /\ Indicator(Completes(x.type)) \in {0, 1}
      /\ Indicator(old = "flash") \in {0, 1} /\ Indicator(x.type = "flash") \in {0, 1}
      /\ Indicator(x.alone) \in {0, 1}
  BY IndicatorIsABit
<1>3. Indicator(TRUE) = 1 /\ Indicator(FALSE) = 0
  BY DEF Indicator
<1>4. CASE x.op = "insert"
  <2>1. v = [sends |-> u.sends + Indicator(Completes(x.type)),
             flashes |-> u.flashes + Indicator(x.type = "flash"),
             logged |-> u.logged + 1, unique |-> u.unique + Indicator(x.alone)]
    BY <1>4 DEF Inserted, UserRecounted
  <2>2. /\ Indicator(x.op # "insert" /\ Completes(old)) = 0 /\ Indicator(x.op # "insert") = 0
        /\ Indicator(x.op # "insert" /\ old = "flash") = 0
        /\ Indicator(x.op # "delete" /\ Completes(x.type)) = Indicator(Completes(x.type))
        /\ Indicator(x.op # "delete") = 1
        /\ Indicator(x.op # "delete" /\ x.type = "flash") = Indicator(x.type = "flash")
    BY <1>4 DEF Indicator
  <2>3. QED
    BY <1>1, <1>2, <1>3, <1>4, <2>1, <2>2
<1>5. CASE x.op = "delete"
  <2>1. v = [sends |-> Lowered(u.sends, Indicator(Completes(old))),
             flashes |-> Lowered(u.flashes, Indicator(old = "flash")),
             logged |-> Lowered(u.logged, 1), unique |-> Lowered(u.unique, Indicator(x.alone))]
    BY <1>5 DEF Deleted, UserRecounted
  <2>2. /\ Indicator(x.op # "insert" /\ Completes(old)) = Indicator(Completes(old))
        /\ Indicator(x.op # "insert") = 1
        /\ Indicator(x.op # "insert" /\ old = "flash") = Indicator(old = "flash")
        /\ Indicator(x.op # "delete" /\ Completes(x.type)) = 0 /\ Indicator(x.op # "delete") = 0
        /\ Indicator(x.op # "delete" /\ x.type = "flash") = 0
    BY <1>5 DEF Indicator
  <2>3. /\ Lowered(u.sends, Indicator(Completes(old))) = u.sends - Indicator(Completes(old))
        /\ Lowered(u.flashes, Indicator(old = "flash")) = u.flashes - Indicator(old = "flash")
        /\ Lowered(u.logged, 1) = u.logged - 1
    BY <1>1, <1>2, <1>3, <2>2 DEF Lowered
  <2>4. Lowered(u.unique, Indicator(x.alone)) \in Nat
    BY <1>1, <1>2 DEF Lowered
  <2>5. QED
    BY <1>1, <1>2, <1>3, <1>5, <2>1, <2>2, <2>3, <2>4
<1>6. CASE x.op = "update"
  <2>1. v = [u EXCEPT !.sends = Moved(@, Indicator(Completes(x.type)), Indicator(Completes(old))),
                      !.flashes = Moved(@, Indicator(x.type = "flash"), Indicator(old = "flash"))]
    BY <1>6 DEF Retyped, UserRecounted
  <2>2. /\ Indicator(x.op # "insert" /\ Completes(old)) = Indicator(Completes(old))
        /\ Indicator(x.op # "insert") = 1
        /\ Indicator(x.op # "insert" /\ old = "flash") = Indicator(old = "flash")
        /\ Indicator(x.op # "delete" /\ Completes(x.type)) = Indicator(Completes(x.type))
        /\ Indicator(x.op # "delete") = 1
        /\ Indicator(x.op # "delete" /\ x.type = "flash") = Indicator(x.type = "flash")
    BY <1>6 DEF Indicator
  <2>3. /\ Moved(u.sends, Indicator(Completes(x.type)), Indicator(Completes(old))) =
              (u.sends + Indicator(Completes(x.type))) - Indicator(Completes(old))
        /\ Moved(u.flashes, Indicator(x.type = "flash"), Indicator(old = "flash")) =
              (u.flashes + Indicator(x.type = "flash")) - Indicator(old = "flash")
    BY <1>1, <1>2, <2>2 DEF Moved, Lowered
  <2> DEFINE s == Moved(u.sends, Indicator(Completes(x.type)), Indicator(Completes(old)))
             f == Moved(u.flashes, Indicator(x.type = "flash"), Indicator(old = "flash"))
  <2>4. s \in Nat /\ f \in Nat
    BY <1>1, <1>2 DEF Moved, Lowered
  <2>5. v = [[u EXCEPT !.sends = s] EXCEPT !.flashes = f]
    BY <2>1
  <2> HIDE DEF s, f
  <2>6. /\ v \in [sends : Nat, flashes : Nat, logged : Nat, unique : Nat]
        /\ v.sends = s /\ v.flashes = f /\ v.logged = u.logged /\ v.unique = u.unique
    BY <2>4, <2>5
  <2>7. QED
    BY <1>1, <1>2, <1>3, <1>6, <2>2, <2>3, <2>6 DEF s, f
<1>7. QED
  BY <1>1, <1>4, <1>5, <1>6

\* The rows a request leaves when it commits: its own is as it was written, or gone.
LEMMA CommitRows ==
    ASSUME AscentsInv, NEW c \in Climbs, Commit(c)
    PROVE  LET x == climb[c]
               i == x.tick
           IN  /\ x \in Transactions /\ Looked(c) /\ Writing(c)
               /\ DOMAIN ascents' \ {i} = DOMAIN ascents \ {i}
               /\ \A j \in DOMAIN ascents \ {i} : ascents'[j] = ascents[j]
               /\ i \in DOMAIN ascents <=> x.op # "insert"
               /\ i \in DOMAIN ascents => ascents[i].route = x.route
               /\ i \in DOMAIN ascents' <=> x.op # "delete"
               /\ i \in DOMAIN ascents' => ascents'[i] = [route |-> x.route, type |-> x.type]
<1> DEFINE x == climb[c]
           i == x.tick
           left == DOMAIN ascents \ {i}
<1>1. /\ x # NoClimb /\ x.step = "looked"
      /\ ascents' = [j \in left \cup (IF x.op = "delete" THEN {} ELSE {i}) |->
                        IF j = i THEN [route |-> x.route, type |-> x.type] ELSE ascents[j]]
  BY DEF Commit
<1>2. x \in Transactions /\ Looked(c) /\ Writing(c) /\ Busy(c)
  BY <1>1, ClimbIsTyped DEF Looked, Writing, Busy
<1>3. /\ i \in DOMAIN ascents <=> x.op # "insert"
      /\ i \in DOMAIN ascents => ascents[i].route = x.route
  BY <1>2 DEF AscentsInv, TicksAreOwned
<1> HIDE DEF x
<1>4. /\ DOMAIN ascents' = left \cup (IF x.op = "delete" THEN {} ELSE {i})
      /\ \A j \in DOMAIN ascents' :
            ascents'[j] = IF j = i THEN [route |-> x.route, type |-> x.type] ELSE ascents[j]
  BY <1>1
<1>5. i \notin left
  OBVIOUS
<1>6. QED
  BY <1>2, <1>3, <1>4, <1>5 DEF x

\* What the triggers make of the counters is what a recount gives.
LEMMA CommitCounts ==
    ASSUME AscentsInv, NEW c \in Climbs, Commit(c)
    PROVE  /\ AscentsTypeOK' /\ CountersMatchRows'
           /\ IsFiniteSet(DOMAIN ascents)' /\ IsFiniteSet(RoutesClimbed)'
           /\ \A r : TicksOn(r)' \ {climb[c].tick} = TicksOn(r) \ {climb[c].tick}
           /\ \A r : r # climb[c].route => TicksOn(r)' = TicksOn(r)
<1> DEFINE x == climb[c]
           i == x.tick
           old == IF x.op = "insert" THEN x.type ELSE ascents[i].type
<1>1. /\ x.step = "looked"
      /\ climb' = [climb EXCEPT ![c] = NoClimb]
      /\ users' = CASE x.op = "insert" -> Inserted(users, x)
                    [] x.op = "delete" -> Deleted(users, old, x)
                    [] x.op = "update" -> Retyped(users, old, x.type)
      /\ routes' = [routes EXCEPT ![x.route] = RouteCounted(@, x.op, old, x.type)]
      /\ overlapped' = overlapped
  BY DEF Commit
<1>2. /\ x \in Transactions /\ Looked(c) /\ Writing(c)
      /\ DOMAIN ascents' \ {i} = DOMAIN ascents \ {i}
      /\ \A j \in DOMAIN ascents \ {i} : ascents'[j] = ascents[j]
      /\ i \in DOMAIN ascents <=> x.op # "insert"
      /\ i \in DOMAIN ascents => ascents[i].route = x.route
      /\ i \in DOMAIN ascents' <=> x.op # "delete"
      /\ i \in DOMAIN ascents' => ascents'[i] = [route |-> x.route, type |-> x.type]
  BY CommitRows
<1>3. /\ x.op \in {"insert", "update", "delete"} /\ x.route \in Climbable /\ x.type \in Types
      /\ i \in Ticks
  BY <1>2 DEF Transactions
<1>4. /\ AscentsTypeOK /\ CountersMatchRows /\ LooksStand
      /\ IsFiniteSet(DOMAIN ascents) /\ IsFiniteSet(RoutesClimbed)
  BY DEF AscentsInv
<1>5. i \in DOMAIN ascents => ascents[i].type = old
  BY <1>2
<1>6. i \in DOMAIN ascents' => ascents'[i].route = x.route /\ ascents'[i].type = x.type
  BY <1>2
<1> DEFINE wasThere == x.op # "insert"
           isThere == x.op # "delete"
<1>7. \A P : /\ OfType(DOMAIN ascents, P)' \ {i} = OfType(DOMAIN ascents, P) \ {i}
             /\ i \in OfType(DOMAIN ascents, P) <=> wasThere /\ old \in P
             /\ i \in OfType(DOMAIN ascents, P)' <=> isThere /\ x.type \in P
  BY <1>2, <1>5, <1>6 DEF OfType
<1>8. \A r : /\ TicksOn(r)' \ {i} = TicksOn(r) \ {i}
             /\ i \in TicksOn(r) <=> wasThere /\ r = x.route
             /\ i \in TicksOn(r)' <=> isThere /\ r = x.route
  BY <1>2, <1>6 DEF TicksOn
<1>9. \A r, P : /\ OfType(TicksOn(r), P)' \ {i} = OfType(TicksOn(r), P) \ {i}
                /\ i \in OfType(TicksOn(r), P) <=> wasThere /\ r = x.route /\ old \in P
                /\ i \in OfType(TicksOn(r), P)' <=> isThere /\ r = x.route /\ x.type \in P
  <2> SUFFICES ASSUME NEW r, NEW P
               PROVE  /\ OfType(TicksOn(r), P)' \ {i} = OfType(TicksOn(r), P) \ {i}
                      /\ i \in OfType(TicksOn(r), P) <=> wasThere /\ r = x.route /\ old \in P
                      /\ i \in OfType(TicksOn(r), P)' <=> isThere /\ r = x.route /\ x.type \in P
    OBVIOUS
  <2>1. \A j \in TicksOn(r) \ {i} : ascents'[j] = ascents[j]
    BY <1>2 DEF TicksOn
  <2>2. OfType(TicksOn(r), P)' \ {i} = OfType(TicksOn(r), P) \ {i}
    BY <1>8, <2>1 DEF OfType
  <2>3. i \in OfType(TicksOn(r), P) <=> wasThere /\ r = x.route /\ old \in P
    BY <1>2, <1>5, <1>8 DEF OfType
  <2>4. i \in OfType(TicksOn(r), P)' <=> isThere /\ r = x.route /\ x.type \in P
    BY <1>2, <1>6, <1>8 DEF OfType
  <2>5. QED
    BY <2>2, <2>3, <2>4
<1>10. /\ RoutesClimbed' \ {x.route} = RoutesClimbed \ {x.route}
       /\ \A r : r \in RoutesClimbed <=> TicksOn(r) # {}
       /\ \A r : r \in RoutesClimbed' <=> TicksOn(r)' # {}
  <2>1. RoutesClimbed' \ {x.route} = RoutesClimbed \ {x.route}
    <3>1. ASSUME NEW r, r # x.route
          PROVE  r \in RoutesClimbed' <=> r \in RoutesClimbed
      <4>1. r \in RoutesClimbed <=> \E j \in DOMAIN ascents : ascents[j].route = r
        BY DEF RoutesClimbed
      <4>2. r \in RoutesClimbed' <=> \E j \in DOMAIN ascents' : ascents'[j].route = r
        BY DEF RoutesClimbed
      <4>3. QED
        BY <1>2, <1>6, <3>1, <4>1, <4>2
    <3>2. QED
      BY <3>1
  <2>2. \A r : r \in RoutesClimbed <=> TicksOn(r) # {}
    BY DEF RoutesClimbed, TicksOn
  <2>3. \A r : r \in RoutesClimbed' <=> TicksOn(r)' # {}
    BY DEF RoutesClimbed, TicksOn
  <2>4. QED
    BY <2>1, <2>2, <2>3
<1> DEFINE completes == {"send", "flash"}
           N(S) == Cardinality(S)
<1>11. /\ \A t : t \in completes <=> Completes(t)
       /\ \A t : t \in {"flash"} <=> t = "flash"
  BY DEF Completes
<1>12. \A S, T : IsFiniteSet(S) /\ T \ {i} = S \ {i} =>
          /\ IsFiniteSet(T) /\ N(S) \in Nat /\ N(T) \in Nat
          /\ Indicator(i \in S) <= N(S)
          /\ N(T) = (N(S) + Indicator(i \in T)) - Indicator(i \in S)
  BY OneApart
<1>13. /\ \A P : IsFiniteSet(OfType(DOMAIN ascents, P))
       /\ \A r : IsFiniteSet(TicksOn(r))
       /\ \A r, P : IsFiniteSet(OfType(TicksOn(r), P))
  <2>1. \A P : OfType(DOMAIN ascents, P) \subseteq DOMAIN ascents
    BY DEF OfType
  <2>2. \A r : TicksOn(r) \subseteq DOMAIN ascents
    BY DEF TicksOn
  <2>3. \A r, P : OfType(TicksOn(r), P) \subseteq DOMAIN ascents
    BY <2>2 DEF OfType
  <2>4. QED
    BY <1>4, <2>1, <2>2, <2>3, FS_Subset
<1>14. IsFiniteSet(DOMAIN ascents)' /\ IsFiniteSet(RoutesClimbed)'
  <2>1. IsFiniteSet(DOMAIN ascents')
    BY <1>2, <1>4, <1>12
  <2>2. IsFiniteSet(RoutesClimbed')
    BY <1>4, <1>10, OneApart
  <2>3. QED
    BY <2>1, <2>2
<1> HIDE DEF x, i, old, N
<1>15. /\ Indicator(wasThere /\ Completes(old)) <= users.sends
       /\ users.sends \in Nat
       /\ N(OfType(DOMAIN ascents, completes)') =
             (users.sends + Indicator(isThere /\ Completes(x.type)))
                - Indicator(wasThere /\ Completes(old))
  <2> DEFINE S == OfType(DOMAIN ascents, completes)
             T == OfType(DOMAIN ascents, completes)'
  <2>1. IsFiniteSet(S) /\ T \ {i} = S \ {i}
    BY <1>7, <1>13
  <2>2. /\ (i \in S) = (wasThere /\ Completes(old))
        /\ (i \in T) = (isThere /\ Completes(x.type))
    BY <1>7, <1>11
  <2>3. users.sends = N(S)
    BY <1>4 DEF CountersMatchRows, HowMany, N
  <2> HIDE DEF S, T
  <2>4. /\ N(S) \in Nat /\ Indicator(i \in S) <= N(S)
        /\ N(T) = (N(S) + Indicator(i \in T)) - Indicator(i \in S)
    BY <1>12, <2>1
  <2>5. QED
    BY <2>2, <2>3, <2>4 DEF T
<1>16. /\ Indicator(wasThere /\ old = "flash") <= users.flashes
       /\ users.flashes \in Nat
       /\ N(OfType(DOMAIN ascents, {"flash"})') =
             (users.flashes + Indicator(isThere /\ x.type = "flash"))
                - Indicator(wasThere /\ old = "flash")
  <2> DEFINE S == OfType(DOMAIN ascents, {"flash"})
             T == OfType(DOMAIN ascents, {"flash"})'
  <2>1. IsFiniteSet(S) /\ T \ {i} = S \ {i}
    BY <1>7, <1>13
  <2>2. /\ (i \in S) = (wasThere /\ old = "flash")
        /\ (i \in T) = (isThere /\ x.type = "flash")
    BY <1>7, <1>11
  <2>3. users.flashes = N(S)
    BY <1>4 DEF CountersMatchRows, HowMany, N
  <2> HIDE DEF S, T
  <2>4. /\ N(S) \in Nat /\ Indicator(i \in S) <= N(S)
        /\ N(T) = (N(S) + Indicator(i \in T)) - Indicator(i \in S)
    BY <1>12, <2>1
  <2>5. QED
    BY <2>2, <2>3, <2>4 DEF T
<1>17. /\ Indicator(wasThere) <= users.logged
       /\ users.logged \in Nat
       /\ N(DOMAIN ascents') = (users.logged + Indicator(isThere)) - Indicator(wasThere)
  <2>1. DOMAIN ascents' \ {i} = DOMAIN ascents \ {i}
    BY <1>2 DEF i
  <2>2. /\ (i \in DOMAIN ascents) = wasThere /\ (i \in DOMAIN ascents') = isThere
    BY <1>2 DEF i, x
  <2>3. users.logged = N(DOMAIN ascents)
    BY <1>4 DEF CountersMatchRows, HowMany, N
  <2>4. /\ N(DOMAIN ascents) \in Nat /\ Indicator(i \in DOMAIN ascents) <= N(DOMAIN ascents)
        /\ N(DOMAIN ascents') = (N(DOMAIN ascents) + Indicator(i \in DOMAIN ascents'))
                                   - Indicator(i \in DOMAIN ascents)
    BY <1>4, <1>12, <2>1
  <2>5. QED
    BY <2>2, <2>3, <2>4
<1>18. /\ users' \in [sends : Nat, flashes : Nat, logged : Nat, unique : Nat]
       /\ users'.sends = N(OfType(DOMAIN ascents, completes)')
       /\ users'.flashes = N(OfType(DOMAIN ascents, {"flash"})')
       /\ users'.logged = N(DOMAIN ascents')
       /\ x.op = "insert" => users'.unique = users.unique + Indicator(x.alone)
       /\ x.op = "delete" => users'.unique = Lowered(users.unique, Indicator(x.alone))
       /\ x.op = "update" => users'.unique = users.unique
  <2>1. users \in [sends : Nat, flashes : Nat, logged : Nat, unique : Nat] /\ x \in Transactions
    BY <1>2, <1>4 DEF AscentsTypeOK, x
  <2>2. users' = UserRecounted(users, x, old)
    BY <1>1 DEF x, old, UserRecounted
  <2>3. QED
    BY <1>15, <1>16, <1>17, <2>1, <2>2, UserIsRecounted
<1>19. \A r \in Climbable :
         /\ routes[r] \in [ascents : Nat, attempts : Nat]
         /\ routes[r].ascents = N(OfType(TicksOn(r), completes))
         /\ routes[r].attempts = N(TicksOn(r))
  BY <1>4 DEF AscentsTypeOK, CountersMatchRows, HowMany, N
<1>20. \A r \in Climbable :
         /\ routes'[r] \in [ascents : Nat, attempts : Nat]
         /\ routes'[r].ascents = N(OfType(TicksOn(r), completes)')
         /\ routes'[r].attempts = N(TicksOn(r)')
  <2> SUFFICES ASSUME NEW r \in Climbable
               PROVE  /\ routes'[r] \in [ascents : Nat, attempts : Nat]
                      /\ routes'[r].ascents = N(OfType(TicksOn(r), completes)')
                      /\ routes'[r].attempts = N(TicksOn(r)')
    OBVIOUS
  <2> DEFINE S == TicksOn(r)
             T == TicksOn(r)'
             A == OfType(TicksOn(r), completes)
             B == OfType(TicksOn(r), completes)'
  <2>1. /\ T \ {i} = S \ {i} /\ B \ {i} = A \ {i}
        /\ i \in S <=> wasThere /\ r = x.route
        /\ i \in T <=> isThere /\ r = x.route
        /\ i \in A <=> wasThere /\ r = x.route /\ old \in completes
        /\ i \in B <=> isThere /\ r = x.route /\ x.type \in completes
    BY <1>8, <1>9 DEF x, i, old
  <2>2. IsFiniteSet(S) /\ IsFiniteSet(A)
    BY <1>13
  <2>3. x.route \in Climbable /\ x.op \in {"insert", "update", "delete"}
    BY <1>3 DEF x
  <2>4. routes' = [routes EXCEPT ![x.route] = RouteCounted(@, x.op, old, x.type)]
    BY <1>1 DEF x, old
  <2>5. r \in DOMAIN routes /\ routes = [q \in Climbable |-> routes[q]]
    BY <1>4 DEF AscentsTypeOK
  <2>6. /\ routes[r] \in [ascents : Nat, attempts : Nat]
        /\ routes[r].ascents = N(A) /\ routes[r].attempts = N(S)
    BY <1>19
  <2> HIDE DEF S, T, A, B
  <2>7. CASE r # x.route
    <3>1. S = T /\ A = B
      BY <2>1, <2>7
    <3>2. routes'[r] = routes[r]
      BY <2>4, <2>5, <2>7
    <3>3. QED
      BY <2>6, <3>1, <3>2 DEF T, B
  <2>8. CASE r = x.route
    <3>1. /\ (i \in S) = wasThere /\ (i \in T) = isThere
          /\ (i \in A) = (wasThere /\ Completes(old))
          /\ (i \in B) = (isThere /\ Completes(x.type))
      BY <1>11, <2>1, <2>8
    <3>2. /\ N(S) \in Nat /\ Indicator(i \in S) <= N(S)
          /\ N(T) = (N(S) + Indicator(i \in T)) - Indicator(i \in S)
      BY <1>12, <2>1, <2>2
    <3>3. /\ N(A) \in Nat /\ Indicator(i \in A) <= N(A)
          /\ N(B) = (N(A) + Indicator(i \in B)) - Indicator(i \in A)
      BY <1>12, <2>1, <2>2
    <3>4. /\ Indicator(wasThere) <= routes[r].attempts
          /\ Indicator(wasThere /\ Completes(old)) <= routes[r].ascents
      BY <2>6, <3>1, <3>2, <3>3
    <3>5. routes'[r] = RouteCounted(routes[r], x.op, old, x.type)
      BY <2>4, <2>5, <2>8
    <3>6. /\ routes'[r] \in [ascents : Nat, attempts : Nat]
          /\ routes'[r].ascents = (routes[r].ascents + Indicator(isThere /\ Completes(x.type)))
                                     - Indicator(wasThere /\ Completes(old))
          /\ routes'[r].attempts = (routes[r].attempts + Indicator(isThere)) - Indicator(wasThere)
      BY <2>3, <2>6, <3>4, <3>5, RouteIsRecounted
    <3>7. routes'[r].ascents = N(B) /\ routes'[r].attempts = N(T)
      BY <2>6, <3>1, <3>2, <3>3, <3>6
    <3>8. QED
      BY <3>6, <3>7 DEF T, B
  <2>9. QED
    BY <2>7, <2>8
<1>21. overlapped' = {} => users'.unique = N(RoutesClimbed')
  <2> SUFFICES ASSUME overlapped' = {}
               PROVE  users'.unique = N(RoutesClimbed')
    OBVIOUS
  <2>1. overlapped = {}
    BY <1>1
  <2>2. users.unique = N(RoutesClimbed)
    BY <1>4, <2>1 DEF CountersMatchRows, HowMany, N, RoutesClimbed
  <2>3. PICK q : q = x.route
    OBVIOUS
  <2>4. /\ RoutesClimbed' \ {q} = RoutesClimbed \ {q}
        /\ q \in RoutesClimbed <=> TicksOn(q) # {}
        /\ q \in RoutesClimbed' <=> TicksOn(q)' # {}
    BY <1>10, <2>3 DEF x
  <2>5. /\ TicksOn(q)' \ {i} = TicksOn(q) \ {i}
        /\ i \in TicksOn(q) <=> wasThere
        /\ i \in TicksOn(q)' <=> isThere
    BY <1>8, <2>3 DEF x, i
  <2>6. /\ N(RoutesClimbed) \in Nat
        /\ Indicator(q \in RoutesClimbed) <= N(RoutesClimbed)
        /\ N(RoutesClimbed') = (N(RoutesClimbed) + Indicator(q \in RoutesClimbed'))
                                  - Indicator(q \in RoutesClimbed)
    BY <1>4, <2>4, OneApart DEF N
  <2>7. x.op # "update" => (x.alone <=> TicksOn(q) \ {i} = {})
    BY <1>2, <1>4, <2>1, <2>3 DEF LooksStand, x, i
  <2>8. Indicator(TRUE) = 1 /\ Indicator(FALSE) = 0
    BY DEF Indicator
  <2>9. CASE x.op = "insert"
    <3>1. q \in RoutesClimbed' /\ (q \in RoutesClimbed <=> ~x.alone)
      BY <2>4, <2>5, <2>7, <2>9
    <3>2. N(RoutesClimbed') = N(RoutesClimbed) + Indicator(x.alone)
      <4>1. CASE x.alone
        BY <2>6, <2>8, <3>1, <4>1 DEF Indicator
      <4>2. CASE ~x.alone
        BY <2>6, <2>8, <3>1, <4>2 DEF Indicator
      <4>3. QED
        BY <4>1, <4>2
    <3>3. QED
      BY <1>18, <2>2, <2>9, <3>2
  <2>10. CASE x.op = "delete"
    <3>1. q \in RoutesClimbed /\ (q \in RoutesClimbed' <=> ~x.alone)
      BY <2>4, <2>5, <2>7, <2>10
    <3>2. N(RoutesClimbed') = Lowered(N(RoutesClimbed), Indicator(x.alone))
      <4>1. CASE x.alone
        BY <2>6, <2>8, <3>1, <4>1 DEF Indicator, Lowered
      <4>2. CASE ~x.alone
        BY <2>6, <2>8, <3>1, <4>2 DEF Indicator, Lowered
      <4>3. QED
        BY <4>1, <4>2
    <3>3. QED
      BY <1>18, <2>2, <2>10, <3>2
  <2>11. CASE x.op = "update"
    <3>1. q \in RoutesClimbed /\ q \in RoutesClimbed'
      BY <2>4, <2>5, <2>11
    <3>2. RoutesClimbed' = RoutesClimbed
      BY <2>4, <3>1
    <3>3. QED
      BY <1>18, <2>2, <2>11, <3>2
  <2>12. QED
    BY <1>3, <2>9, <2>10, <2>11 DEF x
<1>22. CountersMatchRows'
  <2>1. RoutesClimbed' = {ascents'[j].route : j \in DOMAIN ascents'}
    BY DEF RoutesClimbed
  <2>2. QED
    BY <1>18, <1>20, <1>21, <2>1 DEF CountersMatchRows, HowMany, N
<1>23. AscentsTypeOK'
  <2>1. \A j \in DOMAIN ascents' : j \in Ticks /\ ascents'[j] \in [route : Climbable, type : Types]
    <3>1. [route |-> x.route, type |-> x.type] \in [route : Climbable, type : Types]
      BY <1>3 DEF x
    <3>2. QED
      BY <1>2, <1>3, <1>4, <3>1 DEF AscentsTypeOK, x, i
  <2>2. climb' \in [Climbs -> Transactions \cup {NoClimb}] /\ overlapped' \subseteq Climbable
    <3>1. /\ climb \in [Climbs -> Transactions \cup {NoClimb}]
          /\ climb' = [climb EXCEPT ![c] = NoClimb]
      BY <1>1, <1>4 DEF AscentsTypeOK
    <3>2. overlapped' \subseteq Climbable
      BY <1>1, <1>4 DEF AscentsTypeOK
    <3>3. QED
      BY <3>1, <3>2
  <2>3. routes' \in [Climbable -> [ascents : Nat, attempts : Nat]]
    <3>1. /\ routes' = [routes EXCEPT ![x.route] = RouteCounted(@, x.op, old, x.type)]
          /\ routes \in [Climbable -> [ascents : Nat, attempts : Nat]]
      BY <1>1, <1>4 DEF x, old, AscentsTypeOK
    <3>2. DOMAIN routes' = Climbable /\ routes' = [r \in Climbable |-> routes'[r]]
      BY <3>1
    <3>3. QED
      BY <1>20, <3>2
  <2>4. QED
    BY <1>18, <2>1, <2>2, <2>3 DEF AscentsTypeOK
<1>24. /\ \A r : TicksOn(r)' \ {climb[c].tick} = TicksOn(r) \ {climb[c].tick}
       /\ \A r : r # climb[c].route => TicksOn(r)' = TicksOn(r)
  <2>1. \A r : r # x.route => i \notin TicksOn(r) /\ i \notin TicksOn(r)'
    BY <1>8 DEF x, i
  <2>2. \A r : TicksOn(r)' \ {i} = TicksOn(r) \ {i}
    BY <1>8 DEF i
  <2>3. QED
    BY <2>1, <2>2 DEF x, i
<1>25. QED
  BY <1>14, <1>22, <1>23, <1>24

\* Who is still under way after a commit is where it was.
LEMMA OthersAfterCommit ==
    ASSUME AscentsInv, NEW c \in Climbs, Commit(c)
    PROVE  /\ overlapped' = overlapped
           /\ ~Busy(c)' /\ ~Writing(c)' /\ ~Looked(c)' /\ ~Completing(c)'
           /\ \A d \in Climbs \ {c} : /\ climb'[d] = climb[d]
                                      /\ Busy(d)' <=> Busy(d)
                                      /\ Writing(d)' <=> Writing(d)
                                      /\ Completing(d)' <=> Completing(d)
                                      /\ Looked(d)' <=> Looked(d)
<1>1. climb' = [climb EXCEPT ![c] = NoClimb] /\ overlapped' = overlapped
  BY DEF Commit
<1>2. climb'[c] = NoClimb /\ \A d \in Climbs \ {c} : climb'[d] = climb[d]
  BY <1>1, ClimbIsTyped
<1>3. QED
  BY <1>1, <1>2 DEF Busy, Writing, Looked, Completing

LEMMA CommitOwns ==
    ASSUME AscentsInv, NEW c \in Climbs, Commit(c)
    PROVE  TicksAreOwned'
<1> DEFINE x == climb[c]
           i == x.tick
<1>1. /\ x \in Transactions /\ Looked(c) /\ Writing(c)
      /\ DOMAIN ascents' \ {i} = DOMAIN ascents \ {i}
      /\ \A j \in DOMAIN ascents \ {i} : ascents'[j] = ascents[j]
      /\ i \in DOMAIN ascents <=> x.op # "insert"
      /\ i \in DOMAIN ascents => ascents[i].route = x.route
      /\ i \in DOMAIN ascents' <=> x.op # "delete"
      /\ i \in DOMAIN ascents' => ascents'[i] = [route |-> x.route, type |-> x.type]
  BY CommitRows
<1>2. /\ ~Busy(c)' /\ ~Writing(c)'
      /\ \A d \in Climbs \ {c} : /\ climb'[d] = climb[d]
                                 /\ Busy(d)' <=> Busy(d)
                                 /\ Writing(d)' <=> Writing(d)
  BY OthersAfterCommit
<1>3. TicksAreOwned /\ Busy(c)
  BY <1>1 DEF AscentsInv, Looked
<1>4. \A d \in Climbs \ {c} : Busy(d) /\ climb[d].tick = i =>
         (climb[d].op # "insert" /\ x.op # "insert" /\ ~Writing(d))
  BY <1>1, <1>3 DEF TicksAreOwned
<1>5. \A d \in Climbs \ {c} : Busy(d) =>
         (/\ climb[d].op = "insert" => climb[d].tick \notin DOMAIN ascents
          /\ climb[d].op # "insert" /\ climb[d].tick \in DOMAIN ascents =>
                ascents[climb[d].tick].route = climb[d].route
          /\ climb[d].op # "insert" /\ Writing(d) => climb[d].tick \in DOMAIN ascents)
  BY <1>3 DEF TicksAreOwned
<1> HIDE DEF x, i
<1>6. \A d \in Climbs \ {c} : Busy(d) =>
         (/\ climb[d].op = "insert" => climb[d].tick \notin DOMAIN ascents'
          /\ climb[d].op # "insert" /\ climb[d].tick \in DOMAIN ascents' =>
                ascents'[climb[d].tick].route = climb[d].route
          /\ climb[d].op # "insert" /\ Writing(d) => climb[d].tick \in DOMAIN ascents')
  <2> SUFFICES ASSUME NEW d \in Climbs \ {c}, Busy(d)
               PROVE  /\ climb[d].op = "insert" => climb[d].tick \notin DOMAIN ascents'
                      /\ climb[d].op # "insert" /\ climb[d].tick \in DOMAIN ascents' =>
                            ascents'[climb[d].tick].route = climb[d].route
                      /\ climb[d].op # "insert" /\ Writing(d) => climb[d].tick \in DOMAIN ascents'
    OBVIOUS
  <2>1. CASE climb[d].tick = i
    <3>1. climb[d].op # "insert" /\ x.op # "insert" /\ ~Writing(d)
      BY <1>4, <2>1
    <3>2. i \in DOMAIN ascents /\ ascents[i].route = x.route /\ ascents[i].route = climb[d].route
      BY <1>1, <1>5, <2>1, <3>1
    <3>3. QED
      BY <1>1, <2>1, <3>1, <3>2
  <2>2. CASE climb[d].tick # i
    BY <1>1, <1>5, <2>2
  <2>3. QED
    BY <2>1, <2>2
<1>7. \A d, e \in Climbs : d # e /\ Busy(d)' /\ Busy(e)' /\ climb'[d].tick = climb'[e].tick =>
         (/\ climb'[d].op # "insert" /\ climb'[e].op # "insert"
          /\ ~(Writing(d)' /\ Writing(e)'))
  <2> SUFFICES ASSUME NEW d \in Climbs, NEW e \in Climbs, d # e, Busy(d)', Busy(e)',
                      climb'[d].tick = climb'[e].tick
               PROVE  /\ climb'[d].op # "insert" /\ climb'[e].op # "insert"
                      /\ ~(Writing(d)' /\ Writing(e)')
    OBVIOUS
  <2>1. d # c /\ e # c
    BY <1>2
  <2>2. QED
    BY <1>2, <1>3, <2>1 DEF TicksAreOwned
<1>8. \A d \in Climbs : Busy(d)' =>
         (/\ climb'[d].op = "insert" => climb'[d].tick \notin DOMAIN ascents'
          /\ climb'[d].op # "insert" /\ climb'[d].tick \in DOMAIN ascents' =>
                ascents'[climb'[d].tick].route = climb'[d].route
          /\ climb'[d].op # "insert" /\ Writing(d)' => climb'[d].tick \in DOMAIN ascents')
  <2> SUFFICES ASSUME NEW d \in Climbs, Busy(d)'
               PROVE  /\ climb'[d].op = "insert" => climb'[d].tick \notin DOMAIN ascents'
                      /\ climb'[d].op # "insert" /\ climb'[d].tick \in DOMAIN ascents' =>
                            ascents'[climb'[d].tick].route = climb'[d].route
                      /\ climb'[d].op # "insert" /\ Writing(d)' =>
                            climb'[d].tick \in DOMAIN ascents'
    OBVIOUS
  <2>1. d # c
    BY <1>2
  <2>2. Busy(d) /\ climb'[d] = climb[d] /\ (Writing(d)' <=> Writing(d))
    BY <1>2, <2>1
  <2>3. QED
    BY <1>6, <2>1, <2>2
<1>9. QED
  BY <1>7, <1>8 DEF TicksAreOwned

LEMMA CommitCompletes ==
    ASSUME AscentsInv, NEW c \in Climbs, Commit(c)
    PROVE  OneCompletes'
<1> DEFINE x == climb[c]
           i == x.tick
<1>1. /\ x \in Transactions /\ Looked(c) /\ Writing(c)
      /\ DOMAIN ascents' \ {i} = DOMAIN ascents \ {i}
      /\ \A j \in DOMAIN ascents \ {i} : ascents'[j] = ascents[j]
      /\ i \in DOMAIN ascents' <=> x.op # "delete"
      /\ i \in DOMAIN ascents' => ascents'[i] = [route |-> x.route, type |-> x.type]
  BY CommitRows
<1>2. /\ ~Completing(c)'
      /\ \A d \in Climbs \ {c} : climb'[d] = climb[d] /\ (Completing(d)' <=> Completing(d))
  BY OthersAfterCommit
<1>3. OneCompletes
  BY DEF AscentsInv
<1>4. i \in DOMAIN ascents' =>
         /\ ascents'[i].route = x.route /\ ascents'[i].type = x.type
         /\ Completes(x.type) => Completing(c)
  BY <1>1 DEF Completing
<1>5. Completing(c) => /\ \A j \in TicksOn(x.route) \ {i} : ~Completes(ascents[j].type)
                       /\ \A d \in Climbs \ {c} : Completing(d) => climb[d].route # x.route
  BY <1>3 DEF OneCompletes
<1> HIDE DEF x, i
<1>6. \A j \in DOMAIN ascents' \ {i} :
         /\ ascents'[j].route = x.route /\ Completes(ascents'[j].type) /\ i \in DOMAIN ascents'
         => ~Completes(ascents'[i].type)
  <2> SUFFICES ASSUME NEW j \in DOMAIN ascents' \ {i}, ascents'[j].route = x.route,
                      Completes(ascents'[j].type), i \in DOMAIN ascents',
                      Completes(ascents'[i].type)
               PROVE  FALSE
    OBVIOUS
  <2>1. Completing(c)
    BY <1>4
  <2>2. j \in TicksOn(x.route) \ {i} /\ Completes(ascents[j].type)
    BY <1>1 DEF TicksOn
  <2>3. QED
    BY <1>5, <2>1, <2>2
<1>7. \A j, k \in DOMAIN ascents' :
         /\ ascents'[j].route = ascents'[k].route
         /\ Completes(ascents'[j].type) /\ Completes(ascents'[k].type)
         => j = k
  <2> SUFFICES ASSUME NEW j \in DOMAIN ascents', NEW k \in DOMAIN ascents', j # k,
                      ascents'[j].route = ascents'[k].route,
                      Completes(ascents'[j].type), Completes(ascents'[k].type)
               PROVE  FALSE
    OBVIOUS
  <2>1. CASE j # i /\ k # i
    <3>1. /\ j \in DOMAIN ascents /\ k \in DOMAIN ascents
          /\ ascents[j] = ascents'[j] /\ ascents[k] = ascents'[k]
      BY <1>1, <2>1
    <3>2. QED
      BY <1>3, <3>1 DEF OneCompletes
  <2>2. CASE j = i
    BY <1>4, <1>6, <2>2
  <2>3. CASE k = i
    BY <1>4, <1>6, <2>3
  <2>4. QED
    BY <2>1, <2>2, <2>3
<1>8. \A d \in Climbs \ {c} : Completing(d) =>
         (\A j \in DOMAIN ascents' \ {climb[d].tick} :
             ascents'[j].route = climb[d].route => ~Completes(ascents'[j].type))
  <2> SUFFICES ASSUME NEW d \in Climbs \ {c}, Completing(d),
                      NEW j \in DOMAIN ascents' \ {climb[d].tick},
                      ascents'[j].route = climb[d].route, Completes(ascents'[j].type)
               PROVE  FALSE
    OBVIOUS
  <2>1. CASE j = i
    <3>1. Completing(c) /\ climb[d].route = x.route
      BY <1>4, <2>1
    <3>2. QED
      BY <1>5, <3>1
  <2>2. CASE j # i
    <3>1. j \in TicksOn(climb[d].route) \ {climb[d].tick} /\ ascents[j] = ascents'[j]
      BY <1>1, <2>2 DEF TicksOn
    <3>2. QED
      BY <1>3, <3>1 DEF OneCompletes
  <2>3. QED
    BY <2>1, <2>2
<1>9. \A d \in Climbs : Completing(d)' =>
         (/\ \A j \in TicksOn(climb[d].route)' \ {climb'[d].tick} : ~Completes(ascents'[j].type)
          /\ \A e \in Climbs \ {d} : Completing(e)' => climb'[e].route # climb'[d].route)
  <2> SUFFICES ASSUME NEW d \in Climbs, Completing(d)'
               PROVE  /\ \A j \in TicksOn(climb[d].route)' \ {climb'[d].tick} :
                            ~Completes(ascents'[j].type)
                      /\ \A e \in Climbs \ {d} : Completing(e)' => climb'[e].route # climb'[d].route
    OBVIOUS
  <2>1. d # c /\ Completing(d) /\ climb'[d] = climb[d]
    BY <1>2
  <2>2. \A e \in Climbs \ {d} : Completing(e)' => climb'[e].route # climb'[d].route
    BY <1>2, <1>3, <2>1 DEF OneCompletes
  <2>3. \A j \in TicksOn(climb[d].route)' \ {climb'[d].tick} : ~Completes(ascents'[j].type)
    <3>1. \A j \in TicksOn(climb[d].route)' :
             j \in DOMAIN ascents' /\ ascents'[j].route = climb'[d].route
      BY DEF TicksOn
    <3>2. QED
      BY <1>8, <2>1, <3>1
  <2>4. QED
    BY <2>2, <2>3
<1>10. QED
  BY <1>7, <1>9 DEF OneCompletes

LEMMA CommitLooks ==
    ASSUME AscentsInv, NEW c \in Climbs, Commit(c)
    PROVE  LooksStand'
<1> DEFINE x == climb[c]
           i == x.tick
<1>1. /\ overlapped' = overlapped /\ ~Looked(c)'
      /\ \A d \in Climbs \ {c} : climb'[d] = climb[d] /\ (Looked(d)' <=> Looked(d))
  BY OthersAfterCommit
<1>2. /\ Looked(c)
      /\ i \in DOMAIN ascents <=> x.op # "insert"
      /\ i \in DOMAIN ascents => ascents[i].route = x.route
      /\ i \in DOMAIN ascents' <=> x.op # "delete"
      /\ i \in DOMAIN ascents' => ascents'[i] = [route |-> x.route, type |-> x.type]
  BY CommitRows
<1>3. /\ \A r : TicksOn(r)' \ {i} = TicksOn(r) \ {i}
      /\ \A r : r # x.route => TicksOn(r)' = TicksOn(r)
  BY CommitCounts
<1>4. LooksStand
  BY DEF AscentsInv
<1>5. x.op = "update" => \A r : TicksOn(r)' = TicksOn(r)
  <2> SUFFICES ASSUME x.op = "update", NEW r, r = x.route
               PROVE  TicksOn(r)' = TicksOn(r)
    BY <1>3
  <2>1. i \in TicksOn(r) /\ i \in TicksOn(r)'
    BY <1>2 DEF TicksOn
  <2>2. TicksOn(r)' \ {i} = TicksOn(r) \ {i}
    BY <1>3
  <2> HIDE DEF i
  <2>3. QED
    BY <2>1, <2>2
<1> SUFFICES ASSUME overlapped' = {}
             PROVE  /\ \A d \in Climbs : Looked(d)' /\ climb'[d].op # "update" =>
                          (climb'[d].alone <=> TicksOn(climb[d].route)' \ {climb'[d].tick} = {})
                    /\ \A d, e \in Climbs :
                          /\ d # e /\ Looked(d)' /\ Looked(e)'
                          /\ climb'[d].op # "update" /\ climb'[e].op # "update"
                          => climb'[d].route # climb'[e].route
  BY DEF LooksStand
<1>6. \A d, e \in Climbs :
         /\ d # e /\ Looked(d)' /\ Looked(e)'
         /\ climb'[d].op # "update" /\ climb'[e].op # "update"
         => climb'[d].route # climb'[e].route
  BY <1>1, <1>4 DEF LooksStand
<1>7. ASSUME NEW d \in Climbs, Looked(d)', climb'[d].op # "update"
      PROVE  climb'[d].alone <=> TicksOn(climb[d].route)' \ {climb'[d].tick} = {}
  <2>1. d # c /\ Looked(d) /\ climb'[d] = climb[d]
    BY <1>1, <1>7
  <2>2. PICK r : r = climb[d].route
    OBVIOUS
  <2>3. overlapped = {} /\ climb[d].op # "update"
    BY <1>1, <1>7, <2>1
  <2>4. climb[d].alone <=> TicksOn(r) \ {climb[d].tick} = {}
    BY <1>4, <2>1, <2>2, <2>3 DEF LooksStand
  <2>5. x.op = "update" \/ r # x.route
    BY <1>2, <1>4, <2>1, <2>2, <2>3 DEF LooksStand
  <2>6. TicksOn(r)' = TicksOn(r)
    BY <1>3, <1>5, <2>5
  <2>7. TicksOn(climb[d].route)' = TicksOn(r)'
    BY <2>1, <2>2 DEF TicksOn
  <2>8. QED
    BY <2>1, <2>4, <2>6, <2>7
<1>8. QED
  BY <1>6, <1>7

LEMMA CommittingKeeps ==
    ASSUME AscentsInv, NEW c \in Climbs, Commit(c)
    PROVE  AscentsInv'
<1>1. /\ AscentsTypeOK' /\ CountersMatchRows'
      /\ IsFiniteSet(DOMAIN ascents)' /\ IsFiniteSet(RoutesClimbed)'
  BY CommitCounts
<1>2. TicksAreOwned' /\ OneCompletes' /\ LooksStand'
  BY CommitOwns, CommitCompletes, CommitLooks
<1>3. QED
  BY <1>1, <1>2 DEF AscentsInv

\* The tick an insertion is given is nobody's.
LEMMA NewTickIsNew ==
    ASSUME HasNewTick
    PROVE  /\ NewTick \in Ticks /\ NewTick \notin DOMAIN ascents
           /\ \A d \in Climbs : Busy(d) => climb[d].tick # NewTick
<1> DEFINE Free(i) == i \notin DOMAIN ascents /\ \A d \in Climbs : climb[d] # NoClimb => climb[d].tick # i
<1>1. \E i \in Ticks : Free(i)
  BY DEF HasNewTick
<1>2. NewTick = CHOOSE i \in Ticks : Free(i)
  BY DEF NewTick
<1>3. NewTick \in Ticks /\ Free(NewTick)
  BY <1>1, <1>2
<1>4. QED
  BY <1>3 DEF Busy

LEMMA AscentsStep == AscentsInv /\ [AscentsNext]_ascentVars => AscentsInv'
<1> SUFFICES ASSUME AscentsInv, [AscentsNext]_ascentVars
             PROVE  AscentsInv'
  OBVIOUS
<1>1. ASSUME UNCHANGED ascentVars
      PROVE  AscentsInv'
  <2>1. UNCHANGED <<ascents, climb, users, routes, overlapped>>
    BY <1>1 DEF ascentVars
  <2>2. \A d \in Climbs : /\ Busy(d)' <=> Busy(d)
                          /\ Writing(d)' <=> Writing(d)
                          /\ Completing(d)' <=> Completing(d)
                          /\ Looked(d)' <=> Looked(d)
    BY <2>1 DEF Busy, Writing, Completing, Looked
  <2>3. /\ AscentsTypeOK' /\ IsFiniteSet(DOMAIN ascents)' /\ IsFiniteSet(RoutesClimbed)'
        /\ CountersMatchRows' /\ \A q : TicksOn(q)' = TicksOn(q)
    <3>1. /\ climb' \in [Climbs -> Transactions \cup {NoClimb}]
          /\ overlapped' \subseteq Climbable
      BY <2>1 DEF AscentsInv, AscentsTypeOK
    <3>2. QED
      BY <2>1, <3>1, RowsStay
  <2>4. TicksAreOwned' /\ OneCompletes'
    BY <2>1, <2>2, ApartTheyStay
  <2>5. LooksStand'
    <3>1. LooksStand
      BY DEF AscentsInv
    <3>2. QED
      BY <2>1, <2>2, <2>3, <3>1 DEF LooksStand
  <2>6. QED
    BY <2>3, <2>4, <2>5 DEF AscentsInv
<1>2. ASSUME NEW c \in Climbs, NEW r \in Climbable, NEW t \in Types, Log(c, r, t)
      PROVE  AscentsInv'
  <2>1. HasNewTick /\ AskFor(c, "insert", NewTick, r, t)
    BY <1>2 DEF Log
  <2>2. /\ NewTick \in Ticks /\ NewTick \notin DOMAIN ascents
        /\ \A d \in Climbs : Busy(d) => climb[d].tick # NewTick
    BY <2>1, NewTickIsNew
  <2>3. QED
    BY <2>1, <2>2, AskingKeeps
<1>3. ASSUME NEW i \in DOMAIN ascents
      PROVE  i \in Ticks /\ ascents[i].route \in Climbable /\ ascents[i].type \in Types
  BY <1>3 DEF AscentsInv, AscentsTypeOK
<1>4. ASSUME NEW c \in Climbs, NEW i \in DOMAIN ascents, NEW t \in Types, UpdateMine(c, i, t)
      PROVE  AscentsInv'
  <2>1. AskFor(c, "update", i, ascents[i].route, t)
    BY <1>4 DEF UpdateMine
  <2>2. QED
    BY <1>3, <2>1, AskingKeeps
<1>5. ASSUME NEW c \in Climbs, NEW i \in DOMAIN ascents, DeleteMine(c, i)
      PROVE  AscentsInv'
  <2>1. AskFor(c, "delete", i, ascents[i].route, ascents[i].type)
    BY <1>5 DEF DeleteMine
  <2>2. QED
    BY <1>3, <2>1, AskingKeeps
<1>6. CASE AscentsNext
  BY <1>2, <1>4, <1>5, <1>6, WritingKeeps, LookingKeeps, CommittingKeeps, AbandoningKeeps
     DEF AscentsNext
<1>7. QED
  BY <1>1, <1>6

\* The index as the property states it.
LEMMA OneCompletesOnce == AscentsInv => OneCompletion
<1> SUFFICES ASSUME AscentsInv, NEW r \in Climbable
             PROVE  HowMany(OfType(TicksOn(r), {"send", "flash"})) <= 1
  BY DEF OneCompletion
<1> DEFINE S == OfType(TicksOn(r), {"send", "flash"})
<1>1. OneCompletes
  BY DEF AscentsInv
<1>2. \A i, j \in S : i = j
  BY <1>1 DEF OneCompletes, OfType, TicksOn, Completes
<1> HIDE DEF S
<1>3. CASE S = {}
  BY <1>3, FS_EmptySet DEF S, HowMany
<1>4. CASE S # {}
  <2>1. PICK i : i \in S
    BY <1>4
  <2>2. S = {i}
    BY <1>2, <2>1
  <2>3. Cardinality(S) = 1
    BY <2>2, FS_Singleton
  <2>4. QED
    BY <2>3 DEF S, HowMany
<1>5. QED
  BY <1>3, <1>4

-----------------------------------------------------------------------------
(* What climbers think of a route: module Ascents. *)

\* The raters are counted, and every rating given is one of the stars.
OpinionsInv ==
    /\ OpinionsTypeOK
    /\ rating_count = Cardinality({u \in Raters : ratings[u] # 0})
    /\ AverageIsNear

\* Rounding is off by half a hundredth at most.
LEMMA RoundedIsNear ==
    ASSUME NEW n \in Int, NEW d \in Nat \ {0}
    PROVE  /\ Rounded(n, d) \in Int
           /\ 2 * (Rounded(n, d) * d) - 2 * n <= d
           /\ 2 * n - 2 * (Rounded(n, d) * d) <= d
<1>1. ASSUME NEW m \in Nat
      PROVE  LET q == (2 * m + d) \div (2 * d)
             IN  /\ q \in Int
                 /\ 2 * (q * d) - 2 * m <= d
                 /\ 2 * m - 2 * (q * d) <= d
  <2> DEFINE a == 2 * m + d
             b == 2 * d
             q == a \div b
  <2>1. a \in Nat /\ b \in Nat /\ b > 0
    OBVIOUS
  <2> HIDE DEF a, b
  <2>2. q \in Int /\ q * b <= a /\ a < q * b + b
    BY <2>1
  <2> HIDE DEF q
  <2>3. q * (2 * d) <= 2 * m + d /\ 2 * m + d < q * (2 * d) + 2 * d
    BY <2>2 DEF a, b
  <2>4. q * (2 * d) = 2 * (q * d) /\ q * d \in Int
    BY <2>2
  <2>5. /\ 2 * (q * d) - 2 * m <= d
        /\ 2 * m - 2 * (q * d) <= d
    BY <2>3, <2>4
  <2>6. QED
    BY <2>2, <2>5 DEF a, b, q
<1>2. CASE n >= 0
  BY <1>1, <1>2 DEF Rounded
<1>3. CASE ~(n >= 0)
  <2> DEFINE q == (2 * (-n) + d) \div (2 * d)
  <2>1. -n \in Nat
    BY <1>3
  <2>2. /\ q \in Int
        /\ 2 * (q * d) - 2 * (-n) <= d
        /\ 2 * (-n) - 2 * (q * d) <= d
    BY <1>1, <2>1
  <2>3. Rounded(n, d) = -q
    BY <1>3 DEF Rounded
  <2> HIDE DEF q
  <2>4. (-q) * d = -(q * d) /\ q * d \in Int
    BY <2>2
  <2>5. QED
    BY <2>2, <2>3, <2>4
<1>4. QED
  BY <1>2, <1>3

\* The distance of two integers.
LEMMA ApartIsDistance ==
    ASSUME NEW a \in Int, NEW b \in Int, NEW k \in Int
    PROVE  2 * Apart(a, b) <= k <=> 2 * a - 2 * b <= k /\ 2 * b - 2 * a <= k
  BY DEF Apart

\* The sum of the stars follows the rating that is given.
LEMMA StarsMove ==
    ASSUME OpinionsTypeOK, NEW u \in Raters, NEW v \in 1 .. 5,
           ratings' = [ratings EXCEPT ![u] = v]
    PROVE  /\ ratings[u] \in 0 .. 5
           /\ StarsGiven \in Int
           /\ StarsGiven' = (StarsGiven + v) - ratings[u]
<1>1. IsFiniteSet(Raters) /\ ratings \in [Raters -> 0 .. 5]
  <2>1. Stars \cup {0} \subseteq 0 .. 5
    BY OpinionsAssumption
  <2>2. ratings \in [Raters -> Stars \cup {0}]
    BY DEF OpinionsTypeOK
  <2>3. QED
    BY <2>1, <2>2, OpinionsAssumption
<1>2. \A w \in 1 .. 5 :
         /\ Givers(w) \in Nat /\ Givers(w)' \in Nat
         /\ Givers(w)' = (Givers(w) + Indicator(v = w)) - Indicator(ratings[u] = w)
  <2> SUFFICES ASSUME NEW w \in 1 .. 5
               PROVE  /\ Givers(w) \in Nat /\ Givers(w)' \in Nat
                      /\ Givers(w)' = (Givers(w) + Indicator(v = w))
                                         - Indicator(ratings[u] = w)
    OBVIOUS
  <2> DEFINE S == {r \in Raters : ratings[r] = w}
             T == {r \in Raters : ratings'[r] = w}
  <2>1. IsFiniteSet(S)
    BY <1>1, FS_Subset
  <2>2. T \ {u} = S \ {u} /\ (u \in S <=> ratings[u] = w) /\ (u \in T <=> v = w)
    BY <1>1
  <2>3. Givers(w) = Cardinality(S) /\ Givers(w)' = Cardinality(T)
    BY DEF Givers
  <2> HIDE DEF S, T
  <2>4. /\ Cardinality(S) \in Nat /\ Cardinality(T) \in Nat
        /\ Cardinality(T) = (Cardinality(S) + Indicator(u \in T)) - Indicator(u \in S)
    BY <2>1, <2>2, OneApart
  <2>5. Indicator(u \in T) = Indicator(v = w) /\ Indicator(u \in S) = Indicator(ratings[u] = w)
    BY <2>2 DEF Indicator
  <2>6. QED
    BY <2>3, <2>4, <2>5
<1>3. ratings[u] \in 0 .. 5
  BY <1>1
<1> DEFINE a1 == Givers(1) a2 == Givers(2) a3 == Givers(3) a4 == Givers(4) a5 == Givers(5)
           b1 == a1' b2 == a2' b3 == a3' b4 == a4' b5 == a5'
           old == ratings[u]
<1>4. /\ a1 \in Nat /\ a2 \in Nat /\ a3 \in Nat /\ a4 \in Nat /\ a5 \in Nat
      /\ b1 \in Nat /\ b2 \in Nat /\ b3 \in Nat /\ b4 \in Nat /\ b5 \in Nat
  BY <1>2
<1>5. /\ b1 = (a1 + (IF v = 1 THEN 1 ELSE 0)) - (IF old = 1 THEN 1 ELSE 0)
      /\ b2 = (a2 + (IF v = 2 THEN 1 ELSE 0)) - (IF old = 2 THEN 1 ELSE 0)
      /\ b3 = (a3 + (IF v = 3 THEN 1 ELSE 0)) - (IF old = 3 THEN 1 ELSE 0)
      /\ b4 = (a4 + (IF v = 4 THEN 1 ELSE 0)) - (IF old = 4 THEN 1 ELSE 0)
      /\ b5 = (a5 + (IF v = 5 THEN 1 ELSE 0)) - (IF old = 5 THEN 1 ELSE 0)
  BY <1>2, <1>4 DEF Indicator
<1>6. /\ StarsGiven = a1 + 2 * a2 + 3 * a3 + 4 * a4 + 5 * a5
      /\ StarsGiven' = b1 + 2 * b2 + 3 * b3 + 4 * b4 + 5 * b5
  BY DEF StarsGiven
<1> HIDE DEF a1, a2, a3, a4, a5, b1, b2, b3, b4, b5, old
<1>7. old \in 0 .. 5
  BY <1>3 DEF old
<1>8. b1 + 2 * b2 + 3 * b3 + 4 * b4 + 5 * b5
         = ((a1 + 2 * a2 + 3 * a3 + 4 * a4 + 5 * a5) + v) - old
  BY <1>4, <1>5, <1>7
<1>9. QED
  BY <1>3, <1>4, <1>6, <1>8 DEF old

LEMMA OpinionsBegin == OpinionsInit => OpinionsInv
<1> SUFFICES ASSUME OpinionsInit
             PROVE  OpinionsInv
  OBVIOUS
<1>1. \A v \in 0 .. 5 : {u \in Raters : ratings[u] = v} = IF v = 0 THEN Raters ELSE {}
  BY DEF OpinionsInit
<1>2. {u \in Raters : ratings[u] # 0} = {}
  BY DEF OpinionsInit
<1>3. Cardinality({}) = 0 /\ Cardinality(Raters) \in Nat
  BY FS_EmptySet, FS_CardinalityType, OpinionsAssumption
<1>4. \A v \in 1 .. 5 : Givers(v) = 0
  BY <1>1, <1>3 DEF Givers
<1>5. StarsGiven = 0
  BY <1>4 DEF StarsGiven
<1>6. AverageIsNear
  BY <1>5, OpinionsAssumption DEF AverageIsNear, Apart, OpinionsInit
<1>7. OpinionsTypeOK
  BY <1>3, OpinionsAssumption DEF OpinionsTypeOK, OpinionsInit, Storable
<1>8. QED
  BY <1>2, <1>3, <1>6, <1>7 DEF OpinionsInv, OpinionsInit

\* A rating is new or changes one there was; either way the average is advanced by
\* what the sum of the stars goes up by.
LEMMA RatingKeepsNear ==
    ASSUME OpinionsInv, NEW u \in Raters, NEW v \in Stars, Rate(u, v)
    PROVE  OpinionsInv'
<1>0. /\ v \in 1 .. 5 /\ IsFiniteSet(Raters) /\ MaxOpinions \in Nat
      /\ Stars \subseteq 1 .. 5
  BY OpinionsAssumption
<1>1. /\ OpinionsTypeOK /\ AverageIsNear
      /\ rating_count = Cardinality({r \in Raters : ratings[r] # 0})
  BY DEF OpinionsInv
<1>2. /\ ratings' = [ratings EXCEPT ![u] = v]
      /\ avg_rating' \in Storable
      /\ opinions < MaxOpinions /\ opinions' = opinions + 1 /\ votes' = votes
      /\ IF ratings[u] = 0
         THEN avg_rating' = AfterInsert(v) /\ rating_count' = rating_count + 1
         ELSE avg_rating' = AfterChange(v, ratings[u]) /\ rating_count' = rating_count
  BY DEF Rate, OneMore, UpsertRating
<1>3. /\ ratings[u] \in 0 .. 5 /\ StarsGiven \in Int
      /\ StarsGiven' = (StarsGiven + v) - ratings[u]
  BY <1>0, <1>1, <1>2, StarsMove
<1>4. /\ avg_rating \in Int /\ rating_count \in Nat /\ opinions \in Nat
      /\ avg_rating' \in Int
  BY <1>0, <1>1, <1>2 DEF OpinionsTypeOK, Storable
<1> DEFINE S == {r \in Raters : ratings[r] # 0}
           T == {r \in Raters : ratings'[r] # 0}
<1>5. T = S \cup {u} /\ IsFiniteSet(S) /\ IsFiniteSet(T)
  <2>1. T = S \cup {u}
    BY <1>0, <1>1, <1>2 DEF OpinionsTypeOK
  <2>2. QED
    BY <1>0, <2>1, FS_Subset
<1>6. Cardinality(T) = IF u \in S THEN rating_count ELSE rating_count + 1
  BY <1>1, <1>5, FS_AddElement
<1>7. ratings[u] # 0 => rating_count >= 1
  <2>1. ratings[u] # 0 => Cardinality(S) # 0
    BY <1>5, FS_EmptySet
  <2>2. QED
    BY <1>1, <1>4, <2>1
<1>8. rating_count' = Cardinality(T) /\ rating_count' \in Nat
  BY <1>2, <1>4, <1>6
<1>9. Cardinality(T) <= Cardinality(Raters) /\ Cardinality(Raters) \in Nat
  BY <1>0, <1>5, FS_Subset, FS_CardinalityType
<1>10. OpinionsTypeOK'
  <2>1. ratings' \in [Raters -> Stars \cup {0}] /\ votes' \in [Raters -> ValidDifficultyVotes \cup {NoVote}]
    BY <1>1, <1>2 DEF OpinionsTypeOK
  <2>2. opinions' \in 0 .. MaxOpinions
    BY <1>0, <1>2, <1>4
  <2>3. rating_count' \in 0 .. Cardinality(Raters)
    BY <1>8, <1>9
  <2>4. QED
    BY <1>2, <2>1, <2>2, <2>3 DEF OpinionsTypeOK, Storable, ValidDifficultyVotes, NoVote
<1> DEFINE product == avg_rating * rating_count
           slack == rating_count * opinions
           sum == StarsGiven
           A == avg_rating' * rating_count'
<1>11. product \in Int /\ slack \in Int /\ A \in Int /\ sum \in Int
  BY <1>3, <1>4, <1>8
<1>12. /\ 2 * product - 2 * (100 * sum) <= slack /\ 2 * (100 * sum) - 2 * product <= slack
  <2>1. 2 * Apart(product, 100 * sum) <= slack
    BY <1>1 DEF AverageIsNear
  <2>2. 100 * sum \in Int
    BY <1>11
  <2> HIDE DEF product, slack, sum
  <2>3. QED
    BY <1>11, <2>1, <2>2, ApartIsDistance
<1>13. \E added \in Int :
          /\ StarsGiven' = sum + added
          /\ 2 * A - 2 * (product + 100 * added) <= rating_count'
          /\ 2 * (product + 100 * added) - 2 * A <= rating_count'
  <2>1. CASE ratings[u] = 0
    <3>1. avg_rating' = Rounded(product + 100 * v, rating_count + 1)
      BY <1>2, <2>1 DEF AfterInsert
    <3>2. rating_count' = rating_count + 1 /\ rating_count + 1 \in Nat \ {0}
      BY <1>2, <1>4, <2>1
    <3>3. product + 100 * v \in Int /\ v \in Int
      BY <1>0, <1>11
    <3>4. StarsGiven' = sum + v
      BY <1>3, <2>1, <3>3
    <3> HIDE DEF product, sum
    <3>5. /\ 2 * A - 2 * (product + 100 * v) <= rating_count'
          /\ 2 * (product + 100 * v) - 2 * A <= rating_count'
      BY <3>1, <3>2, <3>3, RoundedIsNear
    <3>6. QED
      BY <3>3, <3>4, <3>5
  <2>2. CASE ratings[u] # 0
    <3> DEFINE added == v - ratings[u]
    <3>1. avg_rating' = Rounded(product + 100 * added, rating_count)
      BY <1>2, <1>4, <1>7, <2>2 DEF AfterChange
    <3>2. rating_count' = rating_count /\ rating_count \in Nat \ {0}
      BY <1>2, <1>4, <1>7, <2>2
    <3>3. added \in Int
      BY <1>0, <1>3
    <3>4. StarsGiven' = sum + added
      BY <1>0, <1>3
    <3> HIDE DEF product, sum, added
    <3>5. product + 100 * added \in Int
      BY <1>11, <3>3
    <3>6. /\ 2 * A - 2 * (product + 100 * added) <= rating_count'
          /\ 2 * (product + 100 * added) - 2 * A <= rating_count'
      BY <3>1, <3>2, <3>5, RoundedIsNear
    <3>7. QED
      BY <3>3, <3>4, <3>6
  <2>3. QED
    BY <2>1, <2>2
<1>14. PICK added \in Int :
          /\ StarsGiven' = sum + added
          /\ 2 * A - 2 * (product + 100 * added) <= rating_count'
          /\ 2 * (product + 100 * added) - 2 * A <= rating_count'
  BY <1>13
<1>15. slack + rating_count' <= rating_count' * opinions'
  <2>1. rating_count <= rating_count' /\ opinions' = opinions + 1
    BY <1>2, <1>4
  <2>2. rating_count' * (opinions + 1) = rating_count' * opinions + rating_count'
    BY <1>4, <1>8
  <2>3. rating_count * opinions <= rating_count' * opinions
    BY <1>4, <1>8, <2>1
  <2>4. rating_count * opinions \in Int /\ rating_count' * opinions \in Int
    BY <1>4, <1>8
  <2>5. QED
    BY <1>8, <2>1, <2>2, <2>3, <2>4
<1>16. AverageIsNear'
  <2>1. PICK P \in Int, B \in Int, L \in Int, N \in Int, F \in Int, k \in Nat :
           P = product /\ B = A /\ L = slack /\ N = rating_count' * opinions'
           /\ F = StarsGiven' /\ k = rating_count'
    <3>1. rating_count' * opinions' \in Int /\ StarsGiven' \in Int /\ rating_count' \in Nat
      BY <1>2, <1>4, <1>8, <1>11, <1>14
    <3> HIDE DEF product, slack, A
    <3>2. QED
      BY <1>11, <3>1, Zenon
  <2>2. /\ 2 * P - 2 * (100 * sum) <= L /\ 2 * (100 * sum) - 2 * P <= L
        /\ F = sum + added
        /\ 2 * B - 2 * (P + 100 * added) <= k
        /\ 2 * (P + 100 * added) - 2 * B <= k
        /\ L + k <= N
    BY <1>12, <1>14, <1>15, <2>1
  <2>3. sum \in Int /\ added \in Int
    BY <1>11
  <2> HIDE DEF product, slack, sum, A
  <2>4. 2 * B - 2 * (100 * F) <= N /\ 2 * (100 * F) - 2 * B <= N
    BY <2>2, <2>3
  <2>5. 2 * Apart(B, 100 * F) <= N
    BY <2>4, ApartIsDistance
  <2>6. QED
    BY <2>1, <2>5 DEF AverageIsNear, Apart, A
<1>17. QED
  BY <1>8, <1>10, <1>16 DEF OpinionsInv

LEMMA OpinionsStep == OpinionsInv /\ [OpinionsNext]_opinionVars => OpinionsInv'
<1> SUFFICES ASSUME OpinionsInv, [OpinionsNext]_opinionVars
             PROVE  OpinionsInv'
  OBVIOUS
<1>1. ASSUME NEW u \in Raters, NEW v \in Stars, Rate(u, v)
      PROVE  OpinionsInv'
  BY <1>1, RatingKeepsNear
<1>2. ASSUME NEW u \in Raters, NEW vote \in ValidDifficultyVotes, Vote(u, vote)
      PROVE  OpinionsInv'
  <2>1. /\ UNCHANGED <<ratings, avg_rating, rating_count>>
        /\ opinions < MaxOpinions /\ opinions' = opinions + 1
        /\ votes' = [votes EXCEPT ![u] = vote]
    BY <1>2 DEF Vote, OneMore, UpsertVote
  <2>2. /\ opinions \in 0 .. MaxOpinions /\ MaxOpinions \in Nat
        /\ rating_count \in Nat /\ avg_rating \in Int
        /\ votes' \in [Raters -> ValidDifficultyVotes \cup {NoVote}]
    <3>1. votes' \in [Raters -> ValidDifficultyVotes \cup {NoVote}]
      BY <2>1 DEF OpinionsInv, OpinionsTypeOK
    <3>2. QED
      BY <3>1, OpinionsAssumption DEF OpinionsInv, OpinionsTypeOK, Storable
  <2>3. opinions' \in 0 .. MaxOpinions
    BY <2>1, <2>2
  <2>4. OpinionsTypeOK'
    BY <2>1, <2>2, <2>3 DEF OpinionsInv, OpinionsTypeOK, Storable, ValidDifficultyVotes, NoVote
  <2>5. \A v : Givers(v)' = Givers(v)
    BY <2>1 DEF Givers
  <2>6. StarsGiven' = StarsGiven
    BY <2>5 DEF StarsGiven
  <2>7. \A v \in 1 .. 5 : Givers(v) \in Nat
    <3>1. \A v \in 1 .. 5 : IsFiniteSet({r \in Raters : ratings[r] = v})
      BY FS_Subset, OpinionsAssumption
    <3>2. QED
      BY <3>1, FS_CardinalityType DEF Givers
  <2>8. StarsGiven \in Int
    BY <2>7 DEF StarsGiven
  <2> DEFINE product == avg_rating * rating_count
  <2>9. 2 * Apart(product, 100 * StarsGiven) <= rating_count * opinions
    BY DEF OpinionsInv, AverageIsNear
  <2>10. product \in Int /\ 100 * StarsGiven \in Int /\ rating_count * opinions \in Int
    BY <2>2, <2>8
  <2> HIDE DEF product
  <2>11. Apart(product, 100 * StarsGiven) \in Int
    BY <2>10 DEF Apart
  <2>12. rating_count * (opinions + 1) = rating_count * opinions + rating_count
    BY <2>2
  <2>13. rating_count * opinions <= rating_count * (opinions + 1)
    BY <2>2, <2>10, <2>12
  <2>14. rating_count * (opinions + 1) \in Int
    BY <2>2
  <2>15. 2 * Apart(product, 100 * StarsGiven) <= rating_count * (opinions + 1)
    BY <2>9, <2>10, <2>11, <2>13, <2>14
  <2>16. AverageIsNear'
    BY <2>1, <2>6, <2>15 DEF AverageIsNear, Apart, product
  <2>17. QED
    BY <2>1, <2>4, <2>16 DEF OpinionsInv
<1>3. CASE UNCHANGED opinionVars
  BY <1>3 DEF opinionVars, OpinionsInv, OpinionsTypeOK, AverageIsNear, StarsGiven, Givers,
              Apart, Storable, ValidDifficultyVotes, NoVote
<1>4. QED
  BY <1>1, <1>2, <1>3 DEF OpinionsNext

-----------------------------------------------------------------------------
(* The lock protocol of walls and routes: module WallRoutes. *)

\* A request at work has the wall and the route its step needs.
Furnished ==
    \A c \in Clients :
        /\ client[c].pc # "idle" => client[c].wall \in Walls
        /\ client[c].pc \in {"insert", "move"} => client[c].r \in Routes

\* What a locked wall guarantees: it is alive for whom it is locked, and a
\* deletion that has counted still finds nothing in its way that was put there
\* under the lock.
WallsGuarded ==
    \A c \in Clients :
        /\ At(c, "insert") => client[c].wall \notin deleted
        /\ At(c, "delete") => Blocking(client[c].wall) \subseteq unguarded

LockInv == TypeOK /\ Furnished /\ LocksHeld

WallsInv == WallsGuarded /\ NoRouteLeftBehind

USE WallRoutesAssumption

LEMMA LocksBegin == Init => LockInv
  BY DEF Init, LockInv, TypeOK, Furnished, LocksHeld, Idle, At, Exists,
         RouteStatus

\* Every step keeps the types and the locks.
LEMMA LocksStep == LockInv /\ [Next]_vars => LockInv'
<1> SUFFICES ASSUME LockInv, [Next]_vars
             PROVE  LockInv'
  OBVIOUS
<1> USE DEF LockInv, TypeOK, Furnished, LocksHeld, At, Idle, Step, Exists,
            RouteStatus
<1>1. ASSUME NEW c \in Clients, NEW w \in Walls, LockWall(c, w)
      PROVE  LockInv'
  <2>1. TypeOK'
    BY <1>1 DEF LockWall
  <2>2. Furnished'
    BY <1>1 DEF LockWall
  <2>3. LocksHeld'
    <3>1. /\ client' = [client EXCEPT ![c] = [pc |-> "count", wall |-> w, r |-> NoRoute]]
          /\ deleter' = [deleter EXCEPT ![w] = {c}] /\ sharers' = sharers
          /\ client[c].pc = "idle" /\ deleter[w] = {} /\ sharers[w] = {}
      BY <1>1 DEF LockWall
    <3>2. \A v \in Walls : /\ deleter'[v] = {} \/ sharers'[v] = {}
                           /\ \A d, e \in deleter'[v] : d = e
      BY <3>1
    <3>3. /\ client'[c] = [pc |-> "count", wall |-> w, r |-> NoRoute]
          /\ \A d \in Clients \ {c} : client'[d] = client[d]
          /\ deleter'[w] = {c} /\ \A v \in Walls \ {w} : deleter'[v] = deleter[v]
      BY <3>1
    <3>4. ASSUME NEW d \in Clients, NEW v \in Walls
          PROVE  /\ d \in deleter'[v] <=> client'[d].pc \in {"count", "delete"} /\ client'[d].wall = v
                 /\ d \in sharers'[v] <=> client'[d].pc = "insert" /\ client'[d].wall = v
      BY <3>1, <3>3
    <3>5. QED
      BY <3>2, <3>4
  <2>4. QED
    BY <2>1, <2>2, <2>3
<1>2. ASSUME NEW c \in Clients, NEW w \in Walls, NEW r \in Routes,
             LockLiveWall(c, w, r)
      PROVE  LockInv'
  BY <1>2 DEF LockLiveWall
<1>3. ASSUME NEW c \in Clients, NEW w \in Walls, NEW r \in Routes,
             CheckMove(c, w, r)
      PROVE  LockInv'
  BY <1>3 DEF CheckMove
<1>4. ASSUME NEW c \in Clients, InsertRoute(c)
      PROVE  LockInv'
  BY <1>4 DEF InsertRoute
<1>5. ASSUME NEW c \in Clients, NEW st \in {"live", "archived"},
             FinishMove(c, st)
      PROVE  LockInv'
  BY <1>5 DEF FinishMove
<1>6. ASSUME NEW c \in Clients, CountRoutes(c)
      PROVE  LockInv'
  <2> DEFINE w == client[c].wall
  <2>1. /\ At(c, "count") /\ w \in Walls
        /\ UNCHANGED <<deleted, route, sharers, unguarded>>
        /\ \/ /\ client' = [client EXCEPT ![c] = [pc |-> "delete", wall |-> w,
                                                  r |-> NoRoute]]
              /\ UNCHANGED deleter
           \/ /\ deleter' = [deleter EXCEPT ![w] = @ \ {c}]
              /\ client' = [client EXCEPT ![c] = Idle]
    BY <1>6, Zenon DEF CountRoutes, Unlock
  <2>2. CASE /\ client' = [client EXCEPT ![c] = [pc |-> "delete", wall |-> w,
                                                 r |-> NoRoute]]
             /\ UNCHANGED deleter
    <3>1. TypeOK'
      BY <2>1, <2>2
    <3>2. Furnished'
      BY <2>1, <2>2
    <3>3. LocksHeld'
      BY <2>1, <2>2
    <3>4. QED
      BY <3>1, <3>2, <3>3
  <2>3. CASE /\ deleter' = [deleter EXCEPT ![w] = @ \ {c}]
             /\ client' = [client EXCEPT ![c] = Idle]
    <3>1. TypeOK'
      BY <2>1, <2>3
    <3>2. Furnished'
      BY <2>1, <2>3
    <3>3. LocksHeld'
      BY <2>1, <2>3
    <3>4. QED
      BY <3>1, <3>2, <3>3
  <2>4. QED
    BY <2>1, <2>2, <2>3
<1>7. ASSUME NEW c \in Clients, SoftDelete(c)
      PROVE  LockInv'
  BY <1>7 DEF SoftDelete, Unlock
<1>8. ASSUME NEW c \in Clients, Abort(c)
      PROVE  LockInv'
  <2>1. TypeOK'
    BY <1>8 DEF Abort, Unlock
  <2>2. Furnished'
    BY <1>8 DEF Abort, Unlock
  <2>3. LocksHeld'
    BY <1>8 DEF Abort, Unlock
  <2>4. QED
    BY <2>1, <2>2, <2>3
<1>9. ASSUME NEW r \in Routes, ArchiveRoute(r)
      PROVE  LockInv'
  <2>1. TypeOK'
    BY <1>9 DEF ArchiveRoute
  <2>2. Furnished'
    BY <1>9 DEF ArchiveRoute
  <2>3. LocksHeld'
    BY <1>9 DEF ArchiveRoute
  <2>4. QED
    BY <2>1, <2>2, <2>3
<1>10. ASSUME NEW r \in Routes, ReviveRoute(r)
       PROVE  LockInv'
  BY <1>10 DEF ReviveRoute
<1>11. CASE UNCHANGED vars
  BY <1>11 DEF vars
<1> HIDE DEF LockInv
<1>12. QED
  BY <1>1, <1>2, <1>3, <1>4, <1>5, <1>6, <1>7, <1>8, <1>9, <1>10, <1>11
     DEF Next

LEMMA WallsBegin == Init => WallsInv
  BY DEF Init, WallsInv, WallsGuarded, NoRouteLeftBehind, Blocking, OnWall, Idle, At,
         Exists

\* Only LockLiveWall, CountRoutes and SoftDelete can establish a part of
\* WallsGuarded or enlarge "deleted"; only InsertRoute brings a guarded route onto a
\* wall.
LEMMA WallsStep == LockInv /\ WallsInv /\ [Next]_vars => WallsInv'
<1> SUFFICES ASSUME LockInv, WallsInv, [Next]_vars
             PROVE  WallsInv'
  OBVIOUS
<1> USE DEF WallsInv, WallsGuarded, NoRouteLeftBehind, Blocking, OnWall, At, Idle,
            Step, Exists, LockInv, TypeOK, Furnished, LocksHeld, RouteStatus
<1>1. ASSUME NEW c \in Clients, NEW w \in Walls, LockWall(c, w)
      PROVE  WallsInv'
  BY <1>1 DEF LockWall
<1>2. ASSUME NEW c \in Clients, NEW w \in Walls, NEW r \in Routes,
             LockLiveWall(c, w, r)
      PROVE  WallsInv'
  BY <1>2 DEF LockLiveWall
<1>3. ASSUME NEW c \in Clients, InsertRoute(c)
      PROVE  WallsInv'
  \* No request is at "delete" on this wall, which is alive.
  BY <1>3 DEF InsertRoute
<1>4. ASSUME NEW c \in Clients, CountRoutes(c)
      PROVE  WallsInv'
  BY <1>4 DEF CountRoutes, Unlock
<1>5. ASSUME NEW c \in Clients, SoftDelete(c)
      PROVE  WallsInv'
  \* No request is at "insert" on this wall, which has no route in use.
  BY <1>5 DEF SoftDelete, Unlock
<1>6. ASSUME NEW c \in Clients, Abort(c)
      PROVE  WallsInv'
  BY <1>6 DEF Abort, Unlock
<1>7. ASSUME NEW r \in Routes, ArchiveRoute(r)
      PROVE  WallsInv'
  BY <1>7 DEF ArchiveRoute
<1>8. CASE UNCHANGED vars
  BY <1>8 DEF vars
<1>9. ASSUME NEW c \in Clients, NEW w \in Walls, NEW r \in Routes,
             CheckMove(c, w, r)
      PROVE  WallsInv'
  BY <1>9 DEF CheckMove
<1>10. ASSUME NEW c \in Clients, NEW st \in {"live", "archived"},
              FinishMove(c, st)
       PROVE  WallsInv'
  \* The route is unguarded from now on, or was in use on this wall before.
  BY <1>10 DEF FinishMove
<1>11. ASSUME NEW r \in Routes, ReviveRoute(r)
       PROVE  WallsInv'
  BY <1>11 DEF ReviveRoute
<1> HIDE DEF WallsInv, LockInv
<1>12. QED
  BY <1>1, <1>2, <1>3, <1>4, <1>5, <1>6, <1>7, <1>8, <1>9, <1>10, <1>11
     DEF Next

-----------------------------------------------------------------------------
(* Sums over finite sets, by the least counterexample there would be. *)

\* A set of naturals has a least member.
LEMMA NaturalsHaveALeast ==
    ASSUME NEW T, T \subseteq Nat, T # {}
    PROVE  \E n \in T : \A m \in T : n <= m
<1> DEFINE R == {ss \in Nat \X Nat : ss[1] < ss[2]}
<1>1. OpToRel(<, Nat) = R
  BY DEF OpToRel
<1>2. IsWellFoundedOn(R, Nat)
  BY <1>1, NatLessThanWellFounded
<1> HIDE DEF R
<1>3. PICK n \in T : \A m \in T : <<m, n>> \notin R
  BY <1>2, WFMin, Zenon
<1>4. \A m \in T : ~(m < n)
  BY <1>3 DEF R
<1>5. QED
  BY <1>4

\* Induction over the size of a finite set, of a set of its subsets.
LEMMA FiniteInduction ==
    ASSUME NEW S, IsFiniteSet(S), NEW F, {} \in F,
           \A R \in SUBSET S : \A x \in S \ R : R \in F => R \cup {x} \in F
    PROVE  S \in F
<1> DEFINE Left(R) == Cardinality(S \ R)
           T == {Left(R) : R \in F \cap SUBSET S}
<1>1. \A R \in SUBSET S : IsFiniteSet(S \ R) /\ Left(R) \in Nat
  BY FS_Difference, FS_CardinalityType
<1>2. T \subseteq Nat /\ T # {}
  BY <1>1
<1> HIDE DEF T
<1>3. PICK n \in T : \A m \in T : n <= m
  BY <1>2, NaturalsHaveALeast
<1>4. PICK R \in F \cap SUBSET S : n = Left(R)
  BY DEF T
<1>5. ASSUME NEW x \in S \ R
      PROVE  FALSE
  <2>1. R \cup {x} \in F \cap SUBSET S
    BY <1>5
  <2>2. S \ (R \cup {x}) = (S \ R) \ {x}
    OBVIOUS
  <2>3. Left(R \cup {x}) = Left(R) - 1
    <3>1. x \in S \ R /\ IsFiniteSet(S \ R)
      BY <1>1, <1>5
    <3>2. Cardinality((S \ R) \ {x}) = Cardinality(S \ R) - 1
      BY <3>1, FS_RemoveElement
    <3>3. QED
      BY <2>2, <3>2
  <2>4. Left(R \cup {x}) \in T
    BY <2>1 DEF T
  <2>5. Left(R) \in Nat /\ n <= Left(R \cup {x})
    BY <1>1, <1>3, <2>4
  <2>6. QED
    BY <1>4, <2>3, <2>5
<1>6. R = S
  BY <1>5
<1>7. QED
  BY <1>6

\* The function by which a sum over the subsets of S is computed.
Adds(it, f, S) ==
    it = [s \in SUBSET S |-> IF s = {} THEN 0
                             ELSE f[CHOOSE x \in s : TRUE] + it[s \ {CHOOSE x \in s : TRUE}]]

LEMMA SumIsComputed ==
    ASSUME NEW f, NEW S
    PROVE  SumFunctionOnSet(f, S) = (CHOOSE it : Adds(it, f, S))[S]
  BY DEF SumFunctionOnSet, FoldFunctionOnSet, MapThenFoldSet, Adds

LEMMA SumsBegin ==
    ASSUME NEW f, NEW S, NEW it, Adds(it, f, S)
    PROVE  it[{}] = 0
  BY DEF Adds

LEMMA SumsUnfold ==
    ASSUME NEW f, NEW S, NEW it, Adds(it, f, S), NEW s \in SUBSET S
    PROVE  s # {} => LET c == CHOOSE x \in s : TRUE
                     IN  c \in s /\ it[s] = f[c] + it[s \ {c}]
<1>1. it[s] = IF s = {} THEN 0
              ELSE f[CHOOSE x \in s : TRUE] + it[s \ {CHOOSE x \in s : TRUE}]
  BY DEF Adds
<1>2. s # {} => (CHOOSE x \in s : TRUE) \in s
  OBVIOUS
<1>3. QED
  BY <1>1, <1>2

\* Two such functions agree where both are defined.
LEMMA SumsAgree ==
    ASSUME NEW f, NEW g, NEW S, NEW R, R \subseteq S, IsFiniteSet(R),
           \A x \in R : f[x] = g[x],
           NEW it, Adds(it, f, S), NEW jt, Adds(jt, g, R)
    PROVE  it[R] = jt[R]
<1> DEFINE Same(n) == \A s \in SUBSET R : Cardinality(s) = n => it[s] = jt[s]
           T == {n \in Nat : ~Same(n)}
<1>1. \A s \in SUBSET R : IsFiniteSet(s) /\ Cardinality(s) \in Nat
  BY FS_Subset, FS_CardinalityType
<1>2. ASSUME T # {}
      PROVE  FALSE
  <2>1. T \subseteq Nat
    OBVIOUS
  <2> HIDE DEF T
  <2>2. PICK n \in T : \A m \in T : n <= m
    BY <1>2, <2>1, NaturalsHaveALeast
  <2>3. PICK s \in SUBSET R : Cardinality(s) = n /\ it[s] # jt[s]
    BY <2>2 DEF T
  <2>4. s \in SUBSET S
    OBVIOUS
  <2> DEFINE c == CHOOSE x \in s : TRUE
  <2>5. s # {}
    <3>1. it[{}] = 0 /\ jt[{}] = 0
      BY SumsBegin
    <3>2. QED
      BY <2>3, <3>1
  <2>6. /\ c \in s /\ it[s] = f[c] + it[s \ {c}]
        /\ jt[s] = g[c] + jt[s \ {c}]
    <3>1. c \in s /\ it[s] = f[c] + it[s \ {c}]
      BY <2>4, <2>5, SumsUnfold
    <3>2. jt[s] = g[c] + jt[s \ {c}]
      BY <2>5, SumsUnfold
    <3>3. QED
      BY <3>1, <3>2
  <2> HIDE DEF c
  <2>7. Cardinality(s \ {c}) = n - 1 /\ n - 1 \in Nat
    <3>1. Cardinality(s \ {c}) = Cardinality(s) - 1
      BY <1>1, <2>6, FS_RemoveElement
    <3>2. Cardinality(s \ {c}) \in Nat
      BY <1>1
    <3>3. QED
      BY <2>3, <3>1, <3>2
  <2>8. n - 1 \notin T
    BY <2>1, <2>2
  <2>9. it[s \ {c}] = jt[s \ {c}]
    BY <2>7, <2>8 DEF T
  <2>10. QED
    BY <2>3, <2>6, <2>9
<1>3. QED
  BY <1>1, <1>2

\* There is one, for a finite set.
LEMMA SumsExist ==
    ASSUME NEW f, NEW S, IsFiniteSet(S)
    PROVE  Adds(CHOOSE it : Adds(it, f, S), f, S)
<1> DEFINE Small(n) == {s \in SUBSET S : Cardinality(s) <= n}
           Upto(it, n) ==
             it = [s \in Small(n) |-> IF s = {} THEN 0
                     ELSE f[CHOOSE x \in s : TRUE] + it[s \ {CHOOSE x \in s : TRUE}]]
           T == {n \in Nat : ~\E it : Upto(it, n)}
<1>1. \A s \in SUBSET S : IsFiniteSet(s) /\ Cardinality(s) \in Nat
  BY FS_Subset, FS_CardinalityType
<1>2. \A n \in Nat : \A s \in Small(n + 1) : s # {} =>
         s \ {CHOOSE x \in s : TRUE} \in Small(n)
  <2> SUFFICES ASSUME NEW n \in Nat, NEW s \in Small(n + 1), s # {}
               PROVE  s \ {CHOOSE x \in s : TRUE} \in Small(n)
    OBVIOUS
  <2>1. (CHOOSE x \in s : TRUE) \in s
    OBVIOUS
  <2>2. \A x \in s : Cardinality(s \ {x}) = Cardinality(s) - 1
    BY <1>1, FS_RemoveElement
  <2>3. Cardinality(s \ {CHOOSE x \in s : TRUE}) <= n
    <3>1. Cardinality(s) \in Nat /\ Cardinality(s) <= n + 1
      BY <1>1
    <3>2. Cardinality(s \ {CHOOSE x \in s : TRUE}) = Cardinality(s) - 1
      BY <2>1, <2>2, Zenon
    <3> HIDE DEF Small
    <3>3. QED
      BY <3>1, <3>2
  <2>4. QED
    BY <2>3
<1>3. T = {}
  <2>1. SUFFICES ASSUME T # {}
                 PROVE  FALSE
    OBVIOUS
  <2>2. T \subseteq Nat
    OBVIOUS
  <2>3. PICK n \in T : \A m \in T : n <= m
    <3> HIDE DEF T
    <3>1. QED
      BY <2>1, <2>2, NaturalsHaveALeast
  <2>4. ASSUME n = 0
        PROVE  FALSE
    <3> DEFINE it == [s \in Small(0) |-> 0]
    <3>1. \A s \in Small(0) : s = {}
      BY <1>1, FS_EmptySet
    <3>2. Upto(it, 0)
      BY <3>1
    <3>3. QED
      BY <2>3, <2>4, <3>2
  <2>5. ASSUME n # 0
        PROVE  FALSE
    <3>1. n - 1 \in Nat /\ n - 1 \notin T /\ n = (n - 1) + 1
      <4> HIDE DEF T
      <4>1. QED
        BY <2>2, <2>3, <2>5
    <3>2. PICK it : Upto(it, n - 1)
      BY <3>1
    <3> DEFINE jt == [s \in Small(n) |-> IF s = {} THEN 0
                        ELSE f[CHOOSE x \in s : TRUE] + it[s \ {CHOOSE x \in s : TRUE}]]
    <3>3. Small(n - 1) \subseteq Small(n)
      BY <1>1, <3>1
    <3>4. \A s \in Small(n - 1) : jt[s] = it[s]
      BY <3>2, <3>3
    <3>5. \A s \in Small(n) : s # {} => s \ {CHOOSE x \in s : TRUE} \in Small(n - 1)
      BY <1>2, <3>1
    <3>6. \A s \in Small(n) : jt[s] = IF s = {} THEN 0
                        ELSE f[CHOOSE x \in s : TRUE] + jt[s \ {CHOOSE x \in s : TRUE}]
      <4>1. ASSUME NEW s \in Small(n), s # {}
            PROVE  jt[s] = f[CHOOSE x \in s : TRUE] + jt[s \ {CHOOSE x \in s : TRUE}]
        <5>1. jt[s] = f[CHOOSE x \in s : TRUE] + it[s \ {CHOOSE x \in s : TRUE}]
          BY <4>1
        <5> HIDE DEF jt, Small
        <5>2. QED
          BY <3>4, <3>5, <4>1, <5>1
      <4>2. \A s \in Small(n) : s = {} => jt[s] = 0
        OBVIOUS
      <4> HIDE DEF jt, Small
      <4>3. QED
        BY <4>1, <4>2
    <3>7. Upto(jt, n)
      <4>1. DOMAIN jt = Small(n) /\ jt = [s \in Small(n) |-> jt[s]]
        <5> HIDE DEF Small
        <5>1. QED
          OBVIOUS
      <4> HIDE DEF jt, Small
      <4>2. QED
        BY <3>6, <4>1
    <3>8. QED
      BY <2>3, <3>7
  <2>6. QED
    BY <2>4, <2>5
<1>4. PICK it : Upto(it, Cardinality(S))
  BY <1>1, <1>3
<1>5. Small(Cardinality(S)) = SUBSET S
  BY <1>1, FS_Subset
<1>6. Adds(it, f, S)
  BY <1>4, <1>5 DEF Adds
<1>7. QED
  BY <1>6

LEMMA SumOfNone ==
    ASSUME NEW f
    PROVE  SumFunctionOnSet(f, {}) = 0
  BY SumIsComputed, SumsExist, SumsBegin, FS_EmptySet

LEMMA SumTakesOne ==
    ASSUME NEW f, NEW S, IsFiniteSet(S), S # {}
    PROVE  \E c \in S : SumFunctionOnSet(f, S) = f[c] + SumFunctionOnSet(f, S \ {c})
<1> DEFINE it == CHOOSE x : Adds(x, f, S)
           c == CHOOSE x \in S : TRUE
           jt == CHOOSE x : Adds(x, f, S \ {c})
<1>1. Adds(it, f, S) /\ IsFiniteSet(S \ {c})
  BY SumsExist, FS_RemoveElement
<1>2. Adds(jt, f, S \ {c})
  BY <1>1, SumsExist
<1>3. SumFunctionOnSet(f, S) = it[S] /\ SumFunctionOnSet(f, S \ {c}) = jt[S \ {c}]
  BY SumIsComputed
<1> HIDE DEF it, jt
<1>4. c \in S /\ it[S] = f[c] + it[S \ {c}]
  BY <1>1, SumsUnfold
<1>5. it[S \ {c}] = jt[S \ {c}]
  BY <1>1, <1>2, SumsAgree
<1>6. QED
  BY <1>3, <1>4, <1>5

\* A sum depends on what is summed.
LEMMA SumsAreAlike ==
    ASSUME NEW f, NEW g, NEW S, IsFiniteSet(S), \A x \in S : f[x] = g[x]
    PROVE  SumFunctionOnSet(f, S) = SumFunctionOnSet(g, S)
<1>1. Adds(CHOOSE it : Adds(it, f, S), f, S) /\ Adds(CHOOSE it : Adds(it, g, S), g, S)
  BY SumsExist
<1>2. QED
  BY <1>1, SumsAgree, SumIsComputed

\* The order does not matter: any element may be taken out first.
LEMMA SumTakesAny ==
    ASSUME NEW f, NEW S, IsFiniteSet(S), \A x \in S : f[x] \in Int
    PROVE  /\ SumFunctionOnSet(f, S) \in Int
           /\ \A x \in S : SumFunctionOnSet(f, S) = f[x] + SumFunctionOnSet(f, S \ {x})
<1> DEFINE Sum(R) == SumFunctionOnSet(f, R)
           Whichever(R) == Sum(R) \in Int /\ \A x \in R : Sum(R) = f[x] + Sum(R \ {x})
           T == {n \in Nat : \E R \in SUBSET S : Cardinality(R) = n /\ ~Whichever(R)}
<1>1. \A R \in SUBSET S : /\ IsFiniteSet(R) /\ Cardinality(R) \in Nat
                          /\ \A x \in R : Cardinality(R \ {x}) = Cardinality(R) - 1
  BY FS_Subset, FS_CardinalityType, FS_RemoveElement
<1>2. T = {}
  <2>1. SUFFICES ASSUME T # {}
                 PROVE  FALSE
    OBVIOUS
  <2>2. PICK n \in T : \A m \in T : n <= m
    <3>1. T \subseteq Nat
      OBVIOUS
    <3> HIDE DEF T
    <3>2. QED
      BY <2>1, <3>1, NaturalsHaveALeast
  <2>3. PICK R \in SUBSET S : Cardinality(R) = n /\ ~Whichever(R)
    BY <2>2
  <2>4. R # {}
    <3>1. Whichever({})
      BY SumOfNone
    <3> HIDE DEF Whichever
    <3>2. QED
      BY <2>3, <3>1
  <2>5. ASSUME NEW x \in R
        PROVE  Whichever(R \ {x})
    <3>1. Cardinality(R \ {x}) = n - 1 /\ R \ {x} \in SUBSET S
      BY <1>1, <2>3
    <3>2. Cardinality(R \ {x}) \in Nat /\ Cardinality(R \ {x}) \notin T
      <4>1. Cardinality(R \ {x}) \in Nat
        BY <1>1, <3>1
      <4> HIDE DEF T
      <4>2. n \in Nat
        BY <1>1, <2>3
      <4>3. QED
        BY <2>2, <3>1, <4>1, <4>2
    <3>3. QED
      BY <3>1, <3>2
  <2> HIDE DEF T
  <2>6. PICK c \in R : Sum(R) = f[c] + Sum(R \ {c})
    BY <1>1, <2>4, SumTakesOne
  <2>7. f[c] \in Int /\ Sum(R \ {c}) \in Int
    BY <2>5
  <2>8. ASSUME NEW x \in R
        PROVE  Sum(R) = f[x] + Sum(R \ {x})
    <3>1. CASE x = c
      BY <2>6, <3>1
    <3>2. CASE x # c
      <4>1. Sum(R \ {c}) = f[x] + Sum((R \ {c}) \ {x})
        BY <2>5, <3>2
      <4>2. Sum(R \ {x}) = f[c] + Sum((R \ {x}) \ {c}) /\ Sum(R \ {x}) \in Int
        BY <2>5, <3>2
      <4>3. (R \ {x}) \ {c} = (R \ {c}) \ {x}
        OBVIOUS
      <4>4. Sum((R \ {c}) \ {x}) \in Int
        <5>1. Whichever((R \ {c}) \ {x})
          <6>1. (R \ {c}) \ {x} \in SUBSET S /\ IsFiniteSet(R \ {c})
            BY <1>1, FS_RemoveElement
          <6>2. Cardinality((R \ {c}) \ {x}) = n - 2 /\ n - 2 \in Nat
            <7>1. Cardinality(R \ {c}) = n - 1 /\ x \in R \ {c} /\ R \ {c} \in SUBSET S
              BY <1>1, <2>3, <3>2
            <7>2. Cardinality((R \ {c}) \ {x}) = (n - 1) - 1
              BY <1>1, <7>1
            <7>3. n \in Nat /\ Cardinality((R \ {c}) \ {x}) \in Nat
              BY <1>1, <2>3, <6>1
            <7>4. QED
              BY <7>2, <7>3
          <6>3. n - 2 \notin T
            BY <2>2, <6>2, <1>1, <2>3
          <6>4. QED
            BY <6>1, <6>2, <6>3 DEF T
        <5>2. QED
          BY <5>1
      <4>5. f[x] \in Int
        OBVIOUS
      <4>6. Sum((R \ {x}) \ {c}) = Sum((R \ {c}) \ {x})
        BY <4>3
      <4> HIDE DEF Sum
      <4>7. QED
        BY <2>6, <2>7, <4>1, <4>2, <4>4, <4>5, <4>6
    <3>3. QED
      BY <3>1, <3>2
  <2>9. Sum(R) \in Int
    <3> HIDE DEF Sum
    <3>1. QED
      BY <2>6, <2>7
  <2>10. QED
    BY <2>3, <2>8, <2>9
<1>3. Whichever(S)
  BY <1>1, <1>2
<1>4. QED
  BY <1>3

LEMMA SumWithOne ==
    ASSUME NEW R, IsFiniteSet(R), NEW x, x \notin R, NEW f,
           \A y \in R \cup {x} : f[y] \in Int
    PROVE  /\ SumFunctionOnSet(f, R \cup {x}) = f[x] + SumFunctionOnSet(f, R)
           /\ SumFunctionOnSet(f, R) \in Int
<1> DEFINE Q == R \cup {x}
<1>1. IsFiniteSet(Q) /\ Q \ {x} = R /\ x \in Q
  BY FS_AddElement
<1>2. \A y \in Q : f[y] \in Int
  OBVIOUS
<1> HIDE DEF Q
<1>3. SumFunctionOnSet(f, Q) = f[x] + SumFunctionOnSet(f, Q \ {x})
  BY <1>1, <1>2, SumTakesAny
<1>4. SumFunctionOnSet(f, R) \in Int
  BY SumTakesAny
<1>5. QED
  BY <1>1, <1>3, <1>4 DEF Q

\* Adding d to one term adds it to the sum.
LEMMA SumOfChanged ==
    ASSUME NEW S, IsFiniteSet(S), NEW f, NEW g, NEW c \in S,
           \A x \in S : f[x] \in Int /\ g[x] \in Int,
           \A x \in S \ {c} : g[x] = f[x]
    PROVE  SumFunctionOnSet(g, S) = SumFunctionOnSet(f, S) + (g[c] - f[c])
<1>1. IsFiniteSet(S \ {c})
  BY FS_RemoveElement
<1>2. SumFunctionOnSet(f, S \ {c}) = SumFunctionOnSet(g, S \ {c})
  BY <1>1, SumsAreAlike
<1>3. SumFunctionOnSet(f, S) = f[c] + SumFunctionOnSet(f, S \ {c})
  BY SumTakesAny
<1>4. SumFunctionOnSet(g, S) = g[c] + SumFunctionOnSet(g, S \ {c})
  BY SumTakesAny
<1>5. SumFunctionOnSet(f, S \ {c}) \in Int
  BY <1>1, SumTakesAny
<1>6. QED
  BY <1>2, <1>3, <1>4, <1>5

LEMMA SumOfZeros ==
    ASSUME NEW S, IsFiniteSet(S)
    PROVE  SumFunctionOnSet([x \in S |-> 0], S) = 0
<1> DEFINE f == [x \in S |-> 0]
           F == {R \in SUBSET S : SumFunctionOnSet(f, R) = 0}
<1>1. {} \in F
  BY SumOfNone
<1>2. ASSUME NEW R \in SUBSET S, NEW x \in S \ R, R \in F
      PROVE  R \cup {x} \in F
  <2>1. IsFiniteSet(R) /\ x \notin R /\ R \cup {x} \in SUBSET S
    BY FS_Subset
  <2>2. f[x] = 0 /\ \A y \in R \cup {x} : f[y] \in Int
    OBVIOUS
  <2> HIDE DEF f
  <2>3. SumFunctionOnSet(f, R \cup {x}) = f[x] + SumFunctionOnSet(f, R)
    BY <2>1, <2>2, SumWithOne
  <2>4. QED
    BY <1>2, <2>1, <2>2, <2>3
<1>3. S \in F
  <2> HIDE DEF F
  <2>1. QED
    BY <1>1, <1>2, FiniteInduction
<1>4. QED
  BY <1>3

\* Sums by groups add up to the sum of what is in some group.
LEMMA GroupsAddUp ==
    ASSUME NEW T, IsFiniteSet(T), NEW B, IsFiniteSet(B), NEW f, NEW w, \A t \in T : w[t] \in Int
    PROVE  SumFunctionOnSet([b \in B |-> SumFunctionOnSet(w, {t \in T : f[t] = b})], B)
             = SumFunctionOnSet(w, {t \in T : f[t] \in B})
<1> DEFINE Of(R, b) == {t \in R : f[t] = b}
           In(R) == {t \in R : f[t] \in B}
           Sums(R) == [b \in B |-> SumFunctionOnSet(w, Of(R, b))]
           F == {R \in SUBSET T : SumFunctionOnSet(Sums(R), B) = SumFunctionOnSet(w, In(R))}
<1>1. {} \in F
  <2>1. \A b \in B : Of({}, b) = {}
    OBVIOUS
  <2>2. SumFunctionOnSet(w, {}) = 0
    BY SumOfNone
  <2>3. Sums({}) = [b \in B |-> 0]
    BY <2>1, <2>2
  <2>4. SumFunctionOnSet([b \in B |-> 0], B) = 0
    BY SumOfZeros
  <2>5. In({}) = {}
    OBVIOUS
  <2> HIDE DEF Sums, In
  <2>6. QED
    BY <2>2, <2>3, <2>4, <2>5
<1>2. ASSUME NEW R \in SUBSET T, NEW x \in T \ R, R \in F
      PROVE  R \cup {x} \in F
  <2> DEFINE Q == R \cup {x}
  <2>1. /\ IsFiniteSet(R) /\ IsFiniteSet(Q) /\ w[x] \in Int
        /\ \A S \in SUBSET Q : IsFiniteSet(S)
    BY FS_Subset
  <2>2. SumFunctionOnSet(Sums(R), B) = SumFunctionOnSet(w, In(R))
    BY <1>2
  <2>3. \A b \in B : Sums(R)[b] \in Int /\ Sums(Q)[b] \in Int
    <3>1. ASSUME NEW S \in SUBSET Q
          PROVE  SumFunctionOnSet(w, S) \in Int
      BY <2>1, SumTakesAny
    <3>2. \A b \in B : Of(R, b) \in SUBSET Q /\ Of(Q, b) \in SUBSET Q
      OBVIOUS
    <3> HIDE DEF Of
    <3>3. QED
      BY <3>1, <3>2
  <2>4. \A b \in B : b # f[x] => Of(Q, b) = Of(R, b)
    OBVIOUS
  <2>5. CASE f[x] \notin B
    <3>1. Sums(Q) = Sums(R)
      BY <2>4, <2>5
    <3>2. In(Q) = In(R)
      BY <2>5
    <3> HIDE DEF Sums, In
    <3>3. QED
      BY <2>2, <3>1, <3>2
  <2>6. CASE f[x] \in B
    <3> DEFINE c == f[x]
    <3>1. Of(Q, c) = Of(R, c) \cup {x} /\ x \notin Of(R, c) /\ IsFiniteSet(Of(R, c))
          /\ \A y \in Of(R, c) \cup {x} : w[y] \in Int
      BY <2>1
    <3>2. Sums(Q)[c] = w[x] + Sums(R)[c]
      <4>1. SumFunctionOnSet(w, Of(R, c) \cup {x}) = w[x] + SumFunctionOnSet(w, Of(R, c))
        <5> HIDE DEF Of
        <5>1. QED
          BY <3>1, SumWithOne
      <4>2. QED
        BY <2>6, <3>1, <4>1
    <3>3. \A b \in B \ {c} : Sums(Q)[b] = Sums(R)[b]
      BY <2>4
    <3>4. In(Q) = In(R) \cup {x} /\ x \notin In(R) /\ IsFiniteSet(In(R))
          /\ \A y \in In(R) \cup {x} : w[y] \in Int
      BY <2>1, <2>6
    <3>5. /\ SumFunctionOnSet(w, In(R) \cup {x}) = w[x] + SumFunctionOnSet(w, In(R))
          /\ SumFunctionOnSet(w, In(R)) \in Int
      <4> HIDE DEF In
      <4>1. QED
        BY <3>4, SumWithOne
    <3>6. c \in B
      BY <2>6
    <3> HIDE DEF Sums, In, c
    <3>7. SumFunctionOnSet(Sums(Q), B)
            = SumFunctionOnSet(Sums(R), B) + (Sums(Q)[c] - Sums(R)[c])
      <4> HIDE DEF Q
      <4>1. QED
        BY <2>3, <3>3, <3>6, SumOfChanged
    <3>8. SumFunctionOnSet(Sums(Q), B) = SumFunctionOnSet(w, In(Q))
      <4>1. Sums(R)[c] \in Int /\ Sums(Q)[c] \in Int
        BY <2>3, <3>6
      <4>2. In(Q) = In(R) \cup {x}
        BY <3>4
      <4> HIDE DEF Q
      <4>3. QED
        BY <2>1, <2>2, <3>2, <3>5, <3>7, <4>1, <4>2
    <3>9. QED
      BY <3>8
  <2>7. QED
    BY <2>5, <2>6
<1>3. T \in F
  <2> HIDE DEF F
  <2>1. QED
    BY <1>1, <1>2, FiniteInduction
<1>4. QED
  BY <1>3

\* A sum of one number for each.
LEMMA SumOfConstants ==
    ASSUME NEW S, IsFiniteSet(S), NEW c \in Int, NEW w, \A x \in S : w[x] = c
    PROVE  SumFunctionOnSet(w, S) = c * Cardinality(S)
<1> DEFINE F == {R \in SUBSET S : SumFunctionOnSet(w, R) = c * Cardinality(R)}
<1>1. {} \in F
  <2>1. c * 0 = 0
    OBVIOUS
  <2>2. QED
    BY <2>1, SumOfNone, FS_EmptySet
<1>2. ASSUME NEW R \in SUBSET S, NEW x \in S \ R, R \in F
      PROVE  R \cup {x} \in F
  <2>1. IsFiniteSet(R) /\ x \notin R /\ R \cup {x} \in SUBSET S
    BY FS_Subset
  <2>2. SumFunctionOnSet(w, R \cup {x}) = w[x] + SumFunctionOnSet(w, R)
    <3>1. \A y \in R \cup {x} : w[y] \in Int
      OBVIOUS
    <3>2. QED
      BY ONLY <2>1, <3>1, SumWithOne
  <2>3. Cardinality(R \cup {x}) = Cardinality(R) + 1 /\ Cardinality(R) \in Nat
    BY <2>1, FS_AddElement, FS_CardinalityType
  <2>4. SumFunctionOnSet(w, R) = c * Cardinality(R)
    BY <1>2
  <2>5. c * (Cardinality(R) + 1) = c * Cardinality(R) + c
    BY <2>3
  <2>6. SumFunctionOnSet(w, R \cup {x}) = c * Cardinality(R \cup {x})
    <3>1. c * Cardinality(R) \in Int
      BY <2>3
    <3>2. QED
      BY <2>2, <2>3, <2>4, <2>5, <3>1
  <2>7. QED
    BY <2>1, <2>6
<1>3. S \in F
  <2> HIDE DEF F
  <2>1. QED
    BY <1>1, <1>2, FiniteInduction
<1>4. QED
  BY <1>3

\* The sizes of the groups add up to the number of those that are in some group.
LEMMA GroupsCountAll ==
    ASSUME NEW T, IsFiniteSet(T), NEW B, IsFiniteSet(B), NEW f
    PROVE  SumFunctionOnSet([b \in B |-> Cardinality({t \in T : f[t] = b})], B)
             = Cardinality({t \in T : f[t] \in B})
<1> DEFINE w == [t \in T |-> 1]
           Of(b) == {t \in T : f[t] = b}
           In == {t \in T : f[t] \in B}
<1>1. \A S \in SUBSET T : SumFunctionOnSet(w, S) = Cardinality(S)
  <2> SUFFICES ASSUME NEW S \in SUBSET T
               PROVE  SumFunctionOnSet(w, S) = Cardinality(S)
    OBVIOUS
  <2>1. IsFiniteSet(S) /\ \A x \in S : w[x] = 1
    BY FS_Subset
  <2>2. Cardinality(S) \in Nat
    BY <2>1, FS_CardinalityType
  <2> HIDE DEF w
  <2>3. SumFunctionOnSet(w, S) = 1 * Cardinality(S)
    BY <2>1, SumOfConstants
  <2>4. QED
    BY <2>2, <2>3
<1>2. [b \in B |-> SumFunctionOnSet(w, Of(b))] = [b \in B |-> Cardinality(Of(b))]
  <2>1. \A b \in B : Of(b) \in SUBSET T
    OBVIOUS
  <2> HIDE DEF w, Of
  <2>2. QED
    BY <1>1, <2>1
<1>3. SumFunctionOnSet(w, In) = Cardinality(In)
  BY <1>1
<1>4. SumFunctionOnSet([b \in B |-> SumFunctionOnSet(w, Of(b))], B) = SumFunctionOnSet(w, In)
  <2>1. \A t \in T : w[t] \in Int
    OBVIOUS
  <2> HIDE DEF w
  <2>2. QED
    BY <2>1, GroupsAddUp
<1> HIDE DEF w
<1>5. QED
  BY <1>2, <1>3, <1>4

LEMMA LeastOfTwo ==
    ASSUME NEW a \in Int, NEW b \in Int
    PROVE  Min({a, b}) = IF a <= b THEN a ELSE b
<1> DEFINE m == IF a <= b THEN a ELSE b
<1>1. m \in {a, b} /\ \A y \in {a, b} : m <= y
  OBVIOUS
<1>2. \A x \in {a, b} : (\A y \in {a, b} : x <= y) => x = m
  OBVIOUS
<1> HIDE DEF m
<1>3. (CHOOSE x \in {a, b} : \A y \in {a, b} : x <= y) = m
  BY <1>1, <1>2
<1>4. QED
  BY <1>3 DEF Min, m

-----------------------------------------------------------------------------
(* The figures of a gym: module Analytics. *)

\* The rows are of their types.
LEMMA FiguresBegin == FiguresInit => FiguresTypeOK
  BY FiguresAssumption DEF FiguresInit, FiguresTypeOK

LEMMA FiguresStep == FiguresTypeOK /\ [FiguresNext]_figureVars => FiguresTypeOK'
<1> SUFFICES ASSUME FiguresTypeOK, [FiguresNext]_figureVars
             PROVE  FiguresTypeOK'
  OBVIOUS
<1>1. ASSUME NEW t \in Tags, NEW r \in Entered, SetTag(t, r)
      PROVE  FiguresTypeOK'
  BY <1>1, FiguresAssumption DEF FiguresTypeOK, SetTag
<1>2. ASSUME NEW t \in Tags, ArchiveTag(t)
      PROVE  FiguresTypeOK'
  <2>1. shelf[t] \in TagRows
    BY <1>2 DEF FiguresTypeOK, ArchiveTag
  <2>2. [shelf[t] EXCEPT !.status = "archived"] \in TagRows
    BY <2>1 DEF TagRows
  <2>3. shelf' = [shelf EXCEPT ![t] = [shelf[t] EXCEPT !.status = "archived"]]
    BY <1>2 DEF ArchiveTag
  <2>4. shelf' \in [Tags -> TagRows \cup {NoTag}]
    BY <2>2, <2>3 DEF FiguresTypeOK
  <2>5. QED
    BY <1>2, <2>4 DEF FiguresTypeOK, ArchiveTag
<1>3. ASSUME NEW t \in Tags, TagDeleted(t)
      PROVE  FiguresTypeOK'
  <2>1. shelf[t] \in TagRows
    BY <1>3 DEF FiguresTypeOK, TagDeleted
  <2>2. [shelf[t] EXCEPT !.deleted = TRUE] \in TagRows
    BY <2>1 DEF TagRows
  <2>3. shelf' = [shelf EXCEPT ![t] = [shelf[t] EXCEPT !.deleted = TRUE]]
    BY <1>3 DEF TagDeleted
  <2>4. shelf' \in [Tags -> TagRows \cup {NoTag}]
    BY <2>2, <2>3 DEF FiguresTypeOK
  <2>5. QED
    BY <1>3, <2>4 DEF FiguresTypeOK, TagDeleted
<1>4. ASSUME NEW t \in Tags, NEW sent \in BOOLEAN, NEW age \in Ages, Climb(t, sent, age)
      PROVE  FiguresTypeOK'
  <2> DEFINE new == [by |-> Sender, of |-> t, sent |-> sent, age |-> age]
  <2>1. new \in [by : {Sender}, of : Tags, sent : BOOLEAN, age : Ages]
    OBVIOUS
  <2>2. climbs' = Append(climbs, new) /\ Len(climbs) < MaxClimbs /\ UNCHANGED <<shelf, roster, laborLogs>>
    BY <1>4 DEF Climb
  <2> HIDE DEF new
  <2>3. QED
    BY <2>1, <2>2, FiguresAssumption DEF FiguresTypeOK
<1>5. ASSUME NEW s \in Staff, NEW age \in Ages, LaborLogged(s, age)
      PROVE  FiguresTypeOK'
  <2> DEFINE new == [by |-> s, age |-> age, hours |-> 2]
  <2>1. new \in [by : Staff, age : Ages, hours : {2}]
    OBVIOUS
  <2>2. laborLogs' = Append(laborLogs, new) /\ Len(laborLogs) < MaxLogs /\ UNCHANGED <<shelf, roster, climbs>>
    BY <1>5 DEF LaborLogged
  <2> HIDE DEF new
  <2>3. QED
    BY <2>1, <2>2, FiguresAssumption DEF FiguresTypeOK
<1>6. ASSUME NEW s \in Staff, NEW role \in {Unset, "setter", "climber"}, ChangeStaff(s, role)
      PROVE  FiguresTypeOK'
  BY <1>6 DEF FiguresTypeOK, ChangeStaff
<1>7. CASE UNCHANGED figureVars
  BY <1>7 DEF FiguresTypeOK, figureVars
<1>8. QED
  BY <1>1, <1>2, <1>3, <1>4, <1>5, <1>6, <1>7 DEF FiguresNext

\* The routes that hang on some wall.
Up == {t \in Tags : shelf[t] # NoTag /\ Hanging(t)}

\* Two parts that share nothing.
LEMMA PartsAddUp ==
    ASSUME NEW S, IsFiniteSet(S), NEW P, NEW Q, P \subseteq S, Q \subseteq S, P \cap Q = {}
    PROVE  /\ Cardinality(P) + Cardinality(Q) <= Cardinality(S)
           /\ P \cup Q = S => Cardinality(P) + Cardinality(Q) = Cardinality(S)
           /\ Cardinality(P) \in Nat /\ Cardinality(Q) \in Nat /\ Cardinality(S) \in Nat
<1>1. IsFiniteSet(P) /\ IsFiniteSet(Q)
  BY FS_Subset
<1>2. Cardinality(P) \in Nat /\ Cardinality(Q) \in Nat /\ Cardinality(S) \in Nat
  BY <1>1, FS_CardinalityType
<1>3. Cardinality(P \cup Q) = Cardinality(P) + Cardinality(Q)
  <2>1. Cardinality(P \cap Q) = 0
    BY FS_EmptySet
  <2>2. Cardinality(P \cup Q) = Cardinality(P) + Cardinality(Q) - Cardinality(P \cap Q)
    BY <1>1, FS_Union
  <2>3. QED
    BY <1>2, <2>1, <2>2
<1>4. Cardinality(P \cup Q) <= Cardinality(S)
  BY FS_Subset
<1>5. QED
  BY <1>2, <1>3, <1>4

\* The four kinds of route, and the two weeks, are parts of what hangs.
LEMMA DashboardAddsUp ==
    ASSUME FiguresTypeOK
    PROVE  LET d == LocationDashboardStats
           IN  /\ d.kinds[1] + d.kinds[2] + d.kinds[3] + d.kinds[4] = d.activeRoutes
               /\ d.setThisWeek + d.setLastWeek <= d.activeRoutes
<1> DEFINE d == LocationDashboardStats
           Of(k) == {t \in Up : shelf[t].kind = k}
           Big(k) == {t \in Up : shelf[t].kind = k /\ NotKids(t)}
           Small(k) == {t \in Up : shelf[t].kind = k /\ Kids(t)}
           now == {t \in Up : shelf[t].age <= Week}
           before == {t \in Up : shelf[t].age \in Week + 1 .. 2 * Week}
<1>1. /\ d.kinds[1] = Cardinality(Big("boulder")) /\ d.kinds[2] = Cardinality(Small("boulder"))
      /\ d.kinds[3] = Cardinality(Big("route")) /\ d.kinds[4] = Cardinality(Small("route"))
  <2>1. /\ Big("boulder") = {t \in Tags : shelf[t] # NoTag /\ (Hanging(t) /\ shelf[t].kind = "boulder" /\ NotKids(t))}
        /\ Small("boulder") = {t \in Tags : shelf[t] # NoTag /\ (Hanging(t) /\ shelf[t].kind = "boulder" /\ Kids(t))}
        /\ Big("route") = {t \in Tags : shelf[t] # NoTag /\ (Hanging(t) /\ shelf[t].kind = "route" /\ NotKids(t))}
        /\ Small("route") = {t \in Tags : shelf[t] # NoTag /\ (Hanging(t) /\ shelf[t].kind = "route" /\ Kids(t))}
    BY DEF Up
  <2> HIDE DEF Big, Small
  <2>2. QED
    BY <2>1 DEF LocationDashboardStats, Counted
<1>2. /\ d.activeRoutes = Cardinality(Up)
      /\ d.setThisWeek = Cardinality(now) /\ d.setLastWeek = Cardinality(before)
  <2>1. /\ now = {t \in Tags : shelf[t] # NoTag /\ (Hanging(t) /\ shelf[t].age <= Week)}
        /\ before = {t \in Tags : shelf[t] # NoTag /\ (Hanging(t) /\ shelf[t].age \in Week + 1 .. 2 * Week)}
    BY DEF Up
  <2> HIDE DEF now, before
  <2>2. QED
    BY <2>1 DEF LocationDashboardStats, Counted, Up
<1> HIDE DEF d
<1>3. IsFiniteSet(Up) /\ \A t \in Up : shelf[t] \in TagRows
  <2>1. Up \subseteq Tags
    BY DEF Up
  <2>2. IsFiniteSet(Up)
    BY <2>1, FiguresAssumption, FS_Subset
  <2>3. QED
    BY <2>2 DEF Up, FiguresTypeOK
<1>4. \A t \in Up : shelf[t].kind \in {"boulder", "route"} /\ shelf[t].age \in Int
  BY <1>3, FiguresAssumption DEF TagRows
<1>5. ASSUME NEW k
      PROVE  /\ Cardinality(Big(k)) + Cardinality(Small(k)) = Cardinality(Of(k))
             /\ Cardinality(Big(k)) \in Nat /\ Cardinality(Small(k)) \in Nat
  <2>1. Of(k) \subseteq Up
    OBVIOUS
  <2>2. IsFiniteSet(Of(k))
    BY <1>3, <2>1, FS_Subset
  <2>3. Big(k) \cup Small(k) = Of(k) /\ Big(k) \cap Small(k) = {}
    BY DEF NotKids, Kids, Unset
  <2> HIDE DEF Big, Small, Of
  <2>4. Big(k) \subseteq Of(k) /\ Small(k) \subseteq Of(k)
    BY <2>3
  <2>5. QED
    BY <2>2, <2>3, <2>4, PartsAddUp
<1>6. Cardinality(Of("boulder")) + Cardinality(Of("route")) = Cardinality(Up)
  <2>1. Of("boulder") \cup Of("route") = Up /\ Of("boulder") \cap Of("route") = {}
    BY <1>4
  <2> HIDE DEF Of
  <2>2. Of("boulder") \subseteq Up /\ Of("route") \subseteq Up
    BY <2>1
  <2>3. QED
    BY <1>3, <2>1, <2>2, PartsAddUp
<1>7. Cardinality(now) + Cardinality(before) <= Cardinality(Up)
  <2>1. now \subseteq Up /\ before \subseteq Up
    OBVIOUS
  <2>2. now \cap before = {}
    BY <1>4 DEF Week
  <2> HIDE DEF now, before
  <2>3. QED
    BY <1>3, <2>1, <2>2, PartsAddUp
<1> HIDE DEF Big, Small, Of, now, before
<1>8. d.kinds[1] + d.kinds[2] + d.kinds[3] + d.kinds[4] = d.activeRoutes
  BY <1>1, <1>2, <1>5, <1>6
<1>9. d.setThisWeek + d.setLastWeek <= d.activeRoutes
  BY <1>2, <1>7
<1>10. QED
  BY <1>8, <1>9 DEF d

\* Every route that hangs is in one bucket, and the two screens have the same ones.
LEMMA BucketsAddUp ==
    ASSUME FiguresTypeOK
    PROVE  /\ RouteDistribution = GradeDistribution("active")
           /\ Total(GradeDistribution("active")) = Cardinality(Up)
<1> DEFINE B == {Bucket(t) : t \in Up}
           f == [t \in Up |-> Bucket(t)]
           In(b) == {t \in Up : Bucket(t) = b}
<1>1. Up = {t \in Tags : shelf[t] # NoTag /\ shelf[t].status = "active" /\ ~shelf[t].deleted}
  BY DEF Up, Hanging
<1>2. GradeDistribution("active") = [b \in B |-> Cardinality(In(b))]
  BY <1>1 DEF GradeDistribution
<1>3. RouteDistribution = [b \in B |-> Cardinality(In(b))]
  BY DEF RouteDistribution, Up
<1>4. IsFiniteSet(Up)
  <2>1. Up \subseteq Tags
    BY DEF Up
  <2>2. QED
    BY <2>1, FiguresAssumption, FS_Subset
<1>5. IsFiniteSet(B)
  <2>1. f \in Surjection(Up, B)
    BY DEF Surjection
  <2>2. QED
    BY <1>4, <2>1, FS_Surjection
<1>6. \A b \in B : In(b) = {t \in Up : f[t] = b}
  OBVIOUS
<1>7. {t \in Up : f[t] \in B} = Up
  OBVIOUS
<1> HIDE DEF B, f, In
<1>8. SumFunctionOnSet([b \in B |-> Cardinality({t \in Up : f[t] = b})], B) = Cardinality(Up)
  BY <1>4, <1>5, <1>7, GroupsCountAll
<1>9. [b \in B |-> Cardinality({t \in Up : f[t] = b})] = [b \in B |-> Cardinality(In(b))]
  BY <1>6
<1>10. Total([b \in B |-> Cardinality(In(b))]) = Cardinality(Up)
  BY <1>8, <1>9 DEF Total
<1>11. QED
  BY <1>2, <1>3, <1>10

\* The overview, the list of lifecycles and the engagement of a month count what the
\* dashboard counts.
LEMMA OverviewsAgree ==
    /\ RouteLifecycle = Min({LifecycleLimit, LocationDashboardStats.activeRoutes})
    /\ OrgOverview.activeRoutes = LocationDashboardStats.activeRoutes
    /\ OrgOverview.overdueStrips = LocationDashboardStats.dueForStrip
    /\ Engagement(Month).totalSends = LocationDashboardStats.sends30d
    /\ Engagement(Month).activeClimbers = OrgOverview.activeClimbers30
    /\ LocationDashboardStats.activeRoutes = Cardinality(Up)
<1>1. RouteLifecycle = Min({LifecycleLimit, LocationDashboardStats.activeRoutes})
  BY DEF RouteLifecycle, LocationDashboardStats
<1>2. OrgOverview.activeRoutes = LocationDashboardStats.activeRoutes
  BY DEF OrgOverview, LocationDashboardStats
<1>3. OrgOverview.overdueStrips = LocationDashboardStats.dueForStrip
  BY DEF OrgOverview, LocationDashboardStats
<1>4. Engagement(Month).totalSends = LocationDashboardStats.sends30d
  <2>1. {i \in {j \in DOMAIN climbs : climbs[j].age <= Month} : climbs[i].sent}
          = {i \in DOMAIN climbs : climbs[i].sent /\ climbs[i].age <= Month}
    OBVIOUS
  <2>2. QED
    BY <2>1 DEF Engagement, LocationDashboardStats
<1>5. Engagement(Month).activeClimbers = OrgOverview.activeClimbers30
  BY DEF Engagement, OrgOverview
<1>6. LocationDashboardStats.activeRoutes = Cardinality(Up)
  BY DEF LocationDashboardStats, Counted, Up
<1>7. QED
  BY <1>1, <1>2, <1>3, <1>4, <1>5, <1>6

LEMMA EntriesAreTyped ==
    ASSUME NEW T, NEW s \in Seq(T)
    PROVE  \A i \in DOMAIN s : s[i] \in T
  OBVIOUS

\* The indices of a sequence of bounded length.
LEMMA IndicesAreFew ==
    ASSUME NEW T, NEW s \in Seq(T)
    PROVE  /\ IsFiniteSet(DOMAIN s) /\ Cardinality(DOMAIN s) = Len(s)
           /\ \A S \in SUBSET DOMAIN s : IsFiniteSet(S) /\ Cardinality(S) <= Len(s)
<1>1. Len(s) \in Nat /\ DOMAIN s = 1 .. Len(s) /\ 1 \in Int /\ Len(s) \in Int
  OBVIOUS
<1>2. /\ IsFiniteSet(1 .. Len(s))
      /\ Cardinality(1 .. Len(s)) = IF 1 > Len(s) THEN 0 ELSE Len(s) - 1 + 1
  BY <1>1, FS_Interval
<1>3. IsFiniteSet(DOMAIN s) /\ Cardinality(DOMAIN s) = Len(s)
  BY <1>1, <1>2
<1>4. QED
  BY <1>3, FS_Subset

\* The trending routes have no more ascents than there are, and all of them when the
\* list is shorter than its limit.
LEMMA TrendsAddUp ==
    ASSUME FiguresTypeOK, NEW top \in Engagement(Month).trending
    PROVE  /\ Total(top) <= Engagement(Month).totalAscents
           /\ Cardinality(DOMAIN top) < TrendingLimit
              => Total(top) = Engagement(Month).totalAscents
<1> DEFINE in == {i \in DOMAIN climbs : climbs[i].age <= Month}
           on(t) == Cardinality({i \in in : climbs[i].of = t})
           C == {u \in Tags : on(u) > 0}
           f == [i \in in |-> climbs[i].of]
<1>1. PICK B \in SUBSET C : /\ Cardinality(B) = Min({TrendingLimit, Cardinality(C)})
                            /\ top = [t \in B |-> on(t)]
  BY DEF Engagement, Trending
<1>2. /\ IsFiniteSet(in)
      /\ \A S \in SUBSET in : IsFiniteSet(S)
  <2>1. in \in SUBSET DOMAIN climbs
    OBVIOUS
  <2>2. IsFiniteSet(in)
    BY <2>1, IndicesAreFew DEF FiguresTypeOK
  <2>3. QED
    BY <2>2, FS_Subset
<1>3. IsFiniteSet(C) /\ IsFiniteSet(B)
  <2>1. C \in SUBSET Tags /\ B \in SUBSET C
    BY <1>1
  <2> HIDE DEF C
  <2>2. QED
    BY <2>1, FiguresAssumption, FS_Subset
<1>4. \A i \in in : f[i] \in C
  <2> SUFFICES ASSUME NEW i \in in
               PROVE  f[i] \in C
    OBVIOUS
  <2>1. climbs[i].of \in Tags
    <3>1. i \in DOMAIN climbs /\ climbs \in Seq([by : {Sender}, of : Tags, sent : BOOLEAN, age : Ages])
      BY DEF FiguresTypeOK
    <3>2. climbs[i] \in [by : {Sender}, of : Tags, sent : BOOLEAN, age : Ages]
      BY <3>1, EntriesAreTyped
    <3>3. QED
      BY <3>2
  <2> DEFINE S == {j \in in : climbs[j].of = climbs[i].of}
  <2>2. i \in S /\ S \in SUBSET in
    OBVIOUS
  <2> HIDE DEF S
  <2>3. IsFiniteSet(S) /\ S # {}
    BY <1>2, <2>2
  <2>4. Cardinality(S) \in Nat /\ Cardinality(S) # 0
    BY <2>3, FS_CardinalityType, FS_EmptySet
  <2>5. Cardinality(S) > 0
    BY <2>4
  <2>6. on(climbs[i].of) = Cardinality(S)
    BY DEF S
  <2>7. QED
    BY <2>1, <2>5, <2>6
<1>5. \A t \in B : on(t) = Cardinality({i \in in : f[i] = t})
  <2>1. \A t \in B : {i \in in : f[i] = t} = {i \in in : climbs[i].of = t}
    OBVIOUS
  <2> HIDE DEF f
  <2>2. QED
    BY <2>1
<1>6. Engagement(Month).totalAscents = Cardinality(in)
  BY DEF Engagement
<1> DEFINE trendy == {i \in in : f[i] \in B}
<1>7. trendy \in SUBSET in
  OBVIOUS
<1>8. B = C => trendy = in
  <2> HIDE DEF f, C, in
  <2>1. QED
    BY <1>4
<1> HIDE DEF C, f, in, on
<1>9. SumFunctionOnSet([t \in B |-> Cardinality({i \in in : f[i] = t})], B) = Cardinality(trendy)
  BY <1>2, <1>3, GroupsCountAll
<1>10. [t \in B |-> Cardinality({i \in in : f[i] = t})] = [t \in B |-> on(t)]
  BY <1>5
<1>11. Total(top) = Cardinality(trendy)
  BY <1>1, <1>9, <1>10 DEF Total
<1> HIDE DEF trendy
<1>12. Total(top) <= Cardinality(in)
  BY <1>2, <1>7, <1>11, FS_Subset
<1>13. ASSUME Cardinality(DOMAIN top) < TrendingLimit
       PROVE  Total(top) = Cardinality(in)
  <2>1. DOMAIN top = B
    BY <1>1
  <2>2. Cardinality(C) \in Nat /\ TrendingLimit \in Nat
    BY <1>3, FS_CardinalityType, FiguresAssumption
  <2>3. Min({TrendingLimit, Cardinality(C)})
          = IF TrendingLimit <= Cardinality(C) THEN TrendingLimit ELSE Cardinality(C)
    BY <2>2, LeastOfTwo
  <2>4. Cardinality(B) = Cardinality(C)
    BY <1>1, <1>13, <2>1, <2>2, <2>3
  <2>5. B = C
    BY <1>1, <1>3, <2>4, FS_Subset
  <2>6. QED
    BY <1>8, <1>11, <2>5
<1>14. QED
  BY <1>6, <1>12, <1>13

\* No route and no hour is of two setters.
LEMMA NothingCountsTwice ==
    ASSUME FiguresTypeOK, NEW days \in Int
    PROVE  LET p == SetterProductivity(days)
           IN  /\ Total([s \in DOMAIN p |-> p[s].routesSet]) <= Counted(LAMBDA t : ~shelf[t].deleted)
               /\ Total([s \in DOMAIN p |-> p[s].hours]) <= 2 * Len(laborLogs)
<1> DEFINE p == SetterProductivity(days)
           S == {s \in Staff : Sets(s)}
           all == {t \in Tags : shelf[t] # NoTag /\ ~shelf[t].deleted}
           T == {t \in Tags : shelf[t] # NoTag /\ shelf[t].age <= days /\ ~shelf[t].deleted}
           by == [t \in T |-> shelf[t].by]
           L == {i \in DOMAIN laborLogs : laborLogs[i].age <= days}
           of == [i \in L |-> laborLogs[i].by]
           w == [i \in DOMAIN laborLogs |-> laborLogs[i].hours]
<1>1. /\ DOMAIN p = S
      /\ \A s \in S : p[s].routesSet = RoutesSet(s, days) /\ p[s].hours = HoursOf(s, days)
  BY DEF SetterProductivity
<1>2. IsFiniteSet(S)
  <2>1. S \subseteq Staff
    OBVIOUS
  <2>2. QED
    BY <2>1, FiguresAssumption, FS_Subset
<1>3. \A s \in S : RoutesSet(s, days) = Cardinality({t \in T : by[t] = s})
  <2>1. ASSUME NEW s \in S
        PROVE  RoutesSet(s, days) = Cardinality({t \in T : by[t] = s})
    <3>1. {t \in T : by[t] = s}
            = {t \in Tags : shelf[t] # NoTag /\ (shelf[t].by = s /\ shelf[t].age <= days /\ ~shelf[t].deleted)}
      OBVIOUS
    <3> HIDE DEF T, by
    <3>2. QED
      BY <3>1 DEF RoutesSet, Counted
  <2>2. QED
    BY <2>1
<1>4. \A s \in S : HoursOf(s, days) = SumFunctionOnSet(w, {i \in L : of[i] = s})
  <2>1. ASSUME NEW s \in S
        PROVE  HoursOf(s, days) = SumFunctionOnSet(w, {i \in L : of[i] = s})
    <3>1. LogsOf(s, days) = {i \in L : of[i] = s}
      BY DEF LogsOf
    <3> HIDE DEF L, of
    <3>2. QED
      BY <3>1 DEF HoursOf
  <2>2. QED
    BY <2>1
<1>5. Counted(LAMBDA t : ~shelf[t].deleted) = Cardinality(all)
  BY DEF Counted
<1>6. /\ IsFiniteSet(all) /\ IsFiniteSet(T)
      /\ Cardinality({t \in T : by[t] \in S}) <= Cardinality(all)
  <2>1. all \subseteq Tags /\ T \subseteq Tags /\ {t \in T : by[t] \in S} \subseteq all
    OBVIOUS
  <2> HIDE DEF all, T, by, S
  <2>2. IsFiniteSet(all) /\ IsFiniteSet(T)
    BY <2>1, FiguresAssumption, FS_Subset
  <2>3. QED
    BY <2>1, <2>2, FS_Subset
<1>7. /\ IsFiniteSet(L) /\ \A R \in SUBSET L : IsFiniteSet(R) /\ Cardinality(R) \in Nat /\ Cardinality(R) <= Len(laborLogs)
      /\ \A i \in L : w[i] = 2
  <2>1. L \subseteq DOMAIN laborLogs /\ laborLogs \in Seq([by : Staff, age : Ages, hours : {2}])
    BY DEF FiguresTypeOK
  <2>2. \A i \in L : laborLogs[i] \in [by : Staff, age : Ages, hours : {2}]
    BY <2>1, EntriesAreTyped
  <2>3. \A i \in L : w[i] = 2
    BY <2>1, <2>2
  <2>4. \A R \in SUBSET L : IsFiniteSet(R) /\ Cardinality(R) <= Len(laborLogs)
    BY <2>1, IndicesAreFew
  <2> HIDE DEF L, w
  <2>5. QED
    BY <2>3, <2>4, FS_CardinalityType
<1> HIDE DEF p, S, all, T, by, L, of, w
<1>8. Total([s \in DOMAIN p |-> p[s].routesSet]) <= Cardinality(all)
  <2>1. SumFunctionOnSet([s \in S |-> Cardinality({t \in T : by[t] = s})], S)
          = Cardinality({t \in T : by[t] \in S})
    BY <1>2, <1>6, GroupsCountAll
  <2>2. [s \in DOMAIN p |-> p[s].routesSet] = [s \in S |-> Cardinality({t \in T : by[t] = s})]
    BY <1>1, <1>3
  <2>3. Total([s \in S |-> Cardinality({t \in T : by[t] = s})]) = Cardinality({t \in T : by[t] \in S})
    BY <2>1 DEF Total
  <2>4. QED
    BY <1>6, <2>2, <2>3
<1>9. Total([s \in DOMAIN p |-> p[s].hours]) <= 2 * Len(laborLogs)
  <2> DEFINE R == {i \in L : of[i] \in S}
  <2>1. \A i \in L : w[i] \in Int
    BY <1>7
  <2>2. SumFunctionOnSet([s \in S |-> SumFunctionOnSet(w, {i \in L : of[i] = s})], S)
          = SumFunctionOnSet(w, R)
    BY <1>2, <1>7, <2>1, GroupsAddUp
  <2>3. [s \in DOMAIN p |-> p[s].hours] = [s \in S |-> SumFunctionOnSet(w, {i \in L : of[i] = s})]
    BY <1>1, <1>4
  <2>4. Total([s \in S |-> SumFunctionOnSet(w, {i \in L : of[i] = s})]) = SumFunctionOnSet(w, R)
    BY <2>2 DEF Total
  <2>5. R \in SUBSET L /\ \A i \in R : w[i] = 2
    BY <1>7
  <2> HIDE DEF R
  <2>6. IsFiniteSet(R) /\ Cardinality(R) \in Nat /\ Cardinality(R) <= Len(laborLogs)
    BY <1>7, <2>5
  <2>7. SumFunctionOnSet(w, R) = 2 * Cardinality(R)
    BY <2>5, <2>6, SumOfConstants
  <2>8. 2 * Cardinality(R) <= 2 * Len(laborLogs)
    BY <2>6 DEF FiguresTypeOK
  <2>9. QED
    BY <2>3, <2>4, <2>7, <2>8
<1>10. QED
  BY <1>5, <1>8, <1>9 DEF p

\* The feed has as many ascents as it is asked for, if there are, and the latest.
LEMMA FeedIsLatest ==
    ASSUME FiguresTypeOK, NEW n \in Nat
    PROVE  /\ Cardinality(RecentActivity(n)) = Min({n, Len(climbs)})
           /\ \A i \in DOMAIN climbs \ RecentActivity(n), j \in RecentActivity(n) :
                 climbs[j].age < climbs[i].age \/ (climbs[j].age = climbs[i].age /\ j > i)
<1> DEFINE D == DOMAIN climbs
           N == Len(climbs)
           Ahead1(i) == {j \in D : Later(j, i)}
           rank == [i \in D |-> Cardinality(Ahead1(i))]
           feed == RecentActivity(n)
<1>1. /\ N \in Nat /\ D = 1 .. N /\ \A i \in D : climbs[i].age \in Int /\ i \in Int
      /\ IsFiniteSet(D) /\ Cardinality(D) = N
  <2>1. climbs \in Seq([by : {Sender}, of : Tags, sent : BOOLEAN, age : Ages])
    BY DEF FiguresTypeOK
  <2>2. \A i \in D : climbs[i] \in [by : {Sender}, of : Tags, sent : BOOLEAN, age : Ages]
    BY <2>1, EntriesAreTyped
  <2>3. \A i \in D : climbs[i].age \in Int
    BY <2>2, FiguresAssumption
  <2>4. N \in Nat /\ D = 1 .. N
    BY <2>1
  <2>5. IsFiniteSet(D) /\ Cardinality(D) = N
    BY <2>1, IndicesAreFew
  <2> HIDE DEF D, N
  <2>6. QED
    BY <2>3, <2>4, <2>5
<1>2. /\ \A i, j \in D : i # j => Later(i, j) \/ Later(j, i)
      /\ \A i \in D : ~Later(i, i)
      /\ \A i, j, k \in D : Later(i, j) /\ Later(j, k) => Later(i, k)
      /\ \A i, j \in D : Later(i, j) =>
            climbs[i].age < climbs[j].age \/ (climbs[i].age = climbs[j].age /\ i > j)
  <2> DEFINE age(i) == climbs[i].age
  <2>1. \A i \in D : age(i) \in Int /\ i \in Int
    BY <1>1
  <2>2. \A i, j : Later(i, j) <=> age(i) < age(j) \/ (age(i) = age(j) /\ i > j)
    BY DEF Later
  <2> HIDE DEF D, age
  <2>3. QED
    BY <2>1, <2>2 DEF age
<1> HIDE DEF D, N
<1>3. \A i \in D : /\ IsFiniteSet(Ahead1(i)) /\ Cardinality(Ahead1(i)) \in Nat
                   /\ Cardinality(Ahead1(i)) < N
  <2> SUFFICES ASSUME NEW i \in D
               PROVE  /\ IsFiniteSet(Ahead1(i)) /\ Cardinality(Ahead1(i)) \in Nat
                      /\ Cardinality(Ahead1(i)) < N
    OBVIOUS
  <2>1. Ahead1(i) \subseteq D /\ Ahead1(i) # D
    BY <1>2
  <2> HIDE DEF Ahead1
  <2>2. IsFiniteSet(Ahead1(i)) /\ Cardinality(Ahead1(i)) <= N /\ Cardinality(Ahead1(i)) # N
    BY <1>1, <2>1, FS_Subset
  <2>3. QED
    BY <1>1, <2>2, FS_CardinalityType
<1>4. \A i, j \in D : Later(i, j) => Cardinality(Ahead1(i)) < Cardinality(Ahead1(j))
  <2> SUFFICES ASSUME NEW i \in D, NEW j \in D, Later(i, j)
               PROVE  Cardinality(Ahead1(i)) < Cardinality(Ahead1(j))
    OBVIOUS
  <2>1. Ahead1(i) \subseteq Ahead1(j) /\ i \in Ahead1(j) /\ i \notin Ahead1(i)
    BY <1>2
  <2>2. Ahead1(i) \subseteq Ahead1(j) /\ Ahead1(i) # Ahead1(j)
    BY <2>1
  <2> HIDE DEF Ahead1
  <2>3. /\ Cardinality(Ahead1(i)) <= Cardinality(Ahead1(j))
        /\ Cardinality(Ahead1(i)) # Cardinality(Ahead1(j))
    BY <1>3, <2>2, FS_Subset
  <2>4. QED
    BY <1>3, <2>3
<1>5. /\ \A i \in D : rank[i] \in 0 .. N - 1
      /\ \A i, j \in D : rank[i] = rank[j] => i = j
      /\ rank \in [D -> 0 .. N - 1]
  <2>1. \A i \in D : rank[i] = Cardinality(Ahead1(i))
    OBVIOUS
  <2>2. DOMAIN rank = D /\ rank = [i \in D |-> rank[i]]
    OBVIOUS
  <2> HIDE DEF rank, Ahead1
  <2>3. \A i \in D : rank[i] \in 0 .. N - 1
    BY <1>1, <1>3, <2>1
  <2>4. \A i, j \in D : rank[i] = rank[j] => i = j
    BY <1>2, <1>3, <1>4, <2>1
  <2>5. QED
    BY <2>2, <2>3, <2>4
<1>6. feed = {i \in D : rank[i] < n}
  BY DEF RecentActivity, D
<1> HIDE DEF rank, feed
<1>7. IsFiniteSet(0 .. N - 1) /\ Cardinality(0 .. N - 1) = N
  <2>1. 0 \in Int /\ N - 1 \in Int
    BY <1>1
  <2>2. /\ IsFiniteSet(0 .. N - 1)
        /\ Cardinality(0 .. N - 1) = IF 0 > N - 1 THEN 0 ELSE (N - 1) - 0 + 1
    BY <2>1, FS_Interval
  <2>3. QED
    BY <1>1, <2>2
<1>8. \A r \in 0 .. N - 1 : \E i \in D : rank[i] = r
  <2>1. rank \in Injection(D, 0 .. N - 1)
    BY <1>5 DEF Injection, IsInjective
  <2>2. rank \in Surjection(D, 0 .. N - 1)
    BY <1>1, <1>7, <2>1, FS_Injection
  <2>3. QED
    BY <2>2 DEF Surjection
<1>9. Cardinality(feed) = Min({n, N})
  <2> DEFINE m == Min({n, N})
             f == [i \in feed |-> rank[i]]
  <2>1. m = IF n <= N THEN n ELSE N
    <3>1. n \in Int /\ N \in Int
      BY <1>1
    <3>2. QED
      BY <3>1, LeastOfTwo
  <2> HIDE DEF m
  <2>2. f \in [feed -> 0 .. m - 1]
    <3>1. \A i \in feed : rank[i] \in 0 .. m - 1
      BY <1>1, <1>5, <1>6, <2>1
    <3>2. QED
      BY <3>1
  <2>3. \A i, j \in feed : f[i] = f[j] => i = j
    <3>1. \A i \in feed : i \in D /\ f[i] = rank[i]
      BY <1>6
    <3> HIDE DEF f
    <3>2. QED
      BY <1>5, <3>1
  <2>4. \A r \in 0 .. m - 1 : \E i \in feed : f[i] = r
    <3> SUFFICES ASSUME NEW r \in 0 .. m - 1
                 PROVE  \E i \in feed : f[i] = r
      OBVIOUS
    <3>1. r \in 0 .. N - 1 /\ r < n
      BY <1>1, <2>1
    <3>2. PICK i \in D : rank[i] = r
      BY <1>8, <3>1
    <3>3. i \in feed
      BY <1>6, <3>1, <3>2
    <3>4. QED
      BY <3>2, <3>3
  <2>5. DOMAIN f = feed
    OBVIOUS
  <2> HIDE DEF f
  <2>6. f \in Bijection(feed, 0 .. m - 1)
    <3>1. f \in Injection(feed, 0 .. m - 1)
      BY <2>2, <2>3, <2>5 DEF Injection, IsInjective
    <3>2. f \in Surjection(feed, 0 .. m - 1)
      BY <2>2, <2>4 DEF Surjection
    <3>3. QED
      BY <3>1, <3>2 DEF Bijection
  <2>7. IsFiniteSet(feed)
    <3>1. feed \subseteq D
      BY <1>6
    <3>2. QED
      BY <1>1, <3>1, FS_Subset
  <2>8. Cardinality(0 .. m - 1) = Cardinality(feed)
    <3>1. ExistsBijection(feed, 0 .. m - 1)
      BY <2>6 DEF ExistsBijection
    <3>2. QED
      BY <2>7, <3>1, FS_Bijection
  <2>9. Cardinality(0 .. m - 1) = m
    <3>1. 0 \in Int /\ m - 1 \in Int /\ m \in Nat
      BY <1>1, <2>1
    <3>2. Cardinality(0 .. m - 1) = IF 0 > m - 1 THEN 0 ELSE (m - 1) - 0 + 1
      BY <3>1, FS_Interval
    <3>3. QED
      BY <3>1, <3>2
  <2>10. QED
    BY <2>8, <2>9 DEF m
<1>10. ASSUME NEW i \in D \ feed, NEW j \in feed
       PROVE  climbs[j].age < climbs[i].age \/ (climbs[j].age = climbs[i].age /\ j > i)
  <2>1. i \in D /\ j \in D /\ rank[j] < n /\ ~(rank[i] < n) /\ i # j
    BY <1>6
  <2>2. rank[i] \in Int /\ rank[j] \in Int
    BY <1>5, <2>1
  <2>3. ~Later(i, j)
    <3>1. Later(i, j) => rank[i] < rank[j]
      BY <1>4, <2>1 DEF rank
    <3>2. QED
      BY <2>1, <2>2, <3>1
  <2>4. Later(j, i)
    BY <1>2, <2>1, <2>3
  <2>5. QED
    BY <1>2, <2>1, <2>4
<1>11. QED
  BY <1>9, <1>10 DEF D, N, feed

LEMMA FiguresHold == FiguresTypeOK => ReportsAgree
<1> SUFFICES ASSUME FiguresTypeOK
             PROVE  ReportsAgree
  OBVIOUS
<1>1. /\ RouteDistribution = GradeDistribution("active")
      /\ Total(GradeDistribution("active")) = LocationDashboardStats.activeRoutes
  BY BucketsAddUp, OverviewsAgree
<1>2. \A days \in {Week, Month} : days \in Int
  BY DEF Week, Month
<1>3. \A days \in {Week, Month} :
         LET p == SetterProductivity(days)
         IN  /\ Total([s \in DOMAIN p |-> p[s].routesSet])
                   <= Counted(LAMBDA t : ~shelf[t].deleted)
             /\ Total([s \in DOMAIN p |-> p[s].hours]) <= 2 * Len(laborLogs)
  BY <1>2, NothingCountsTwice
<1>4. \A n \in 1 .. 2 :
         /\ Cardinality(RecentActivity(n)) = Min({n, Len(climbs)})
         /\ \A i \in DOMAIN climbs \ RecentActivity(n), j \in RecentActivity(n) :
               climbs[j].age < climbs[i].age \/ (climbs[j].age = climbs[i].age /\ j > i)
  <2>1. \A n \in 1 .. 2 : n \in Nat
    OBVIOUS
  <2>2. QED
    BY <2>1, FeedIsLatest
<1>5. QED
  BY <1>1, <1>3, <1>4, DashboardAddsUp, OverviewsAgree, TrendsAddUp DEF ReportsAgree

-----------------------------------------------------------------------------
(* What the lists of the API show: module Listings. *)

\* The members of a finite set one after the other: none is left out.
LEMMA InjectionsReachAll ==
    ASSUME NEW S, IsFiniteSet(S), NEW f \in [1 .. Cardinality(S) -> S], IsInjective(f)
    PROVE  \A x \in S : \E i \in 1 .. Cardinality(S) : f[i] = x
<1>1. Cardinality(S) \in Nat
  BY FS_CardinalityType
<1>2. IsFiniteSet(1 .. Cardinality(S)) /\ Cardinality(1 .. Cardinality(S)) = Cardinality(S)
  <2>1. 1 \in Int /\ Cardinality(S) \in Int
    BY <1>1
  <2>2. /\ IsFiniteSet(1 .. Cardinality(S))
        /\ Cardinality(1 .. Cardinality(S))
             = IF 1 > Cardinality(S) THEN 0 ELSE Cardinality(S) - 1 + 1
    BY <2>1, FS_Interval
  <2>3. QED
    BY <1>1, <2>2
<1>3. f \in Injection(1 .. Cardinality(S), S)
  BY DEF Injection
<1>4. f \in Surjection(1 .. Cardinality(S), S)
  BY <1>2, <1>3, FS_Injection
<1>5. QED
  BY <1>4 DEF Surjection

LEMMA SetsAreListed ==
    ASSUME NEW S, IsFiniteSet(S)
    PROVE  /\ SetToSeq(S) \in Seq(S)
           /\ Len(SetToSeq(S)) = Cardinality(S)
           /\ \A i \in 1 .. Cardinality(S) : SetToSeq(S)[i] \in S
           /\ \A x \in S : \E i \in 1 .. Cardinality(S) : SetToSeq(S)[i] = x
<1>1. Cardinality(S) \in Nat /\ ExistsBijection(1 .. Cardinality(S), S)
  BY FS_CardinalityType
<1>2. PICK g : g \in [1 .. Cardinality(S) -> S] /\ IsInjective(g)
  BY <1>1 DEF ExistsBijection, Bijection, Injection
<1>3. SetToSeq(S) \in [1 .. Cardinality(S) -> S] /\ IsInjective(SetToSeq(S))
  BY <1>2 DEF SetToSeq
<1>4. \A x \in S : \E i \in 1 .. Cardinality(S) : SetToSeq(S)[i] = x
  BY <1>3, InjectionsReachAll
<1>5. QED
  BY <1>1, <1>3, <1>4

\* A statement with one more condition, on a placeholder for each of some values.
With(wb, column, test, values) ==
    [conds |-> Append(wb.conds, [column |-> column, test |-> test,
                                 places |-> wb.argN .. wb.argN + Cardinality(values) - 1]),
     args  |-> wb.args \o SetToSeq(values),
     argN  |-> wb.argN + Cardinality(values)]

Condition == [column : {"wall", "grade", "day"}, test : {"eq", "in", "ge", "le"}, places : SUBSET Nat]

\* The placeholders of a statement and its arguments are in step.
InStep(wb) ==
    /\ wb.conds \in Seq(Condition)
    /\ wb.args \in Seq(Cells \cup {"gym"})
    /\ wb.argN \in Nat
    /\ wb.argN = Len(wb.args) + 1
    /\ \A n \in DOMAIN wb.conds : wb.conds[n].places \subseteq 1 .. Len(wb.args)

Compares(v, test, x) ==
    (test = "ge" /\ v >= x) \/ (test = "le" /\ v <= x) \/ (test \in {"eq", "in"} /\ v = x)

\* A statement with one more condition selects the rows that also meet that.
Narrows(wc, wb, column, test, values) ==
    /\ InStep(wc)
    /\ \A r : Passes(r, wc) <=> Passes(r, wb) /\ \E x \in values : Compares(r[column], test, x)

\* What a condition with more arguments selects has not changed, and the condition that
\* came last selects by the values that came last.
LEMMA ConditionsAdd ==
    ASSUME NEW wb, InStep(wb), NEW values \in SUBSET Cells, IsFiniteSet(values),
           NEW column \in {"wall", "grade", "day"}, NEW test \in {"eq", "in", "ge", "le"}
    PROVE  Narrows(With(wb, column, test, values), wb, column, test, values)
<1> DEFINE n == Cardinality(values)
           more == SetToSeq(values)
           places == wb.argN .. wb.argN + n - 1
           new == [column |-> column, test |-> test, places |-> places]
           wc == With(wb, column, test, values)
<1>1. /\ n \in Nat /\ more \in Seq(values) /\ Len(more) = n
      /\ \A i \in 1 .. n : more[i] \in values
      /\ \A x \in values : \E i \in 1 .. n : more[i] = x
  BY SetsAreListed, FS_CardinalityType
<1>2. wc.conds = Append(wb.conds, new) /\ wc.args = wb.args \o more /\ wc.argN = wb.argN + n
  BY DEF With
<1> HIDE DEF n, more, wc
<1>3. new \in Condition /\ new.column = column /\ new.test = test /\ new.places = places
  <2>1. places \subseteq Nat
    BY <1>1 DEF InStep
  <2> HIDE DEF places
  <2>2. QED
    BY <2>1 DEF Condition
<1> HIDE DEF new
<1>4. /\ Len(wc.args) = Len(wb.args) + n
      /\ wc.args \in Seq(Cells \cup {"gym"})
      /\ \A i \in 1 .. Len(wb.args) : wc.args[i] = wb.args[i]
      /\ \A i \in 1 .. n : wc.args[Len(wb.args) + i] = more[i]
  <2>1. more \in Seq(Cells \cup {"gym"}) /\ wb.args \in Seq(Cells \cup {"gym"})
    BY <1>1 DEF InStep
  <2>2. wc.args \in Seq(Cells \cup {"gym"}) /\ Len(wc.args) = Len(wb.args) + Len(more)
    BY <1>2, <2>1
  <2>3. \A i \in 1 .. Len(wb.args) : wc.args[i] = wb.args[i]
    BY <1>2, <2>1
  <2>4. \A i \in 1 .. Len(more) : wc.args[Len(wb.args) + i] = more[i]
    BY <1>2, <2>1
  <2>5. QED
    BY <1>1, <2>2, <2>3, <2>4
<1>5. /\ wc.conds \in Seq(Condition)
      /\ DOMAIN wc.conds = DOMAIN wb.conds \cup {Len(wb.conds) + 1}
      /\ \A k \in DOMAIN wb.conds : wc.conds[k] = wb.conds[k]
      /\ wc.conds[Len(wb.conds) + 1] = new
  BY <1>2, <1>3 DEF InStep
<1>6. \A k \in DOMAIN wb.conds : wb.conds[k].places \subseteq 1 .. Len(wb.args)
  BY DEF InStep
<1>7. InStep(wc)
  <2>1. Len(wb.args) \in Nat /\ wb.argN = Len(wb.args) + 1
    BY DEF InStep
  <2>2. wc.argN \in Nat /\ wc.argN = Len(wc.args) + 1
    BY <1>1, <1>2, <1>4, <2>1
  <2>3. places \subseteq 1 .. Len(wc.args)
    BY <1>1, <1>4, <2>1
  <2> HIDE DEF places
  <2>4. \A k \in DOMAIN wb.conds : wb.conds[k].places \subseteq 1 .. Len(wc.args)
    <3>1. 1 .. Len(wb.args) \subseteq 1 .. Len(wc.args)
      BY <1>1, <1>4, <2>1
    <3>2. QED
      BY <1>6, <3>1
  <2>5. \A k \in DOMAIN wc.conds : wc.conds[k].places \subseteq 1 .. Len(wc.args)
    BY <1>3, <1>5, <2>3, <2>4
  <2>6. QED
    BY <1>4, <1>5, <2>2, <2>5 DEF InStep
<1>8. {wc.args[i] : i \in places} = values
  <2>1. Len(wb.args) \in Nat /\ wb.argN = Len(wb.args) + 1
    BY DEF InStep
  <2>2. \A i \in places : i - Len(wb.args) \in 1 .. n /\ i = Len(wb.args) + (i - Len(wb.args))
    BY <1>1, <2>1
  <2>3. \A i \in 1 .. n : Len(wb.args) + i \in places
    BY <1>1, <2>1
  <2> HIDE DEF places
  <2>4. \A i \in places : wc.args[i] \in values
    BY <1>1, <1>4, <2>2
  <2>5. ASSUME NEW x \in values
        PROVE  \E i \in places : wc.args[i] = x
    <3>1. PICK i \in 1 .. n : more[i] = x
      BY <1>1
    <3>2. Len(wb.args) + i \in places /\ wc.args[Len(wb.args) + i] = x
      BY <1>4, <2>3, <3>1
    <3>3. QED
      BY <3>2
  <2>6. QED
    BY <2>4, <2>5
<1> HIDE DEF places
<1>9. ASSUME NEW r
      PROVE  Passes(r, wc) <=> Passes(r, wb) /\ \E x \in values : Compares(r[column], test, x)
  <2> DEFINE Met(w, k) == \E x \in {w.args[i] : i \in w.conds[k].places} :
                             Compares(r[w.conds[k].column], w.conds[k].test, x)
  <2>1. \A w : Passes(r, w) <=> \A k \in DOMAIN w.conds : Met(w, k)
    BY DEF Passes, Compares
  <2>2. ASSUME NEW k \in DOMAIN wb.conds
        PROVE  Met(wc, k) <=> Met(wb, k)
    <3>1. wc.conds[k] = wb.conds[k] /\ wb.conds[k].places \subseteq 1 .. Len(wb.args)
      BY <1>5, <1>6
    <3>2. \A i \in wb.conds[k].places : wc.args[i] = wb.args[i]
      BY <1>4, <3>1
    <3>3. QED
      BY <3>1, <3>2
  <2>3. Met(wc, Len(wb.conds) + 1) <=> \E x \in values : Compares(r[column], test, x)
    BY <1>3, <1>5, <1>8
  <2> HIDE DEF Met
  <2>4. QED
    BY <1>5, <2>1, <2>2, <2>3
<1>10. QED
  BY <1>7, <1>9 DEF wc, Narrows

LEMMA CellsAreFew == \A v \in SUBSET Cells : IsFiniteSet(v)
<1>1. IsFiniteSet(Cells)
  <2>1. IsFiniteSet({1}) /\ {1} \cup {2} = Cells
    BY FS_Singleton DEF Cells
  <2>2. IsFiniteSet({1} \cup {2})
    BY <2>1, FS_AddElement
  <2>3. QED
    BY <2>1, <2>2
<1>2. QED
  BY <1>1, FS_Subset

\* addEq, addGte and addLte with one value, or none.
LEMMA ComparesOne ==
    ASSUME NEW wb, InStep(wb), NEW value \in Optional,
           NEW column \in {"wall", "grade", "day"}, NEW test \in {"eq", "in", "ge", "le"}
    PROVE  /\ InStep(Compared(wb, column, test, value))
           /\ \A r : Passes(r, Compared(wb, column, test, value)) <=>
                     /\ Passes(r, wb)
                     /\ value = Missing \/ \E x \in value : Compares(r[column], test, x)
<1>1. CASE value = Missing
  <2>1. Compared(wb, column, test, value) = wb
    BY <1>1 DEF Compared
  <2>2. QED
    BY <1>1, <2>1
<1>2. CASE value # Missing
  <2>1. PICK x \in Cells : value = {x}
    BY <1>2 DEF Optional
  <2>2. Cardinality(value) = 1 /\ value \in SUBSET Cells /\ IsFiniteSet(value)
    BY <2>1, FS_Singleton
  <2>3. wb.argN .. wb.argN + Cardinality(value) - 1 = {wb.argN}
    BY <2>2 DEF InStep
  <2>4. Compared(wb, column, test, value) = With(wb, column, test, value)
    BY <1>2, <2>2, <2>3 DEF Compared, With
  <2>5. Narrows(With(wb, column, test, value), wb, column, test, value)
    <3>1. value \in SUBSET Cells /\ test \in {"eq", "in", "ge", "le"}
      BY <2>2
    <3>2. IsFiniteSet(value)
      BY <2>2
    <3>3. QED
      BY <3>1, <3>2, ConditionsAdd
  <2>6. QED
    BY <1>2, <2>4, <2>5 DEF Narrows
<1>3. QED
  BY <1>1, <1>2

LEMMA AddsInList ==
    ASSUME NEW wb, InStep(wb), NEW values \in SUBSET Cells,
           NEW column \in {"wall", "grade", "day"}
    PROVE  /\ InStep(AddIn(wb, column, values))
           /\ \A r : Passes(r, AddIn(wb, column, values)) <=>
                     /\ Passes(r, wb)
                     /\ values = Missing \/ \E x \in values : Compares(r[column], "in", x)
<1>1. CASE values = Missing
  <2>1. AddIn(wb, column, values) = wb
    BY <1>1 DEF AddIn
  <2>2. QED
    BY <1>1, <2>1
<1>2. CASE values # Missing
  <2>1. AddIn(wb, column, values) = With(wb, column, "in", values)
    BY <1>2 DEF AddIn, With
  <2>2. IsFiniteSet(values)
    BY CellsAreFew
  <2>3. Narrows(With(wb, column, "in", values), wb, column, "in", values)
    BY <2>2, ConditionsAdd
  <2>4. QED
    BY <1>2, <2>1, <2>3 DEF Narrows
<1>3. QED
  BY <1>1, <1>2

\* A filter selects the rows it means.
LEMMA FilterSelects ==
    ASSUME NEW f \in Filters, NEW r \in Row
    PROVE  Passes(r, buildWhere(f)) <=> Meant(r, f)
<1> DEFINE w0 == newWhereBuilder
           w1 == Compared(w0, "wall", "eq", f.wall)
           w2 == Compared(w1, "grade", "eq", f.grade)
           w3 == AddIn(w2, "grade", f.gradeIn)
           w4 == Compared(w3, "day", "ge", f.from)
           w5 == Compared(w4, "day", "le", f.to)
<1>1. /\ f.wall \in Optional /\ f.grade \in Optional /\ f.gradeIn \in SUBSET Cells
      /\ f.from \in Optional /\ f.to \in Optional
  BY DEF Filters
<1>2. buildWhere(f) = w5
  BY DEF buildWhere
<1>3. InStep(w0) /\ Passes(r, w0)
  BY DEF newWhereBuilder, InStep, Passes
<1> HIDE DEF w0
<1>4. InStep(w1) /\ (Passes(r, w1) <=> f.wall = Missing \/ \E x \in f.wall : Compares(r["wall"], "eq", x))
  BY <1>1, <1>3, ComparesOne
<1> HIDE DEF w1
<1>5. /\ InStep(w2)
      /\ Passes(r, w2) <=> /\ Passes(r, w1)
                           /\ f.grade = Missing \/ \E x \in f.grade : Compares(r["grade"], "eq", x)
  BY <1>1, <1>4, ComparesOne
<1> HIDE DEF w2
<1>6. /\ InStep(w3)
      /\ Passes(r, w3) <=> /\ Passes(r, w2)
                           /\ f.gradeIn = Missing \/ \E x \in f.gradeIn : Compares(r["grade"], "in", x)
  BY <1>1, <1>5, AddsInList
<1> HIDE DEF w3
<1>7. /\ InStep(w4)
      /\ Passes(r, w4) <=> /\ Passes(r, w3)
                           /\ f.from = Missing \/ \E x \in f.from : Compares(r["day"], "ge", x)
  BY <1>1, <1>6, ComparesOne
<1> HIDE DEF w4
<1>8. Passes(r, w5) <=> /\ Passes(r, w4)
                        /\ f.to = Missing \/ \E x \in f.to : Compares(r["day"], "le", x)
  BY <1>1, <1>7, ComparesOne
<1> HIDE DEF w5
<1>9. r.wall \in Cells /\ r.grade \in Cells /\ r.day \in Cells
  BY DEF Row
<1>10. (f.wall = Missing \/ \E x \in f.wall : Compares(r["wall"], "eq", x))
         <=> (f.wall = Missing \/ r.wall \in f.wall)
  BY DEF Compares
<1>11. (f.grade = Missing \/ \E x \in f.grade : Compares(r["grade"], "eq", x))
         <=> (f.grade = Missing \/ r.grade \in f.grade)
  BY DEF Compares
<1>12. (f.gradeIn = Missing \/ \E x \in f.gradeIn : Compares(r["grade"], "in", x))
         <=> (f.gradeIn = Missing \/ r.grade \in f.gradeIn)
  BY DEF Compares
<1>13. (f.from = Missing \/ \E x \in f.from : Compares(r["day"], "ge", x))
         <=> \A d \in f.from : d <= r.day
  BY <1>1, <1>9 DEF Compares, Optional, Missing, Cells
<1>14. (f.to = Missing \/ \E x \in f.to : Compares(r["day"], "le", x))
         <=> \A d \in f.to : r.day <= d
  BY <1>1, <1>9 DEF Compares, Optional, Missing, Cells
<1>15. QED
  BY <1>2, <1>4, <1>5, <1>6, <1>7, <1>8, <1>10, <1>11, <1>12, <1>13, <1>14 DEF Meant

\* The rows of the order that come before one, in a list.
Ahead(k, list, r) == {q \in list : Before(k, q, r)}

\* An order that leaves no ties.
Tells(k, list) == \A r, q \in list : r # q => Before(k, r, q) \/ Before(k, q, r)

\* The place of a row in the order is told by the rows ahead of it.
LEMMA PlacesAreCounted ==
    ASSUME NEW k \in Lists, NEW list \in SUBSET Row, IsFiniteSet(list), Tells(k, list),
           NEW order \in Orders(k, list), NEW p \in 1 .. Cardinality(list)
    PROVE  Cardinality(Ahead(k, list, order[p])) = p - 1
<1> DEFINE n == Cardinality(list)
           r == order[p]
           ahead == Ahead(k, list, r)
           f == [i \in 1 .. p - 1 |-> order[i]]
<1>1. n \in Nat /\ p \in Int /\ 1 <= p /\ p <= n
  BY FS_CardinalityType
<1>2. /\ order \in [1 .. n -> list]
      /\ \A i, j \in 1 .. n : i # j => order[i] # order[j]
      /\ \A i, j \in 1 .. n : i < j => ~Before(k, order[j], order[i])
  BY DEF Orders, SetToSeqs
<1>3. \A q \in list : \E i \in 1 .. n : order[i] = q
  <2>1. IsInjective(order)
    BY <1>2 DEF IsInjective
  <2>2. QED
    BY <1>2, <2>1, InjectionsReachAll
<1>4. \A q \in Row : ~Before(k, q, q)
  BY DEF Before, Row, Cells
<1> HIDE DEF n
<1>5. \A i \in 1 .. p - 1 : order[i] \in ahead
  <2> SUFFICES ASSUME NEW i \in 1 .. p - 1
               PROVE  order[i] \in ahead
    OBVIOUS
  <2>1. i \in 1 .. n /\ p \in 1 .. n /\ i # p /\ i < p
    BY <1>1
  <2>2. order[i] \in list /\ order[p] \in list /\ order[i] # order[p]
    BY <1>2, <2>1
  <2>3. ~Before(k, order[p], order[i])
    BY <1>2, <2>1
  <2>4. Before(k, order[i], order[p])
    BY <2>2, <2>3 DEF Tells
  <2>5. QED
    BY <2>2, <2>4 DEF Ahead
<1>6. \A q \in ahead : \E i \in 1 .. p - 1 : order[i] = q
  <2> SUFFICES ASSUME NEW q \in ahead
               PROVE  \E i \in 1 .. p - 1 : order[i] = q
    OBVIOUS
  <2>1. q \in list /\ Before(k, q, r)
    BY DEF Ahead
  <2>2. PICK i \in 1 .. n : order[i] = q
    BY <1>3, <2>1
  <2>3. i # p
    BY <1>4, <2>1, <2>2
  <2>4. ~(p < i)
    <3>1. p \in 1 .. n
      BY <1>1
    <3>2. p < i => ~Before(k, order[i], order[p])
      BY <1>2, <3>1
    <3>3. QED
      BY <2>1, <2>2, <3>2
  <2>5. i \in 1 .. p - 1
    BY <1>1, <2>3, <2>4
  <2>6. QED
    BY <2>2, <2>5
<1> HIDE DEF ahead, r
<1>7. f \in Bijection(1 .. p - 1, ahead)
  <2>1. f \in [1 .. p - 1 -> ahead]
    BY <1>5
  <2>2. \A i, j \in 1 .. p - 1 : f[i] = f[j] => i = j
    <3>1. \A i \in 1 .. p - 1 : i \in 1 .. n /\ f[i] = order[i]
      BY <1>1
    <3> HIDE DEF f
    <3>2. QED
      BY <1>2, <3>1
  <2>3. \A q \in ahead : \E i \in 1 .. p - 1 : f[i] = q
    BY <1>6
  <2> HIDE DEF f
  <2>4. DOMAIN f = 1 .. p - 1
    BY <2>1
  <2>5. f \in Injection(1 .. p - 1, ahead)
    BY <2>1, <2>2, <2>4 DEF Injection, IsInjective
  <2>6. f \in Surjection(1 .. p - 1, ahead)
    BY <2>1, <2>3 DEF Surjection
  <2>7. QED
    BY <2>5, <2>6 DEF Bijection
<1>8. IsFiniteSet(1 .. p - 1) /\ Cardinality(1 .. p - 1) = p - 1
  <2>1. 1 \in Int /\ p - 1 \in Int
    BY <1>1
  <2>2. /\ IsFiniteSet(1 .. p - 1)
        /\ Cardinality(1 .. p - 1) = IF 1 > p - 1 THEN 0 ELSE (p - 1) - 1 + 1
    BY <2>1, FS_Interval
  <2>3. QED
    BY <1>1, <2>2
<1>9. Cardinality(ahead) = Cardinality(1 .. p - 1)
  <2>1. ExistsBijection(1 .. p - 1, ahead)
    BY <1>7 DEF ExistsBijection
  <2>2. QED
    BY <1>8, <2>1, FS_Bijection
<1>10. QED
  BY <1>8, <1>9 DEF ahead, r

\* A page of a list that is put in order.
PageOf(order, offset, limit) == SubSeq(order, offset + 1, Min({offset + limit, Len(order)}))

\* A row that has as many rows ahead as were read before is on the page, or beyond it,
\* and then the page is full.
LEMMA PagesGoOn ==
    ASSUME NEW k \in Lists, NEW list \in SUBSET Row, IsFiniteSet(list), Tells(k, list),
           NEW order \in Orders(k, list), NEW offset \in Nat, NEW limit \in Nat \ {0},
           NEW r \in list, offset <= Cardinality(Ahead(k, list, r)),
           r \notin ToSet(PageOf(order, offset, limit))
    PROVE  /\ offset + limit <= Cardinality(Ahead(k, list, r))
           /\ ~(Len(PageOf(order, offset, limit)) < limit)
<1> DEFINE n == Cardinality(list)
           page == PageOf(order, offset, limit)
           to == Min({offset + limit, Len(order)})
<1>1. n \in Nat
  BY FS_CardinalityType
<1>2. /\ order \in [1 .. n -> list]
      /\ \A i, j \in 1 .. n : i # j => order[i] # order[j]
  BY DEF Orders, SetToSeqs
<1>3. PICK p \in 1 .. n : order[p] = r
  <2>1. IsInjective(order)
    BY <1>2 DEF IsInjective
  <2>2. order \in [1 .. Cardinality(list) -> list]
    BY <1>2
  <2>3. \A x \in list : \E i \in 1 .. Cardinality(list) : order[i] = x
    BY ONLY IsFiniteSet(list), <2>1, <2>2, InjectionsReachAll
  <2>4. QED
    BY <2>3
<1>4. Cardinality(Ahead(k, list, r)) = p - 1
  BY <1>3, PlacesAreCounted
<1>5. order \in Seq(list) /\ Len(order) = n
  BY <1>1, <1>2
<1> HIDE DEF n
<1>6. to = IF offset + limit <= n THEN offset + limit ELSE n
  <2>1. offset + limit \in Int /\ n \in Int
    BY <1>1
  <2>2. QED
    BY <1>5, <2>1, LeastOfTwo
<1> HIDE DEF to
<1>7. offset + 1 <= p /\ p \in Int /\ p <= n
  BY <1>1, <1>4
<1>8. /\ Len(page) = to - offset
      /\ \A i \in 1 .. to - offset : page[i] = order[offset + i]
      /\ DOMAIN page = 1 .. to - offset
  <2>1. page = SubSeq(order, offset + 1, to)
    BY DEF PageOf, to
  <2>2. offset + 1 \in 1 .. n /\ to \in Nat /\ offset <= to /\ to <= n
    BY <1>1, <1>6, <1>7
  <2> HIDE DEF page
  <2>3. Len(page) = to - offset /\ DOMAIN page = 1 .. to - offset
    BY <1>5, <2>1, <2>2
  <2>4. \A i \in 1 .. to - offset : page[i] = order[offset + i]
    BY <1>5, <2>1, <2>2
  <2>5. QED
    BY <2>3, <2>4
<1> HIDE DEF page
<1>9. ~(p <= to)
  <2>1. ASSUME p <= to
        PROVE  FALSE
    <3>1. p - offset \in 1 .. to - offset /\ offset + (p - offset) = p
      BY <1>1, <1>6, <1>7, <2>1
    <3>2. page[p - offset] = r
      BY <1>3, <1>8, <3>1
    <3>3. r \in ToSet(page)
      BY <1>8, <3>1, <3>2 DEF ToSet
    <3>4. QED
      BY <3>3 DEF page
  <2>2. QED
    BY <2>1
<1>10. offset + limit < p /\ Len(page) = limit
  BY <1>1, <1>6, <1>7, <1>8, <1>9
<1>11. QED
  BY <1>4, <1>7, <1>10 DEF page

\* The rows that a list with a filter is of.
Chosen(rows, f) == {r \in rows : Passes(r, buildWhere(f))}

Walks == [kind : Lists, filter : Filters, limit : Nat \ {0}, offset : Nat, seen : SUBSET Row,
          steady : SUBSET Row, moved : BOOLEAN, over : BOOLEAN]

\* A walk, as the rows are: nobody ahead of the rows it has still to show has gone.
WalkGoesOn(w, rows) ==
    /\ w \in Walks
    /\ ~w.moved =>
          /\ w.steady \subseteq Chosen(rows, w.filter)
          /\ \/ w.kind = "labor" /\ \E r, q \in rows : r # q /\ r.day = q.day
             \/ \A r \in w.steady \ w.seen :
                   /\ ~w.over
                   /\ w.offset <= Cardinality(Ahead(w.kind, Chosen(rows, w.filter), r))

RowsOK(rows) ==
    /\ rows \subseteq Row /\ IsFiniteSet(rows)
    /\ \A r, q \in rows : r.made = q.made => r = q

ListingInv ==
    /\ RowsOK(table) /\ hiders \subseteq Members /\ listWrites \in 0 .. MaxListWrites
    /\ walk # NoWalk => WalkGoesOn(walk, table)

\* Only days that are shared leave ties, and only in the labor log.
LEMMA OrdersTell ==
    ASSUME NEW rows, RowsOK(rows), NEW k \in Lists, NEW list \in SUBSET rows,
           ~(k = "labor" /\ \E r, q \in rows : r # q /\ r.day = q.day)
    PROVE  Tells(k, list)
<1> SUFFICES ASSUME NEW r \in list, NEW q \in list, r # q
             PROVE  Before(k, r, q) \/ Before(k, q, r)
  BY DEF Tells
<1>1. r \in Row /\ q \in Row /\ r.made # q.made
  BY DEF RowsOK
<1>2. r.made \in Int /\ q.made \in Int /\ r.day \in Int /\ q.day \in Int
  BY <1>1 DEF Row, Cells
<1>3. k = "labor" => r.day # q.day
  OBVIOUS
<1>4. QED
  BY <1>1, <1>2, <1>3 DEF Before, Lists

LEMMA ListingBegins == ListingInit => ListingInv
<1> SUFFICES ASSUME ListingInit
             PROVE  ListingInv
  OBVIOUS
<1>1. RowsOK(table)
  <2>1. CASE table = {}
    BY <2>1, FS_EmptySet DEF RowsOK
  <2>2. ASSUME NEW days \in [1 .. MaxMade - 1 -> Cells], NEW wall \in Cells,
               table = {[made |-> n, day |-> days[n], grade |-> 1 + (n % 2),
                         wall |-> IF n = 1 THEN 1 ELSE wall] : n \in 1 .. MaxMade - 1}
        PROVE  RowsOK(table)
    <3> DEFINE at == [n \in 1 .. MaxMade - 1 |->
                        [made |-> n, day |-> days[n], grade |-> 1 + (n % 2),
                         wall |-> IF n = 1 THEN 1 ELSE wall]]
    <3>1. MaxMade \in Nat /\ MaxMade - 1 \in Int
      BY ListingsAssumption
    <3>2. IsFiniteSet(1 .. MaxMade - 1)
      BY <3>1, FS_Interval
    <3>3. \A n \in 1 .. MaxMade - 1 : at[n] \in Row /\ at[n].made = n
      <4> SUFFICES ASSUME NEW n \in 1 .. MaxMade - 1
                   PROVE  at[n] \in Row /\ at[n].made = n
        OBVIOUS
      <4>1. n \in 1 .. MaxMade /\ days[n] \in Cells
        BY <3>1
      <4>2. 1 + (n % 2) \in Cells
        BY <3>1 DEF Cells
      <4>3. (IF n = 1 THEN 1 ELSE wall) \in Cells
        BY DEF Cells
      <4>4. QED
        BY <4>1, <4>2, <4>3 DEF Row
    <3>4. table = {at[n] : n \in 1 .. MaxMade - 1}
      BY <2>2
    <3>5. at \in Surjection(1 .. MaxMade - 1, table)
      <4>1. \A n \in 1 .. MaxMade - 1 : at[n] \in table
        BY <3>4
      <4>2. at \in [1 .. MaxMade - 1 -> table]
        BY <4>1
      <4>3. \A t \in table : \E n \in 1 .. MaxMade - 1 : at[n] = t
        BY <3>4
      <4> HIDE DEF at
      <4>4. QED
        BY <4>2, <4>3 DEF Surjection
    <3> HIDE DEF at
    <3>6. IsFiniteSet(table)
      BY <3>2, <3>5, FS_Surjection
    <3>7. QED
      BY <3>3, <3>4, <3>6 DEF RowsOK
  <2>3. QED
    BY <2>1, <2>2 DEF ListingInit
<1>2. QED
  BY <1>1, ListingsAssumption DEF ListingInit, ListingInv

\* A row that is added takes none away.
LEMMA WalksBearInserts ==
    ASSUME NEW rows, RowsOK(rows), NEW more, RowsOK(more), rows \subseteq more,
           NEW w, WalkGoesOn(w, rows)
    PROVE  WalkGoesOn(w, more)
<1> DEFINE list == Chosen(rows, w.filter)
           longer == Chosen(more, w.filter)
<1>1. CASE w.moved
  BY <1>1 DEF WalkGoesOn, Walks
<1>2. CASE ~w.moved
  <2>1. list \subseteq longer /\ IsFiniteSet(longer)
    <3>1. list \subseteq longer /\ longer \subseteq more
      BY DEF Chosen
    <3>2. QED
      BY <3>1, FS_Subset DEF RowsOK
  <2>2. w.steady \subseteq longer
    BY <1>2, <2>1 DEF WalkGoesOn, Walks
  <2>3. ASSUME NEW r
        PROVE  /\ Cardinality(Ahead(w.kind, list, r)) <= Cardinality(Ahead(w.kind, longer, r))
               /\ Cardinality(Ahead(w.kind, list, r)) \in Nat
               /\ Cardinality(Ahead(w.kind, longer, r)) \in Nat
    <3>1. Ahead(w.kind, list, r) \subseteq Ahead(w.kind, longer, r)
      BY <2>1 DEF Ahead
    <3>2. Ahead(w.kind, longer, r) \subseteq longer
      BY DEF Ahead
    <3>3. IsFiniteSet(Ahead(w.kind, longer, r))
      BY <2>1, <3>2, FS_Subset
    <3>4. IsFiniteSet(Ahead(w.kind, list, r))
      BY <3>1, <3>3, FS_Subset
    <3>5. QED
      BY <3>1, <3>3, <3>4, FS_Subset, FS_CardinalityType
  <2>4. w.offset \in Nat
    BY DEF WalkGoesOn, Walks
  <2>5. \/ w.kind = "labor" /\ \E r, q \in rows : r # q /\ r.day = q.day
        \/ \A r \in w.steady \ w.seen :
              ~w.over /\ w.offset <= Cardinality(Ahead(w.kind, list, r))
    BY <1>2 DEF WalkGoesOn, Walks
  <2>6. CASE w.kind = "labor" /\ \E r, q \in rows : r # q /\ r.day = q.day
    BY <1>2, <2>2, <2>6 DEF WalkGoesOn, Walks
  <2>7. CASE \A r \in w.steady \ w.seen :
                ~w.over /\ w.offset <= Cardinality(Ahead(w.kind, list, r))
    <3>1. \A r \in w.steady \ w.seen :
             ~w.over /\ w.offset <= Cardinality(Ahead(w.kind, longer, r))
      <4> HIDE DEF list, longer
      <4>1. QED
        BY <2>3, <2>4, <2>7
    <3>2. QED
      BY <1>2, <2>2, <3>1 DEF WalkGoesOn, Walks
  <2>8. QED
    BY <2>5, <2>6, <2>7
<1>3. QED
  BY <1>1, <1>2

\* A page shows what it has still to show, or the page after it does.
LEMMA WalksAdvance ==
    ASSUME NEW rows, RowsOK(rows), NEW w, WalkGoesOn(w, rows), ~w.over,
           NEW order \in Orders(w.kind, Chosen(rows, w.filter))
    PROVE  WalkGoesOn([w EXCEPT !.offset = @ + w.limit,
                                !.seen = @ \cup ToSet(PageOf(order, w.offset, w.limit)),
                                !.over = Len(PageOf(order, w.offset, w.limit)) < w.limit], rows)
<1> DEFINE list == Chosen(rows, w.filter)
           page == PageOf(order, w.offset, w.limit)
           v == [w EXCEPT !.offset = @ + w.limit, !.seen = @ \cup ToSet(page),
                          !.over = Len(page) < w.limit]
<1> SUFFICES WalkGoesOn(v, rows)
  OBVIOUS
<1>1. list \subseteq rows /\ list \in SUBSET Row /\ IsFiniteSet(list) /\ order \in Orders(w.kind, list)
  <2>1. list \subseteq rows
    BY DEF Chosen
  <2>2. QED
    BY <2>1, FS_Subset DEF RowsOK
<1>2. ToSet(page) \subseteq Row
  <2>1. Cardinality(list) \in Nat
    BY <1>1, FS_CardinalityType
  <2>2. order \in Seq(Row) /\ Len(order) = Cardinality(list)
    <3>1. order \in [1 .. Cardinality(list) -> list]
      BY <1>1 DEF Orders, SetToSeqs
    <3>2. order \in [1 .. Cardinality(list) -> Row]
      BY <1>1, <3>1
    <3> HIDE DEF list
    <3>3. QED
      BY <2>1, <3>2
  <2>3. w.offset \in Nat /\ w.limit \in Nat
    BY DEF WalkGoesOn, Walks
  <2>4. Min({w.offset + w.limit, Len(order)})
          = IF w.offset + w.limit <= Len(order) THEN w.offset + w.limit ELSE Len(order)
    <3>1. w.offset + w.limit \in Int /\ Len(order) \in Int
      BY <2>2, <2>3
    <3>2. QED
      BY <3>1, LeastOfTwo
  <2>5. page \in Seq(Row)
    <3> DEFINE to == Min({w.offset + w.limit, Len(order)})
    <3>1. to \in Nat /\ to <= Len(order)
      BY <2>2, <2>3, <2>4
    <3>2. page = SubSeq(order, w.offset + 1, to)
      BY DEF PageOf
    <3> HIDE DEF to, page
    <3>3. QED
      BY <2>2, <2>3, <3>1, <3>2
  <2> HIDE DEF page
  <2>6. QED
    BY <2>5 DEF ToSet
<1>3. /\ w.kind \in Lists /\ w.filter \in Filters /\ w.limit \in Nat \ {0} /\ w.offset \in Nat
      /\ w.seen \in SUBSET Row /\ w.steady \in SUBSET Row /\ w.moved \in BOOLEAN
  BY DEF WalkGoesOn, Walks
<1> HIDE DEF page
<1>4. /\ v.kind = w.kind /\ v.filter = w.filter /\ v.limit = w.limit /\ v.steady = w.steady
      /\ v.moved = w.moved /\ v.offset = w.offset + w.limit /\ v.seen = w.seen \cup ToSet(page)
      /\ v.over = (Len(page) < w.limit)
      /\ v \in Walks
  <2>1. w \in [kind : Lists, filter : Filters, limit : Nat \ {0}, offset : Nat, seen : SUBSET Row,
                steady : SUBSET Row, moved : BOOLEAN, over : BOOLEAN]
    BY DEF WalkGoesOn, Walks
  <2> HIDE DEF list
  <2>2. w.offset + w.limit \in Nat /\ w.seen \cup ToSet(page) \in SUBSET Row
    BY <1>2, <1>3
  <2>3. v \in Walks
    <3>1. (Len(page) < w.limit) \in BOOLEAN
      OBVIOUS
    <3> DEFINE over == Len(page) < w.limit
               offset == w.offset + w.limit
               seen == w.seen \cup ToSet(page)
    <3>2. v = [w EXCEPT !.offset = offset, !.seen = seen, !.over = over]
      OBVIOUS
    <3>3. offset \in Nat /\ seen \in SUBSET Row /\ over \in BOOLEAN
      BY <2>2, <3>1
    <3> HIDE DEF over, offset, seen, v
    <3>4. QED
      BY <2>1, <3>2, <3>3 DEF Walks
  <2>4. /\ v.kind = w.kind /\ v.filter = w.filter /\ v.limit = w.limit /\ v.steady = w.steady
        /\ v.moved = w.moved
    BY <2>1
  <2>5. v.offset = w.offset + w.limit /\ v.seen = w.seen \cup ToSet(page)
    BY <2>1
  <2>6. v.over = (Len(page) < w.limit)
    BY <2>1
  <2>7. QED
    BY <2>3, <2>4, <2>5, <2>6
<1> HIDE DEF v
<1>5. CASE v.moved
  BY <1>4, <1>5 DEF WalkGoesOn, Walks
<1>6. CASE ~v.moved
  <2>1. /\ w.steady \subseteq list
        /\ \/ w.kind = "labor" /\ \E r, q \in rows : r # q /\ r.day = q.day
           \/ \A r \in w.steady \ w.seen :
                 ~w.over /\ w.offset <= Cardinality(Ahead(w.kind, list, r))
    BY <1>4, <1>6 DEF WalkGoesOn, Walks
  <2>2. CASE w.kind = "labor" /\ \E r, q \in rows : r # q /\ r.day = q.day
    BY <1>4, <2>1, <2>2 DEF WalkGoesOn, Walks
  <2>3. CASE /\ ~(w.kind = "labor" /\ \E r, q \in rows : r # q /\ r.day = q.day)
             /\ \A r \in w.steady \ w.seen :
                   ~w.over /\ w.offset <= Cardinality(Ahead(w.kind, list, r))
    <3>1. Tells(w.kind, list)
      BY <1>1, <1>3, <2>3, OrdersTell
    <3>2. ASSUME NEW r \in v.steady \ v.seen
          PROVE  ~v.over /\ v.offset <= Cardinality(Ahead(v.kind, list, r))
      <4>1. r \in list /\ r \notin ToSet(page) /\ w.offset <= Cardinality(Ahead(w.kind, list, r))
        BY <1>4, <2>1, <2>3
      <4> HIDE DEF list
      <4>2. /\ w.offset + w.limit <= Cardinality(Ahead(w.kind, list, r))
            /\ ~(Len(page) < w.limit)
        BY <1>1, <1>3, <3>1, <4>1, PagesGoOn DEF page
      <4>3. QED
        BY <1>4, <4>2
    <3>3. QED
      BY <1>4, <2>1, <3>2 DEF WalkGoesOn, Walks
  <2>4. QED
    BY <2>1, <2>2, <2>3
<1>7. QED
  BY <1>5, <1>6

LEMMA ListingStep == ListingInv /\ [ListingNext]_listingVars => ListingInv'
<1> SUFFICES ASSUME ListingInv, [ListingNext]_listingVars
             PROVE  ListingInv'
  OBVIOUS
<1>1. RowsOK(table) /\ hiders \subseteq Members /\ listWrites \in 0 .. MaxListWrites
  BY DEF ListingInv
<1>2. walk # NoWalk => WalkGoesOn(walk, table)
  BY DEF ListingInv
<1>3. MaxMade \in Nat \ {0} /\ MaxListWrites \in Nat
  BY ListingsAssumption
<1>4. ASSUME NEW k \in Lists, NEW asked \in {0, 1, PageCap + 1}, NEW c \in Optional,
             StartWalk(k, asked, [Open EXCEPT !.wall = c])
      PROVE  ListingInv'
  <2> DEFINE f == [Open EXCEPT !.wall = c]
             limit == clampPage(asked)
  <2>1. f \in Filters
    BY DEF Open, Filters, Optional, Missing
  <2>2. limit \in Nat \ {0}
    <3> DEFINE a == IF asked <= 0 THEN DefaultPage ELSE asked
    <3>1. a \in Nat \ {0} /\ PageCap \in Nat \ {0}
      BY ListingsAssumption
    <3>2. limit = Min({a, PageCap})
      BY DEF clampPage
    <3> HIDE DEF a, limit
    <3>3. a \in Int /\ PageCap \in Int
      BY <3>1
    <3>4. Min({a, PageCap}) = IF a <= PageCap THEN a ELSE PageCap
      BY <3>3, LeastOfTwo
    <3>5. QED
      BY <3>1, <3>2, <3>4
  <2> HIDE DEF f, limit
  <2>3. /\ walk' = [kind |-> k, filter |-> f, limit |-> limit, offset |-> 0, seen |-> {},
                    steady |-> Listed(f), moved |-> FALSE, over |-> FALSE]
        /\ UNCHANGED <<table, hiders, listWrites>>
    BY <1>4 DEF StartWalk, f, limit
  <2>4. Listed(f) = Chosen(table, f) /\ Chosen(table, f) \in SUBSET Row
    BY <1>1 DEF Listed, Chosen, RowsOK
  <2>5. \A r : Cardinality(Ahead(k, Chosen(table, f), r)) \in Nat
    <3>1. \A r : Ahead(k, Chosen(table, f), r) \subseteq table
      BY DEF Ahead, Chosen
    <3>2. QED
      BY <1>1, <3>1, FS_Subset, FS_CardinalityType DEF RowsOK
  <2> DEFINE w == [kind |-> k, filter |-> f, limit |-> limit, offset |-> 0, seen |-> {},
                   steady |-> Chosen(table, f), moved |-> FALSE, over |-> FALSE]
  <2>6. w \in Walks
    BY <2>1, <2>2, <2>4 DEF Walks
  <2>7. /\ w.kind = k /\ w.filter = f /\ w.offset = 0 /\ w.seen = {} /\ ~w.over
        /\ w.steady = Chosen(table, f)
    OBVIOUS
  <2> HIDE DEF w
  <2>8. WalkGoesOn(w, table)
    BY <2>5, <2>6, <2>7 DEF WalkGoesOn
  <2>9. walk' = w
    BY <2>3, <2>4 DEF w
  <2>10. QED
    BY <1>1, <2>3, <2>8, <2>9 DEF ListingInv
<1>5. ASSUME NextPage
      PROVE  ListingInv'
  <2>1. PICK order \in Orders(walk.kind, Listed(walk.filter)) :
          walk' = [walk EXCEPT !.offset = @ + walk.limit,
                               !.seen = @ \cup ToSet(PageOf(order, walk.offset, walk.limit)),
                               !.over = Len(PageOf(order, walk.offset, walk.limit)) < walk.limit]
    BY <1>5 DEF NextPage, PageOf
  <2>2. walk # NoWalk /\ ~walk.over /\ UNCHANGED <<table, hiders, listWrites>>
    BY <1>5 DEF NextPage
  <2>3. order \in Orders(walk.kind, Chosen(table, walk.filter))
    BY <2>1 DEF Listed, Chosen
  <2>4. WalkGoesOn(walk', table)
    BY <1>1, <1>2, <2>1, <2>2, <2>3, WalksAdvance
  <2>5. QED
    BY <1>1, <2>2, <2>4 DEF ListingInv
<1>6. ASSUME NEW day \in Cells, NEW wall \in Cells, InsertRow(day, wall)
      PROVE  ListingInv'
  <2> DEFINE new == [made |-> MaxMade, day |-> day, wall |-> wall, grade |-> 1]
  <2>1. /\ table' = table \cup {new} /\ MaxMade \notin {r.made : r \in table}
        /\ UNCHANGED <<hiders, walk>> /\ listWrites' = listWrites + 1 /\ listWrites < MaxListWrites
    BY <1>6 DEF InsertRow
  <2>2. RowsOK(table')
    <3>1. new \in Row /\ new.made = MaxMade
      <4>1. 1 \in Cells
        BY DEF Cells
      <4>2. MaxMade \in 1 .. MaxMade
        BY <1>3
      <4>3. QED
        BY <4>1, <4>2 DEF Row
    <3> HIDE DEF new
    <3>2. IsFiniteSet(table \cup {new})
      BY <1>1, FS_AddElement DEF RowsOK
    <3>3. \A r \in table : r.made # new.made
      BY <2>1, <3>1
    <3>4. QED
      BY <1>1, <2>1, <3>1, <3>2, <3>3 DEF RowsOK
  <2>3. walk # NoWalk => WalkGoesOn(walk, table')
    BY <1>1, <1>2, <2>1, <2>2, WalksBearInserts
  <2>4. QED
    BY <1>1, <1>3, <2>1, <2>2, <2>3 DEF ListingInv
<1>7. ASSUME walk # NoWalk, NEW rows
      PROVE  WalkGoesOn([walk EXCEPT !.moved = TRUE], rows)
  <2> DEFINE w == [walk EXCEPT !.moved = TRUE]
  <2>1. walk \in Walks
    BY <1>2, <1>7 DEF WalkGoesOn
  <2>2. w \in Walks /\ w.moved
    BY <2>1 DEF Walks
  <2> HIDE DEF w
  <2>3. WalkGoesOn(w, rows)
    BY <2>2 DEF WalkGoesOn
  <2>4. QED
    BY <2>3 DEF w
<1>8. ASSUME NEW r \in table, NEW day \in Cells, MoveRow(r, day)
      PROVE  ListingInv'
  <2> DEFINE new == [r EXCEPT !.day = day]
  <2>1. /\ table' = (table \ {r}) \cup {new}
        /\ walk' = IF walk = NoWalk THEN walk ELSE [walk EXCEPT !.moved = TRUE]
        /\ UNCHANGED hiders /\ listWrites' = listWrites + 1 /\ listWrites < MaxListWrites
    BY <1>8 DEF MoveRow
  <2>2. RowsOK(table')
    <3>1. new \in Row /\ new.made = r.made
      BY <1>1 DEF RowsOK, Row
    <3> HIDE DEF new
    <3>2. IsFiniteSet((table \ {r}) \cup {new})
      <4>1. IsFiniteSet(table \ {r})
        BY <1>1, FS_RemoveElement DEF RowsOK
      <4>2. QED
        BY <4>1, FS_AddElement
    <3>3. \A q \in table \ {r} : q.made # new.made
      BY <1>1, <3>1 DEF RowsOK
    <3>4. QED
      BY <1>1, <2>1, <3>1, <3>2, <3>3 DEF RowsOK
  <2>3. walk' # NoWalk => WalkGoesOn(walk', table')
    BY <1>7, <2>1
  <2>4. QED
    BY <1>1, <1>3, <2>1, <2>2, <2>3 DEF ListingInv
<1>9. ASSUME NEW r \in table, RemoveRow(r)
      PROVE  ListingInv'
  <2>1. /\ table' = table \ {r}
        /\ walk' = IF walk = NoWalk THEN walk ELSE [walk EXCEPT !.moved = TRUE]
        /\ UNCHANGED hiders /\ listWrites' = listWrites + 1 /\ listWrites < MaxListWrites
    BY <1>9 DEF RemoveRow
  <2>2. RowsOK(table')
    <3>1. IsFiniteSet(table \ {r})
      BY <1>1, FS_RemoveElement DEF RowsOK
    <3>2. QED
      BY <1>1, <2>1, <3>1 DEF RowsOK
  <2>3. walk' # NoWalk => WalkGoesOn(walk', table')
    BY <1>7, <2>1
  <2>4. QED
    BY <1>1, <1>3, <2>1, <2>2, <2>3 DEF ListingInv
<1>10. ASSUME NEW u \in Members, ToggleProfile(u)
       PROVE  ListingInv'
  <2>1. hiders' \subseteq Members
    BY <1>1, <1>10 DEF ToggleProfile
  <2>2. UNCHANGED <<table, walk>> /\ listWrites' \in 0 .. MaxListWrites
    BY <1>1, <1>3, <1>10 DEF ToggleProfile
  <2>3. QED
    BY <1>1, <1>2, <2>1, <2>2 DEF ListingInv
<1>11. CASE EndWalk
  BY <1>1, <1>11 DEF EndWalk, ListingInv
<1>12. CASE RouteAscents \/ UNCHANGED listingVars
  <2>1. UNCHANGED <<table, hiders, walk, listWrites>>
    BY <1>12 DEF RouteAscents, listingVars
  <2>2. QED
    BY <1>1, <1>2, <2>1 DEF ListingInv
<1>13. QED
  BY <1>4, <1>5, <1>6, <1>8, <1>9, <1>10, <1>11, <1>12 DEF ListingNext

\* A person is on the team with the best of the roles there.
LEMMA TeamsAreBest ==
    ASSUME NEW scope, NEW roles, NEW line \in Team(scope, roles), NEW m \in Covering(scope),
           m.who = line.who
    PROVE  m.role <= line.role
  BY DEF Team, Ranked

LEMMA ListingHolds == ListingInv => ListsAreTrue
<1> SUFFICES ASSUME ListingInv
             PROVE  ListsAreTrue
  OBVIOUS
<1>1. ListingTypeOK
  BY DEF ListingInv, RowsOK, ListingTypeOK
<1>2. FiltersMean
  <2> SUFFICES ASSUME NEW f \in Filters
               PROVE  Listed(f) = {r \in table : Meant(r, f)}
    BY DEF FiltersMean
  <2>1. \A r \in table : Passes(r, buildWhere(f)) <=> Meant(r, f)
    BY FilterSelects DEF ListingInv, RowsOK
  <2>2. QED
    BY <2>1 DEF Listed
<1>3. WalksMissNothing
  BY DEF WalksMissNothing, ListingInv, WalkGoesOn
<1>4. TeamIsBest
  BY TeamsAreBest DEF TeamIsBest
<1>5. QED
  BY <1>1, <1>2, <1>3, <1>4 DEF ListsAreTrue

-----------------------------------------------------------------------------
(* The components side by side: module MCClimbing. *)

\* A step of the composition is one of a component, or leaves it alone.
LEMMA ClimbingSteps ==
    ASSUME [ClimbingNext]_<<focus, vars, recordVars, ascentVars, opinionVars, figureVars, listingVars>>
    PROVE  /\ [Next]_vars
           /\ [RecordsNext]_recordVars
           /\ [AscentsNext]_ascentVars
           /\ [OpinionsNext]_opinionVars
           /\ [FiguresNext]_figureVars
           /\ [ListingNext]_listingVars
<1>1. CASE ClimbingNext
  BY <1>1 DEF ClimbingNext
<1>2. CASE UNCHANGED <<focus, vars, recordVars, ascentVars, opinionVars, figureVars, listingVars>>
  BY <1>2
<1>3. QED
  BY <1>1, <1>2

\* For any number of concurrent requests, whatever they do, creations and deletions
\* exclude each other on every wall, no lock outlives its transaction, and a route
\* created under the lock of its wall and left in place is never on a deleted wall
\* (lockLiveWall, WallRepo.Delete).
THEOREM WallsAreHeld == ClimbingSpec => []WallsHold
<1>1. ClimbingInit => LockInv /\ WallsInv
  BY LocksBegin, WallsBegin DEF ClimbingInit
<1>2. (LockInv /\ WallsInv)
         /\ [ClimbingNext]_<<focus, vars, recordVars, ascentVars, opinionVars, figureVars, listingVars>>
      => (LockInv /\ WallsInv)'
  BY LocksStep, WallsStep, ClimbingSteps
<1>3. LockInv /\ WallsInv => WallsHold
  BY DEF LockInv, WallsInv, WallsHold
<1>4. QED
  BY <1>1, <1>2, <1>3, PTL DEF ClimbingSpec

\* For any number of requests that load a row and save it later, in whatever order, an
\* accepted value is in its column until a request overwrites it that had loaded the
\* row before; and the switches, marks and statuses no form carries are not overwritten
\* even so (the UPDATEs of internal/repository).
THEOREM AcceptedFieldsSurvive == ClimbingSpec => []FieldsSurvive
<1>1. ClimbingInit => FieldsSurvive
  BY FieldsBegin DEF ClimbingInit
<1>2. FieldsSurvive
         /\ [ClimbingNext]_<<focus, vars, recordVars, ascentVars, opinionVars, figureVars, listingVars>>
      => FieldsSurvive'
  BY FieldsStep, ClimbingSteps
<1>3. QED
  BY <1>1, <1>2, PTL DEF ClimbingSpec

\* For any number of parallel logs, edits and deletes, the counters the triggers keep on
\* the user and on the routes are what a recount of the ascents gives, and a route is
\* completed at most once (migrations 000002, 000012, 000037, 000038); and the average
\* of a route's ratings is off by at most half a hundredth for every write.
THEOREM TalliesAreHeld == ClimbingSpec => []TalliesHold
<1> DEFINE TalliesInv == AscentsInv /\ OpinionsInv
<1>1. ClimbingInit => TalliesInv
  BY AscentsBegin, OpinionsBegin DEF ClimbingInit
<1>2. TalliesInv
         /\ [ClimbingNext]_<<focus, vars, recordVars, ascentVars, opinionVars, figureVars, listingVars>>
      => TalliesInv'
  BY AscentsStep, OpinionsStep, ClimbingSteps
<1>3. TalliesInv => TalliesHold
  BY OneCompletesOnce DEF AscentsInv, OpinionsInv, TalliesHold
<1>4. QED
  BY <1>1, <1>2, <1>3, PTL DEF ClimbingSpec

\* For any number of routes, setters, ascents and labor logs, what several reports of a
\* gym show is the same number in each, what is broken down by kind, grade or setter
\* adds up to the whole, the trending routes do when fewer are climbed than the list has
\* room for, and what the feed leaves out is older than what it shows
\* (repository/analytics.go, RouteDistribution).
THEOREM FiguresAreHeld == ClimbingSpec => []ReportsAgree
<1>1. ClimbingInit => FiguresTypeOK
  BY FiguresBegin DEF ClimbingInit
<1>2. FiguresTypeOK
         /\ [ClimbingNext]_<<focus, vars, recordVars, ascentVars, opinionVars, figureVars, listingVars>>
      => FiguresTypeOK'
  BY FiguresStep, ClimbingSteps
<1>3. FiguresTypeOK => ReportsAgree
  BY FiguresHold
<1>4. QED
  BY <1>1, <1>2, <1>3, PTL DEF ClimbingSpec

\* For any number of rows and any page size, whatever is inserted between the pages, a
\* walk over a list shows every row that was there when it began, unless one was moved or
\* removed, or days tie in the labor log; a filter selects what it means; and a person's
\* line of the team has the best of the roles there (whereBuilder, the ORDER BYs, and the
\* member search of repository/user.go).
THEOREM ListsAreHeld == ClimbingSpec => []ListsAreTrue
<1>1. ClimbingInit => ListingInv
  BY ListingBegins DEF ClimbingInit
<1>2. ListingInv
         /\ [ClimbingNext]_<<focus, vars, recordVars, ascentVars, opinionVars, figureVars, listingVars>>
      => ListingInv'
  BY ListingStep, ClimbingSteps
<1>3. ListingInv => ListsAreTrue
  BY ListingHolds
<1>4. QED
  BY <1>1, <1>2, <1>3, PTL DEF ClimbingSpec
=============================================================================
