----------------------------- MODULE MCClimbing -----------------------------
(***************************************************************************)
(* The components around routes and climbs, on a small instance.  They     *)
(* share no state, so a run looks at one of them at a time: the others     *)
(* stay in an initial state of theirs.                                     *)
(***************************************************************************)
EXTENDS WallRoutes, RecordEdits, Ascents, Analytics, Listings, TLC

VARIABLE focus    \* the component the behaviour is of

\* A route that is listed, of the boulder or the route kind.
EnteredRow(k, circuit, system, age, strip) ==
    [kind |-> k, circuit |-> circuit, system |-> system, status |-> "active",
     deleted |-> FALSE, by |-> CHOOSE s \in Staff : TRUE, age |-> age, strip |-> strip]

MCEntered ==
    {EnteredRow("boulder", Unset, "v_scale", 3, Unset), EnteredRow("boulder", "kids", "circuit", 10, "due"),
     EnteredRow("route", "red", "circuit", 3, "later"), EnteredRow("route", "kids", "v_scale", 10, "due")}

\* The listings that are looked at vary in their first page already, and so do
\* the kinds of record; out of focus one of each is enough.
ClimbingInit ==
    /\ focus \in {"walls", "records", "ascents", "opinions", "figures", "lists"}
    /\ Init /\ AscentsInit /\ OpinionsInit /\ FiguresInit
    /\ RecordsInit /\ (focus # "records" => kind = "route" /\ row # Unborn)
    /\ ListingInit /\ (focus # "lists" => table = {} /\ people = {})

ClimbingNext ==
    \/ /\ focus = "walls" /\ Next
       /\ UNCHANGED <<focus, recordVars, ascentVars, opinionVars, figureVars, listingVars>>
    \/ /\ focus = "records" /\ RecordsNext
       /\ UNCHANGED <<focus, vars, ascentVars, opinionVars, figureVars, listingVars>>
    \/ /\ focus = "ascents" /\ AscentsNext
       /\ UNCHANGED <<focus, vars, recordVars, opinionVars, figureVars, listingVars>>
    \/ /\ focus = "opinions" /\ OpinionsNext
       /\ UNCHANGED <<focus, vars, recordVars, ascentVars, figureVars, listingVars>>
    \/ /\ focus = "figures" /\ FiguresNext
       /\ UNCHANGED <<focus, vars, recordVars, ascentVars, opinionVars, listingVars>>
    \/ /\ focus = "lists" /\ ListingNext
       /\ UNCHANGED <<focus, vars, recordVars, ascentVars, opinionVars, figureVars>>

ClimbingSpec ==
    ClimbingInit
    /\ [][ClimbingNext]_<<focus, vars, recordVars, ascentVars, opinionVars, figureVars, listingVars>>

\* Creations and deletions exclude each other on every wall, from the lock to the
\* end of the transaction, and no route that was created under the lock of its wall
\* and left in place is in use on a deleted one (lockLiveWall, WallRepo.Delete).
WallsHold == TypeOK /\ LocksHeld /\ NoRouteLeftBehind

\* What is counted beside the rows agrees with them: the climbs of a member and
\* of a route with the ascents left, at most one completion, and the average with
\* the ratings it was advanced by (repository/ascent.go, repository/rating.go).
TalliesHold ==
    /\ AscentsTypeOK /\ CountersMatchRows /\ OneCompletion
    /\ OpinionsTypeOK /\ AverageIsNear
=============================================================================
