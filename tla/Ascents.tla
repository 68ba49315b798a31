-------------------------------- MODULE Ascents --------------------------------
(***************************************************************************)
(* What climbers leave on routes, and the numbers that triggers keep beside *)
(* the rows: one climber's ascents, and the opinions of many on one route. *)
(*                                                                         *)
(* One climber's ascents and the counters the triggers of migrations        *)
(* 000002, 000037 and 000038 keep on the user and on the routes.  A write  *)
(* is one transaction of three steps: the row, the look the users trigger  *)
(* takes at the table (its statement's snapshot, before it waits for the   *)
(* users row), and the commit with the counters on their newest values.    *)
(* "project" counts as "attempt" everywhere and is left out.               *)
(*                                                                         *)
(* Star ratings, whose average the trigger of migration 000002 keeps on    *)
(* the route in a NUMERIC(3,2), and votes on its difficulty: a write is    *)
(* one statement with its trigger.                                         *)
(***************************************************************************)
EXTENDS Integers, FiniteSets

CONSTANTS
    Climbs,       \* requests in flight
    Ticks,        \* ids of ascents
    Climbable,    \* routes
    MaxClimbed    \* bound on the rows ever written

VARIABLES
    ascents,      \* committed rows: tick -> [route, type]
    climb,        \* request -> transaction
    users,        \* the climber's counters
    routes,       \* route -> counters
    climbed,      \* rows written so far
    overlapped    \* history: routes on which two first or last ticks met

ascentVars == <<ascents, climb, users, routes, climbed, overlapped>>

-----------------------------------------------------------------------------
Types == {"send", "flash", "attempt"}
Completes(t) == t \in {"send", "flash"}
Transactions == [op : {"insert", "update", "delete"}, tick : Ticks, route : Climbable,
                 type : Types, step : {"asked", "written", "looked"}, alone : BOOLEAN]
NoClimb == [op |-> "none"]

Indicator(b) == IF b THEN 1 ELSE 0
\* GREATEST(0, n - d)
Lowered(n, d) == IF d > n THEN 0 ELSE n - d
\* GREATEST(0, n + up - down)
Moved(n, up, down) == Lowered(n + up, down)

TicksOn(r) == {i \in DOMAIN ascents : ascents[i].route = r}
Writing(c) == climb[c] # NoClimb /\ climb[c].step # "asked"
Pending(i) == \E c \in Climbs : Writing(c) /\ climb[c].tick = i

AscentsTypeOK ==
    /\ \A i \in DOMAIN ascents : i \in Ticks /\ ascents[i] \in [route : Climbable, type : Types]
    /\ climb \in [Climbs -> Transactions \cup {NoClimb}]
    /\ users \in [sends : Nat, flashes : Nat, logged : Nat, unique : Nat]
    /\ routes \in [Climbable -> [ascents : Nat, attempts : Nat]]
    /\ overlapped \subseteq Climbable

AscentsInit ==
    /\ ascents = [i \in {} |-> i]
    /\ climb = [c \in Climbs |-> NoClimb]
    /\ users = [sends |-> 0, flashes |-> 0, logged |-> 0, unique |-> 0]
    /\ routes = [r \in Climbable |-> [ascents |-> 0, attempts |-> 0]]
    /\ climbed = 0 /\ overlapped = {}

-----------------------------------------------------------------------------
AskFor(c, op, i, r, t) ==
    /\ climb[c] = NoClimb
    /\ climb' = [climb EXCEPT ![c] = [op |-> op, tick |-> i, route |-> r, type |-> t,
                                      step |-> "asked", alone |-> FALSE]]
    /\ UNCHANGED <<ascents, users, routes, climbed, overlapped>>

NewTick == CHOOSE i \in Ticks :
    i \notin DOMAIN ascents /\ \A c \in Climbs : climb[c] # NoClimb => climb[c].tick # i
HasNewTick == \E i \in Ticks :
    i \notin DOMAIN ascents /\ \A c \in Climbs : climb[c] # NoClimb => climb[c].tick # i

\* The handlers leave every check to the index.
Log(c, r, t) ==
    /\ climbed < MaxClimbed /\ HasNewTick
    /\ AskFor(c, "insert", NewTick, r, t)

UpdateMine(c, i, t) == AskFor(c, "update", i, ascents[i].route, t)
DeleteMine(c, i) == AskFor(c, "delete", i, ascents[i].route, ascents[i].type)

-----------------------------------------------------------------------------
\* Mutant of IndexAdmits: no partial unique index (before migration 000012).
IndexAdmitsAll(x) == TRUE

\* idx_ascents_one_completion_per_user_route, pending rows included.
IndexAdmits(x) ==
    x.op # "delete" /\ Completes(x.type) =>
        /\ \A i \in TicksOn(x.route) \ {x.tick} : ~Completes(ascents[i].type)
        /\ \A c \in Climbs :
              Writing(c) /\ climb[c].route = x.route /\ climb[c].tick # x.tick
                 => ~Completes(climb[c].type)

\* The row itself; a row another transaction writes is waited for.
Write(c) ==
    LET x == climb[c] IN
    /\ x # NoClimb /\ x.step = "asked"
    /\ climbed < MaxClimbed
    /\ x.op # "insert" => x.tick \in DOMAIN ascents /\ ~Pending(x.tick)
    /\ IndexAdmits(x)
    /\ climb' = [climb EXCEPT ![c].step = "written"]
    /\ climbed' = climbed + 1
    /\ UNCHANGED <<ascents, users, routes, overlapped>>

\* Refused by the index or a lost row, or rolled back.
Abandon(c) ==
    /\ climb[c] # NoClimb
    /\ climb' = [climb EXCEPT ![c] = NoClimb]
    /\ UNCHANGED <<ascents, users, routes, climbed, overlapped>>

\* EXISTS in update_user_ascent_counters: committed rows only.
Look(c) ==
    LET x == climb[c] IN
    /\ x # NoClimb /\ x.step = "written"
    /\ climb' = [climb EXCEPT ![c].step = "looked",
                              ![c].alone = TicksOn(x.route) \ {x.tick} = {}]
    /\ overlapped' =
          IF \E d \in Climbs \ {c} : Writing(d) /\ climb[d].op # "update"
                                     /\ climb[d].route = x.route
          THEN overlapped \cup {x.route} ELSE overlapped
    /\ UNCHANGED <<ascents, users, routes, climbed>>

Inserted(u, x) ==
    [sends |-> u.sends + Indicator(Completes(x.type)),
     flashes |-> u.flashes + Indicator(x.type = "flash"),
     logged |-> u.logged + 1, unique |-> u.unique + Indicator(x.alone)]

Deleted(u, old, x) ==
    [sends |-> Lowered(u.sends, Indicator(Completes(old))),
     flashes |-> Lowered(u.flashes, Indicator(old = "flash")),
     logged |-> Lowered(u.logged, 1), unique |-> Lowered(u.unique, Indicator(x.alone))]

\* Mutant of Retyped: only inserts and deletes are counted.
RetypedNever(u, old, new) == u

\* update_user_ascent_counters_on_update
Retyped(u, old, new) ==
    [u EXCEPT !.sends = Moved(@, Indicator(Completes(new)), Indicator(Completes(old))),
              !.flashes = Moved(@, Indicator(new = "flash"), Indicator(old = "flash"))]

\* Mutant of RouteCounted: migration 000002 alone, inserts only.
RouteCountedOnInsert(n, op, old, new) ==
    IF op # "insert" THEN n
    ELSE [ascents |-> n.ascents + Indicator(Completes(new)), attempts |-> n.attempts + 1]

\* The three triggers on routes.
RouteCounted(n, op, old, new) ==
    CASE op = "insert" -> [ascents |-> n.ascents + Indicator(Completes(new)),
                           attempts |-> n.attempts + 1]
      [] op = "delete" -> [ascents |-> Lowered(n.ascents, Indicator(Completes(old))),
                           attempts |-> Lowered(n.attempts, 1)]
      [] op = "update" -> [n EXCEPT !.ascents =
                              Moved(@, Indicator(Completes(new)), Indicator(Completes(old)))]

Commit(c) ==
    LET x == climb[c]
        old == IF x.op = "insert" THEN x.type ELSE ascents[x.tick].type
        left == DOMAIN ascents \ {x.tick}
    IN
    /\ x # NoClimb /\ x.step = "looked"
    /\ climb' = [climb EXCEPT ![c] = NoClimb]
    /\ ascents' = [i \in left \cup (IF x.op = "delete" THEN {} ELSE {x.tick}) |->
                      IF i = x.tick THEN [route |-> x.route, type |-> x.type] ELSE ascents[i]]
    /\ users' = CASE x.op = "insert" -> Inserted(users, x)
                  [] x.op = "delete" -> Deleted(users, old, x)
                  [] x.op = "update" -> Retyped(users, old, x.type)
    /\ routes' = [routes EXCEPT ![x.route] = RouteCounted(@, x.op, old, x.type)]
    /\ UNCHANGED <<climbed, overlapped>>

AscentsNext ==
    \E c \in Climbs :
        \/ \E r \in Climbable, t \in Types : Log(c, r, t)
        \/ \E i \in DOMAIN ascents, t \in Types : UpdateMine(c, i, t)
        \/ \E i \in DOMAIN ascents : DeleteMine(c, i)
        \/ Write(c) \/ Look(c) \/ Commit(c) \/ Abandon(c)

AscentsSpec == AscentsInit /\ [][AscentsNext]_ascentVars

-----------------------------------------------------------------------------
HowMany(S) == Cardinality(S)
OfType(S, P) == {i \in S : ascents[i].type \in P}

\* The counters of the user and of the routes are what a recount of ascents
\* gives (migrations 000037, 000038), under parallel logs, edits and deletes;
\* the distinct routes unless two first or last ticks of a route overlapped.
CountersMatchRows ==
    /\ users.sends = HowMany(OfType(DOMAIN ascents, {"send", "flash"}))
    /\ users.flashes = HowMany(OfType(DOMAIN ascents, {"flash"}))
    /\ users.logged = HowMany(DOMAIN ascents)
    /\ \A r \in Climbable :
          /\ routes[r].ascents = HowMany(OfType(TicksOn(r), {"send", "flash"}))
          /\ routes[r].attempts = HowMany(TicksOn(r))
    /\ overlapped = {} =>
          users.unique = HowMany({ascents[i].route : i \in DOMAIN ascents})

\* A climber completes a route once, in whatever order logs and edits land
\* (migration 000012).
OneCompletion == \A r \in Climbable : HowMany(OfType(TicksOn(r), {"send", "flash"})) <= 1

-----------------------------------------------------------------------------
(* What climbers think of a route. *)

CONSTANTS
    Raters,
    Stars,        \* the ratings given, within 1 .. 5
    MaxOpinions   \* bound on the writes

ASSUME OpinionsAssumption ==
    IsFiniteSet(Raters) /\ Stars \subseteq 1 .. 5 /\ MaxOpinions \in Nat

VARIABLES
    ratings,      \* rater -> stars, 0 before the first
    avg_rating,   \* in hundredths
    rating_count,
    votes,        \* rater -> vote
    opinions      \* writes so far

opinionVars == <<ratings, avg_rating, rating_count, votes, opinions>>

-----------------------------------------------------------------------------
ValidDifficultyVotes == {"easy", "right", "hard"}
NoVote == "none"

\* What a NUMERIC(3,2) holds; a statement that would go beyond fails.
Storable == -999 .. 999

OpinionsTypeOK ==
    /\ ratings \in [Raters -> Stars \cup {0}] /\ avg_rating \in Storable
    /\ rating_count \in 0 .. Cardinality(Raters)
    /\ votes \in [Raters -> ValidDifficultyVotes \cup {NoVote}]
    /\ opinions \in 0 .. MaxOpinions

OpinionsInit ==
    /\ ratings = [u \in Raters |-> 0] /\ avg_rating = 0 /\ rating_count = 0
    /\ votes = [u \in Raters |-> NoVote] /\ opinions = 0

\* n / d rounded half away from zero, as the column's two digits ask.
Rounded(n, d) ==
    IF n >= 0 THEN (2 * n + d) \div (2 * d) ELSE -((2 * (-n) + d) \div (2 * d))

\* Mutant of AfterInsert: the old count is divided by.
AfterInsertUncounted(v) ==
    Rounded(avg_rating * rating_count + 100 * v, IF rating_count = 0 THEN 1 ELSE rating_count)

AfterInsert(v) == Rounded(avg_rating * rating_count + 100 * v, rating_count + 1)

\* avg_rating + (NEW.rating - OLD.rating) / GREATEST(rating_count, 1)
AfterChange(v, old) ==
    LET count == IF rating_count = 0 THEN 1 ELSE rating_count
    IN Rounded(avg_rating * count + 100 * (v - old), count)

\* RatingRepo.Upsert with trg_rating_avg.
UpsertRating(u, v) ==
    /\ ratings' = [ratings EXCEPT ![u] = v]
    /\ IF ratings[u] = 0
       THEN avg_rating' = AfterInsert(v) /\ rating_count' = rating_count + 1
       ELSE avg_rating' = AfterChange(v, ratings[u]) /\ UNCHANGED rating_count
    /\ avg_rating' \in Storable

UpsertVote(u, vote) == votes' = [votes EXCEPT ![u] = vote]

OneMore == opinions < MaxOpinions /\ opinions' = opinions + 1

Rate(u, v) == OneMore /\ UpsertRating(u, v) /\ UNCHANGED votes
Vote(u, vote) ==
    /\ OneMore /\ UpsertVote(u, vote)
    /\ UNCHANGED <<ratings, avg_rating, rating_count>>

OpinionsNext ==
    \E u \in Raters :
        \/ \E v \in Stars : Rate(u, v)
        \/ \E vote \in ValidDifficultyVotes : Vote(u, vote)

OpinionsSpec == OpinionsInit /\ [][OpinionsNext]_opinionVars

-----------------------------------------------------------------------------
Givers(v) == Cardinality({u \in Raters : ratings[u] = v})
StarsGiven == Givers(1) + 2 * Givers(2) + 3 * Givers(3) + 4 * Givers(4) + 5 * Givers(5)
Apart(a, b) == IF a > b THEN a - b ELSE b - a

\* The stored average drifts from the mean by at most half a hundredth for
\* every write, however often climbers change their minds.
AverageIsNear ==
    2 * Apart(avg_rating * rating_count, 100 * StarsGiven) <= rating_count * opinions

\* A route's average is one a rating could have: it stays within the stars.
AverageIsARating == rating_count > 0 => avg_rating \in 100 .. 500
=============================================================================
