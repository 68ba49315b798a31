------------------------------- MODULE CompBoard -------------------------------
(***************************************************************************)
(* A competition from its set-up to its leaderboard: events and problems   *)
(* (internal/handler/comp.go, comp_events.go, comp_problems.go),           *)
(* registrations (comp_registration.go), and the ranking                   *)
(* (comp_leaderboard.go, internal/service/competition).  How a result      *)
(* comes about is CompAttempts; here it is one of a set of Results.  How   *)
(* the board reaches the pages is LeaderboardStream.  A category is a       *)
(* competition of its own as far as the ranking goes; bib numbers are left *)
(* out.                                                                    *)
(***************************************************************************)
EXTENDS Integers, Sequences, FiniteSets, FiniteSetsExt, SequencesExt, Functions

CONSTANTS
    Climbers, BoardProblems, BoardEvents,
    Results,      \* [attempts, zoneAttempts, zone, top]
    Points,       \* points[p] of the fixed rule, 0 for a problem without
    FlashBonus,
    DecayBase,    \* base_points, in units in which the points of every result are whole
    DecayRate,    \* decay_rate, in parts of
    RateUnit,
    Tier,         \* more than the attempts of any result
    Overrides,    \* what events are created with: rules, "none"
    NoEvent

\* Not even a row of zeros, which a reset leaves.
NoResult == [attempts |-> -1, zoneAttempts |-> 0, zone |-> FALSE, top |-> FALSE]

ASSUME CompBoardAssumption ==
    /\ IsFiniteSet(Climbers) /\ IsFiniteSet(BoardProblems)
    /\ Tier \in Nat /\ FlashBonus \in Int
    /\ DecayBase \in Int /\ DecayRate \in Int /\ RateUnit \in Nat \ {0}
    /\ Points \in [BoardProblems -> Int]
    /\ Results \subseteq [attempts : 0 .. Tier - 1, zoneAttempts : 0 .. Tier - 1,
                         zone : BOOLEAN, top : BOOLEAN]
    /\ NoEvent \notin BoardEvents

Rules == {"top_zone", "fixed", "decay"}

VARIABLES
    rule,         \* competitions.scoring_rule
    override,     \* competition_events.scoring_rule_override; "absent": no event
    eventOf,      \* problem -> event
    registered,   \* registrations in the order of created_at
    withdrawn,
    card          \* climber -> problem -> result

boardVars == <<rule, override, eventOf, registered, withdrawn, card>>

BoardTypeOK ==
    /\ rule \in Rules
    /\ override \in [BoardEvents -> Overrides \cup {"absent"}]
    /\ eventOf \in [BoardProblems -> BoardEvents \cup {NoEvent}]
    /\ registered \in Seq(Climbers) /\ IsInjective(registered)
    /\ withdrawn \subseteq ToSet(registered)
    /\ card \in [Climbers -> [BoardProblems -> Results \cup {NoResult}]]

BoardInit ==
    /\ rule \in Rules
    /\ override = [e \in BoardEvents |-> "absent"]
    /\ eventOf = [p \in BoardProblems |-> NoEvent]
    /\ registered = <<>> /\ withdrawn = {}
    /\ card = [c \in Climbers |-> [p \in BoardProblems |-> NoResult]]

-----------------------------------------------------------------------------
\* AddEvent; UNIQUE (competition_id, sequence).
AddEvent(e, r) ==
    /\ override[e] = "absent"
    /\ override' = [override EXCEPT ![e] = r]
    /\ UNCHANGED <<rule, eventOf, registered, withdrawn, card>>

\* AddProblem, in an event that exists; UNIQUE (event_id, label).
AddProblem(p, e) ==
    /\ eventOf[p] = NoEvent /\ override[e] # "absent"
    /\ eventOf' = [eventOf EXCEPT ![p] = e]
    /\ UNCHANGED <<rule, override, registered, withdrawn, card>>

\* Update with another scoring_rule, at any time of the competition.
ChangeRule(r) ==
    /\ rule # r /\ registered # <<>>
    /\ rule' = r
    /\ UNCHANGED <<override, eventOf, registered, withdrawn, card>>

\* CreateRegistration.  UNIQUE (competition_id, user_id) keeps out who is
\* registered, and who has withdrawn.
Register(c) ==
    /\ c \notin ToSet(registered)
    /\ registered' = Append(registered, c)
    /\ UNCHANGED <<rule, override, eventOf, withdrawn, card>>

\* Withdraw: marked, not deleted; the results stay.
WithdrawRegistration(c) ==
    /\ c \in ToSet(registered) \ withdrawn
    /\ withdrawn' = withdrawn \cup {c}
    /\ UNCHANGED <<rule, override, eventOf, registered, card>>

\* The actions of the scorecard and the overrides of the staff.
Score(c, p, r) ==
    /\ c \in ToSet(registered) \ withdrawn /\ eventOf[p] # NoEvent
    /\ card[c][p] # r
    /\ card' = [card EXCEPT ![c][p] = r]
    /\ UNCHANGED <<rule, override, eventOf, registered, withdrawn>>

BoardNext ==
    \/ \E e \in BoardEvents :
          \/ \E r \in Overrides : AddEvent(e, r)
          \/ \E p \in BoardProblems : AddProblem(p, e)
    \/ \E r \in Rules : ChangeRule(r)
    \/ \E c \in Climbers :
          \/ Register(c) \/ WithdrawRegistration(c)
          \/ \E p \in BoardProblems, r \in Results : Score(c, p, r)

BoardSpec == BoardInit /\ [][BoardNext]_boardVars

-----------------------------------------------------------------------------
(* Scores. *)

\* The scorers are functions of a climber's row of results; results of problems
\* that are not listed do not count.
Rows(row) == {p \in BoardProblems : eventOf[p] # NoEvent /\ row[p] # NoResult}
Topped(row) == {p \in Rows(row) : row[p].top}
Zoned(row) == {p \in Rows(row) : row[p].zone}

AttemptsToTop(row) == SumFunctionOnSet([p \in BoardProblems |-> row[p].attempts], Topped(row))
AttemptsToZone(row) == SumFunctionOnSet([p \in BoardProblems |-> row[p].zoneAttempts], Zoned(row))

\* decayPoints: base / (1 + rate * (attempts - 1)).
Divisor(attempts) == RateUnit + DecayRate * (IF attempts < 1 THEN 0 ELSE attempts - 1)
DecayPoints(attempts) == (DecayBase * RateUnit) \div Divisor(attempts)

ASSUME DecayAssumption == \A result \in Results : Divisor(result.attempts) > 0

\* What a top is worth to the two scorers that count points.
Worth(r, p, attempts) ==
    (IF r = "fixed" THEN Points[p] ELSE DecayPoints(attempts))
    + (IF attempts = 1 THEN FlashBonus ELSE 0)

TotalPoints(r, row) ==
    SumFunctionOnSet([p \in BoardProblems |-> Worth(r, p, row[p].attempts)], Topped(row))

\* cmpGoodness as a number: a top beats a zone beats neither, then fewer attempts.
Goodness(result) == IF result.top THEN result.attempts
                    ELSE IF result.zone THEN Tier + result.zoneAttempts ELSE 2 * Tier

\* sortedByGoodnessDesc: the i-th is the least that i results reach.
Nth(row, i) ==
    Min({v \in {Goodness(row[p]) : p \in Rows(row)} :
           Cardinality({p \in Rows(row) : Goodness(row[p]) <= v}) >= i})

CountBack(row) == [i \in 1 .. Cardinality(Rows(row)) |-> Nth(row, i)]

\* Mutant of Key: attempts before tops.
KeyByAttempts(r, row) == <<AttemptsToTop(row), 0 - Cardinality(Topped(row))>>

\* cmpTopZone and cmpPointsDesc: smaller is better.
Key(r, row) ==
    IF r = "top_zone"
    THEN <<0 - Cardinality(Topped(row)), 0 - Cardinality(Zoned(row)),
           AttemptsToTop(row), AttemptsToZone(row)>> \o CountBack(row)
    ELSE <<0 - TotalPoints(r, row), AttemptsToTop(row)>>

\* The first difference decides; a shorter count-back that agrees is a tie.
Better(r, row, other) ==
    LET s == Key(r, row) t == Key(r, other) IN
    \E i \in DOMAIN s \cap DOMAIN t :
        s[i] < t[i] /\ \A j \in 1 .. i - 1 : s[j] = t[j]

-----------------------------------------------------------------------------
(* Ranks. *)

Active == ToSet(registered) \ withdrawn

\* A climber comes after the last of those who are not worse.
NotWorse(r, sorted, c) == {i \in DOMAIN sorted : ~Better(r, card[c], card[sorted[i]])}
PutIn(r, sorted, c) == InsertAt(sorted, Max({0} \cup NotWorse(r, sorted, c)) + 1, c)

\* sort.SliceStable: the active climbers are put in one by one.
Sorted(r) ==
    LET upTo[n \in 0 .. Len(registered)] ==
            IF n = 0 THEN <<>>
            ELSE IF registered[n] \in withdrawn THEN upTo[n - 1]
            ELSE PutIn(r, upTo[n - 1], registered[n])
    IN  upTo[Len(registered)]

\* Mutant of Ranks: ties are not looked at.
RanksByPlace(r) ==
    LET s == Sorted(r) IN [c \in ToSet(s) |-> CHOOSE i \in DOMAIN s : s[i] = c]

\* assignStandardRanks: a climber tied with the one before shares the rank.
Tied(r, c, d) == ~Better(r, card[c], card[d]) /\ ~Better(r, card[d], card[c])
RankAt(r, sorted, i) == Max({j \in 1 .. i : j = 1 \/ ~Tied(r, sorted[j - 1], sorted[j])})

Ranks(r) ==
    LET s == Sorted(r)
    IN  [c \in ToSet(s) |-> RankAt(r, s, CHOOSE i \in DOMAIN s : s[i] = c)]

\* aggregateLeaderboard.
Board == Ranks(rule)

-----------------------------------------------------------------------------
\* Every top has its zone, as the scorecard records it (comp_action.go); staff may
\* override a result with any other (OverrideAttempt).
Climbed == \A c \in Active, p \in BoardProblems : card[c][p].top => card[c][p].zone

\* The rank of a climber is one more than the number of active climbers who are
\* better (scorer.go:66-69), whatever the order the rows came in, count-back
\* included (sort.SliceStable, assignStandardRanks, cmpTopZone).  By tops and zones
\* only among results as they are climbed: count-back skips the places that a
\* shorter card does not have, and ties with those between which there is a better.
RankCountsBetter ==
    (rule = "top_zone" => Climbed) =>
        LET ranks == Board IN
        \A c \in Active :
            ranks[c] = 1 + Cardinality({d \in Active : Better(rule, card[d], card[c])})

\* A climber who tops a problem, in whatever way, falls behind nobody who was not
\* ahead (Score and Rank of the three scorers), if the top is worth anything.
TopsNeverHurt ==
    \A c, d \in Active, p \in BoardProblems, result \in Results :
        /\ result.top /\ ~card[c][p].top
        /\ rule = "top_zone" \/ Worth(rule, p, result.attempts) > 0
        /\ Better(rule, card[d], [card[c] EXCEPT ![p] = result])
        => Better(rule, card[d], card[c])

\* "If set, overrides the comp-level scoring_rule for this event"
\* (api/openapi.yaml:987): a competition of one event is ranked by its override.
OverrideIsHonoured ==
    \A e \in BoardEvents :
        /\ override[e] \in Rules
        /\ \A d \in BoardEvents \ {e} : override[d] = "absent"
        => Board = Ranks(override[e])
=============================================================================
