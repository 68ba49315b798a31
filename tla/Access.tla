------------------------------- MODULE Access -------------------------------
(***************************************************************************)
(* Who may call what: the operations the router registers, the gates it    *)
(* puts before each of them (internal/router/router.go), and what a        *)
(* request meets on the way in - AuthenticateCookieOrJWT, the membership   *)
(* lookups of Authorizer, RequireSession with its view-as cookie - while   *)
(* the user signs out, tokens run out, roles change and lookups fail.      *)
(*                                                                         *)
(* Every gate reads the database anew: a request behind two gates reads    *)
(* the caller's role twice.  A role is its rank (rbac.Rank), 0 for none.   *)
(* The rows of one user are modelled, one per org or location.             *)
(***************************************************************************)
EXTENDS Memberships, Integers, Sequences, FiniteSetsExt

CONSTANTS
    Org,          \* the org of the gym asked for
    Gym,          \* the location asked for
    Branch,       \* another location of the org
    Grants,       \* ranks of a membership, with 0 for none
    MaxRoleChanges,   \* bound on sign-outs, expiries and changes of role
    MaxLookupFaults     \* bound on failed lookups

Places == {Org, Gym, Branch}

ASSUME AccessAssumption ==
    /\ Cardinality(Places) = 3
    /\ 0 \in Grants /\ Grants \subseteq 0 .. OrgAdmin
    /\ {MaxRoleChanges, MaxLookupFaults} \subseteq Nat

-----------------------------------------------------------------------------
(* The routes. *)

\* RequireLocationRole and RequireOrgRole; RequireLocationMember and
\* RequireOrgMember ask for any row.
AtLeast(rank) == [gate |-> "role", least |-> rank]
Member == AtLeast(1)

\* requireCompRole: the row tells the location, the handler looks the role up.
Staff(rank) == [gate |-> "staff", least |-> rank]

\* requireHeadSetterAt, for quests, domains and badges by id.
HeadSetterAt == [gate |-> "owner", least |-> HeadSetter]

Behind(gates, ops) == [gates |-> gates, ops |-> ops]

Mine == {Behind(<<>>,
    {"Me", "UpdateMe", "ChangePassword", "SetViewAs", "MyAscents",
     "UpdateMine", "DeleteMine", "MyStats", "MyGradePyramid", "MyQuests",
     "Notifications", "UnreadCount", "MarkRead", "MarkAllRead", "Feed",
     "MyLabor", "MyPlans", "MyProfile", "ListOrgs"})}

Orgs == {
    Behind(<<Member>>, {"GetOrg", "ListLocations", "ListTags"}),
    Behind(<<Member, AtLeast(OrgAdmin)>>,
           {"UpdateOrg", "ListOrgTeam", "CreateLocation"}),
    Behind(<<Member, AtLeast(HeadSetter)>>, {"OrgOverview"}),
    Behind(<<Member, AtLeast(Setter)>>, {"CreateTag", "DeleteTag"}),
    \* Their handlers weigh the ranks: module Memberships.
    Behind(<<>>, {"UpdateMembership", "RemoveMembership"})}

Walls == {
    Behind(<<Member>>, {"GetLocation", "ListWalls", "GetWall"}),
    Behind(<<Member, AtLeast(OrgAdmin)>>, {"UpdateLocation"}),
    Behind(<<Member, AtLeast(GymManager)>>, {"SetProgressions"}),
    Behind(<<Member, AtLeast(Setter)>>, {"CreateWall", "UpdateWall"}),
    Behind(<<Member, AtLeast(HeadSetter)>>,
           {"DeleteWall", "ArchiveWall", "UnarchiveWall"})}

Climbs == {
    Behind(<<Member>>,
        {"ListRoutes", "GetRoute", "RouteAscents", "RouteRatings", "PrintPNG",
         "PrintPDF", "DigitalPNG", "DigitalPDF", "LogAscent", "Rate",
         "ListPhotos", "UploadPhoto", "DeletePhoto", "ListRouteTags",
         "AddTag", "RemoveTag", "GetDifficulty", "VoteDifficulty"}),
    Behind(<<Member, AtLeast(Setter)>>,
        {"Distribution", "CreateRoute", "UpdateRoute", "UpdateRouteStatus"}),
    Behind(<<Member, AtLeast(HeadSetter)>>, {"BulkArchive", "ModerateTags"})}

Batches == {Behind(<<Member, AtLeast(Setter)>>,
    {"ListBatches", "CreateBatch", "GetBatch", "DownloadBatch", "UpdateBatch",
     "RetryBatch", "DeleteBatch"})}

Sittings == {
    Behind(<<Member, AtLeast(Setter)>>,
        {"ListSessions", "GetSession", "ListSessionRoutes",
         "ListStripTargets", "ListChecklist", "ToggleChecklistItem"}),
    Behind(<<Member, AtLeast(Setter), AtLeast(HeadSetter)>>,
        {"CreateSession", "UpdateSession", "DeleteSession", "UpdateStatus",
         "Assign", "Unassign", "AddRoute", "EditRoute", "DeleteRoute",
         "AddStripTarget", "RemoveStripTarget", "Publish"})}

Crew == {
    Behind(<<Member, AtLeast(Setter)>>,
        {"LogLabor", "CreatePlan", "ListPlans", "GetPlan", "UpdatePlan",
         "AddItem", "UpdateItem"}),
    Behind(<<Member, AtLeast(HeadSetter)>>, {"ListLabor"}),
    Behind(<<Member>>, {"SearchPartners", "UpdateProfile"})}

Boards == {
    Behind(<<Member, AtLeast(HeadSetter)>>,
        {"GradeDistribution", "RouteLifecycle", "Engagement",
         "SetterProductivity", "CreateCompetition", "ListTeam"}),
    Behind(<<Member>>,
        {"ListCompetitions", "ListQuests", "Showcase", "ListActivity"}),
    Behind(<<Member, AtLeast(Setter)>>, {"Dashboard"})}

Settings == {
    Behind(<<Member, AtLeast(Setter)>>,
        {"GetSettings", "ListPresets", "ListPlaybook", "ListTargets"}),
    Behind(<<Member, AtLeast(HeadSetter)>>,
        {"UpdateSettings", "ApplyPreset", "CreateStep", "UpdateStep",
         "DeleteStep", "MoveStep", "ReplaceTargets"})}

Progressions == {
    Behind(<<Member, AtLeast(HeadSetter)>>,
        {"ListAllQuests", "CreateQuest", "DeactivateQuest", "DuplicateQuest",
         "ListDomains", "CreateDomain", "DeleteDomain", "ListBadges",
         "CreateBadge"}),
    Behind(<<HeadSetterAt>>,
        {"UpdateQuest", "UpdateDomain", "UpdateBadge", "DeleteBadge"}),
    Behind(<<>>, {"GetQuest", "StartQuest", "LogProgress", "AbandonQuest"})}

\* Own registrations and attempts need no role; those of others do.
Comps == {
    Behind(<<>>,
        {"GetBySlug", "GetCompetition", "ListEvents", "ListCategories",
         "ListRegistrations", "Register", "SubmitActions", "ListProblems",
         "Withdraw", "ListAttempts", "GetLeaderboard", "StreamLeaderboard"}),
    Behind(<<Staff(HeadSetter)>>,
        {"UpdateCompetition", "CreateEvent", "CreateCategory", "UpdateEvent",
         "CreateProblem", "UpdateProblem", "VerifyAttempt",
         "OverrideAttempt"}),
    Behind(<<Staff(GymManager)>>,
        {"RegisterOther", "WithdrawOther", "ListAttemptsOfOther"})}

Social == {Behind(<<>>, {"Follow", "Unfollow", "Followers", "Following"})}

ApiGroups == Mine \cup Orgs \cup Walls \cup Climbs \cup Batches
               \cup Sittings \cup Crew \cup Boards \cup Settings
               \cup Progressions \cup Comps \cup Social

\* RequireSetterSession and RequireAppAdmin read what RequireSession found.
WebGroups == {
    Behind(<<>>,
        {"Setup", "JoinGym", "Logout", "RouteCard", "QuestComplete"}),
    Behind(<<[gate |-> "setter", least |-> Setter]>>,
        {"CardBatchDownload", "CardBatchCutlines", "CardBatchPreview"}),
    Behind(<<[gate |-> "admin", least |-> 0]>>, {"Health", "Metrics"})}

ApiGates == {g.gates : g \in ApiGroups}
WebGates == {g.gates : g \in WebGroups}

-----------------------------------------------------------------------------

VARIABLES
    signed,    \* the session of the cookie is neither revoked nor expired
    jwt,     \* the access token has not expired
    role,      \* rank of the user's membership of each place
    viewAs,    \* rank in the view-as cookie, 0 for none
    admin,     \* users.is_app_admin
    call,      \* the request under way
    spent      \* changes and faults so far

access == <<signed, jwt, role, viewAs, admin, call, spent>>

\* Resting, or answered.
NoCall == [pc |-> "idle", gates |-> <<>>, web |-> FALSE, cookie |-> FALSE,
           bearer |-> FALSE, seen |-> 0, answer |-> "none", least |-> 0,
           out |-> FALSE, in |-> FALSE, low |-> 0, best |-> 0]

\* The ORDER BY of LookupLocationMembership and resolveOrgMembership, over
\* all the rows the user has in the org; 0 when there is none.
RoleIn(held) == Max({held[p] : p \in Places})

\* bestRole: rows of the session's gym and org-wide ones; a climber at least.
BestRole(held) == Max({held[Gym], held[Org], 1})

\* Mutant of Viewed: the cookie is taken at its word.
ViewedAnyway(rank) == IF viewAs # 0 THEN viewAs ELSE rank

\* applyViewAsOverride: only ever a downgrade.
Viewed(rank) == IF viewAs # 0 /\ viewAs < rank THEN viewAs ELSE rank

Underway == call.pc \in {"auth", "gates"}

Highest(m, n) == Max({m, n})
Lowest(m, n) == Min({m, n})

AccessInit ==
    /\ signed = TRUE
    /\ jwt \in BOOLEAN
    /\ \E p \in Places, rank \in Grants :
          role = [q \in Places |-> IF q = p THEN rank ELSE 0]
    /\ viewAs = 0
    /\ admin \in BOOLEAN
    /\ call = NoCall
    /\ spent = [changes |-> 0, faults |-> 0]

\* A request on its way to these gates.
Call(web, cookie, bearer, gates) ==
    [pc |-> "auth", gates |-> gates, web |-> web, cookie |-> cookie,
     bearer |-> bearer, seen |-> 0, answer |-> "none",
     least |-> Max({g.least : g \in Range(gates)} \cup {0}),
     out |-> ~signed, in |-> signed \/ jwt,
     low |-> RoleIn(role), best |-> RoleIn(role)]

\* A request, with whatever credentials the client holds.
Ask ==
    \E web, cookie, bearer \in BOOLEAN :
    \E gates \in IF web THEN WebGates ELSE ApiGates :
        /\ call.pc = "idle"
        /\ web => ~bearer
        /\ call' = Call(web, cookie, bearer, gates)
        /\ UNCHANGED <<signed, jwt, role, viewAs, admin, spent>>

Answer(code) == call' = [call EXCEPT !.pc = "answered", !.answer = code]

CallSteps == UNCHANGED <<signed, jwt, role, viewAs, admin, spent>>

Fails ==
    /\ spent.faults < MaxLookupFaults
    /\ spent' = [spent EXCEPT !.faults = @ + 1]
    /\ UNCHANGED <<signed, jwt, role, viewAs, admin>>

Pass == call' = [call EXCEPT !.pc = "gates"]

\* Mutant of LookupFails: a lookup that failed is no session.
LookupFailsOut ==
    /\ call.pc = "auth" /\ call.cookie /\ ~call.web
    /\ Answer("401")
    /\ Fails

\* The session lookup of AuthenticateCookieOrJWT fails.
LookupFails ==
    /\ call.pc = "auth" /\ call.cookie /\ ~call.web
    /\ Answer("503")
    /\ Fails

\* AuthenticateCookieOrJWT: the cookie first, then the bearer token.
Authenticate ==
    /\ call.pc = "auth" /\ ~call.web
    /\ IF (call.cookie /\ signed) \/ (call.bearer /\ jwt)
       THEN Pass
       ELSE Answer("401")
    /\ CallSteps

\* RequireSession.  One query reads the session, the user and the rows.
RequireSession ==
    /\ call.pc = "auth" /\ call.web
    /\ IF call.cookie /\ signed
       THEN call' = [call EXCEPT !.pc = "gates",
                                 !.seen = Viewed(BestRole(role))]
       ELSE Answer("login")
    /\ CallSteps

\* Its query runs into the deadline, or fails in another way.
SessionLookupFails ==
    /\ call.pc = "auth" /\ call.web /\ call.cookie
    /\ \E late \in BOOLEAN : Answer(IF late THEN "503" ELSE "login")
    /\ Fails

NextGate == call' = [call EXCEPT !.gates = Tail(@)]

\* What a gate answers when it finds no row, or cannot look.
NoMembership(g) == IF g.gate = "staff" THEN "403" ELSE "404"

\* Mutant of Suffices: the location is not joined.
SufficesAnywhere(rank, g) == rank > 0

\* hasRole.
Suffices(rank, g) == rank >= g.least

\* A gate that reads the role: RequireLocationRole and its kin.
RoleGate ==
    LET g == Head(call.gates)
    IN  /\ call.pc = "gates" /\ ~call.web /\ call.gates # <<>>
        /\ IF RoleIn(role) = 0 THEN Answer(NoMembership(g))
           ELSE IF Suffices(RoleIn(role), g) THEN NextGate
           ELSE Answer("403")
        /\ CallSteps

\* Its lookup fails: any error reads as "no membership".
RoleLookupFails ==
    /\ call.pc = "gates" /\ ~call.web /\ call.gates # <<>>
    /\ Answer(NoMembership(Head(call.gates)))
    /\ Fails

\* RequireSetterSession and RequireAppAdmin send the caller to /routes.
PageGate ==
    LET g == Head(call.gates)
    IN  /\ call.pc = "gates" /\ call.web /\ call.gates # <<>>
        /\ IF (g.gate = "setter" /\ Suffices(call.seen, g))
                \/ (g.gate = "admin" /\ admin)
           THEN NextGate
           ELSE Answer("away")
        /\ CallSteps

ServeCall ==
    /\ call.pc = "gates" /\ call.gates = <<>>
    /\ Answer("served")
    /\ CallSteps

\* The client goes on to its next request.
GoOn ==
    /\ call.pc = "answered"
    /\ call' = NoCall
    /\ CallSteps

-----------------------------------------------------------------------------
(* What happens meanwhile. *)

Changed ==
    /\ spent.changes < MaxRoleChanges
    /\ spent' = [spent EXCEPT !.changes = @ + 1]

Meanwhile(s, t, r) ==
    /\ signed' = s /\ jwt' = t /\ role' = r
    /\ call' = IF Underway
               THEN [call EXCEPT !.out = @ \/ ~s, !.in = @ \/ s \/ t,
                                 !.low = Lowest(@, RoleIn(r)),
                                 !.best = Highest(@, RoleIn(r))]
               ELSE call

\* Logout, a revocation, or thirty days: of this session or of a new one.
SignInOrOut ==
    /\ Changed
    /\ Meanwhile(~signed, jwt, role)
    /\ UNCHANGED <<viewAs, admin>>

\* The access token expires, or is refreshed.
TokenTurns ==
    /\ Changed
    /\ Meanwhile(signed, ~jwt, role)
    /\ UNCHANGED <<viewAs, admin>>

\* A membership is given, changed or removed.
RoleChanges ==
    \E p \in Places, rank \in Grants :
        /\ rank # role[p]
        /\ Changed
        /\ Meanwhile(signed, jwt, [role EXCEPT ![p] = rank])
        /\ UNCHANGED <<viewAs, admin>>

\* SetViewAs, for a head setter and above; app admins count as org admins.
SetViewAs ==
    \E rank \in 0 .. GymManager :
        LET real == IF admin THEN OrgAdmin ELSE RoleIn(role)
        IN  /\ real >= HeadSetter /\ rank < real /\ rank # viewAs
            /\ Changed
            /\ viewAs' = rank
            /\ UNCHANGED <<signed, jwt, role, admin, call>>

AccessNext ==
    \/ Ask
    \/ LookupFails \/ Authenticate
    \/ RequireSession \/ SessionLookupFails
    \/ RoleGate \/ RoleLookupFails \/ PageGate \/ ServeCall \/ GoOn
    \/ SignInOrOut \/ TokenTurns \/ RoleChanges \/ SetViewAs

AccessSpec == AccessInit /\ [][AccessNext]_access

-----------------------------------------------------------------------------

AccessTypeOK ==
    /\ {signed, jwt, admin} \subseteq BOOLEAN
    /\ role \in [Places -> Grants]
    /\ viewAs \in 0 .. GymManager
    /\ call.answer \in {"none", "served", "401", "403", "404", "503", "login",
                        "away"}
    /\ {call.low, call.best, call.seen} \subseteq 0 .. OrgAdmin
    /\ spent.changes <= MaxRoleChanges /\ spent.faults <= MaxLookupFaults

\* A page the API answers 401 to drops its session, so a request that carries
\* the cookie gets 401 only if the session was over at some moment while the
\* request ran, whatever failed (AuthenticateCookieOrJWT's 503).
SignedOutIsTrue == call.answer = "401" /\ call.cookie => call.out

\* What was served was allowed, and what was forbidden for a role was not: at
\* some moment while the request ran the user was signed in and held the rank
\* its gates ask for - whatever the view-as cookie says - or did not
\* (RequireLocationRole, RequireSetterSession, applyViewAsOverride).
AnswersAreEarned ==
    /\ call.answer = "served" => call.in /\ call.best >= call.least
    /\ call.answer = "403" /\ spent.faults = 0 => call.low < call.least

-----------------------------------------------------------------------------
(* A statement of a comment that the code does not keep. *)

\* "this must NOT surface as 401 ... 503 instead ... Mirrors RequireSession's
\* handling" (auth.go:92-100): nor does a page send a user who is signed in
\* back to the login form because a lookup failed.
SignedInIsKept == call.answer = "login" /\ call.cookie => call.out
=============================================================================
