------------------------------ MODULE Memberships ------------------------------
(***************************************************************************)
(* Who belongs to the organization, at which gym and with which role       *)
(* (internal/repository/user.go, org.go; internal/handler/team.go,         *)
(* location.go; internal/handler/web/gym_join.go, setup.go;                *)
(* internal/middleware/authz.go; cmd/admin/main.go).  A role change reads  *)
(* the target and the caller's own role first and writes later, so two     *)
(* changes interleave, with each other and with the operator's commands.   *)
(* A role is its rank in rbac.Rank.                                        *)
(***************************************************************************)
EXTENDS Integers, Sequences, FiniteSets, FiniteSetsExt

CONSTANTS
    Users,
    Gyms,
    Founder,      \* the user who finished the first-run setup
    MaxRows,      \* bound on membership rows
    MaxAsked      \* bound on role changes asked for

ASSUME MembershipsAssumption ==
    /\ Founder \in Users /\ Gyms # {}
    /\ MaxRows \in Nat \ {0} /\ MaxAsked \in Nat

\* The roles of a membership, by rank (internal/rbac/rbac.go).
Climber == 1
Setter == 2
HeadSetter == 3
GymManager == 4
OrgAdmin == 5

Roles == Climber .. OrgAdmin

OrgWide == "org-wide"  \* location_id IS NULL

VARIABLES
    rows,        \* user_memberships of the organization, in order of creation
    gyms,        \* the gyms created so far
    desk,        \* each user's role change in flight
    rescued,     \* history: the operator has taken a role away by command
    turnedAway,  \* history: users refused a gym they are not a member of
    asked

membershipVars == <<rows, gyms, desk, rescued, turnedAway, asked>>

Row == [user : Users, at : Gyms \cup {OrgWide}, role : Roles, live : BOOLEAN]

Free == [op |-> "none", row |-> 0, role |-> 0]

MembershipsTypeOK ==
    /\ rows \in Seq(Row) /\ Len(rows) <= MaxRows
    /\ gyms \subseteq Gyms
    /\ desk \in [Users -> [op : {"none", "change", "remove"},
                           row : 0 .. MaxRows, role : {0} \cup Roles]]
    /\ rescued \in BOOLEAN /\ turnedAway \subseteq Users
    /\ asked \in 0 .. MaxAsked

-----------------------------------------------------------------------------
(* Roles.                                                                   *)

LiveRows(u) == {n \in DOMAIN rows : rows[n].user = u /\ rows[n].live}

\* callerRoleForMembership, and the authorizer's ORDER BY rank LIMIT 1: the
\* highest role anywhere in the organization, 0 for a stranger.
OrgRole(u) == Max({0} \cup {rows[n].role : n \in LiveRows(u)})

\* RequireOrgRole, RequireLocationRole: the role or a higher one.  The gym of
\* the membership plays no part.
HasRole(u, role) == OrgRole(u) >= role

\* allowedRolesForGrantor.
allowedRolesForGrantor(rank) ==
    CASE rank >= OrgAdmin   -> Roles
      [] rank = GymManager  -> Climber .. GymManager
      [] rank = HeadSetter  -> {Climber, Setter}
      [] OTHER              -> {}

\* UNIQUE (user_id, org_id, location_id, role) counts removed rows too; NULLs
\* differ, so it never refuses an organization-wide row.
UniqueAdmits(u, gym, role, but) ==
    \/ gym = OrgWide
    \/ \A n \in DOMAIN rows \ but :
          <<rows[n].user, rows[n].at, rows[n].role>> # <<u, gym, role>>

\* OrgRepo.AddMember.
InsertMember(u, gym, role) ==
    /\ UniqueAdmits(u, gym, role, {})
    /\ Len(rows) < MaxRows
    /\ rows' = Append(rows, [user |-> u, at |-> gym, role |-> role, live |-> TRUE])

-----------------------------------------------------------------------------
(* Founding, opening gyms, joining.                                         *)

\* SetupSubmit: the organization, its first gym and the founder's membership in
\* one transaction.  createOrg of the admin tool founds one without a gym.
MembershipsInit ==
    /\ rows = <<[user |-> Founder, at |-> OrgWide, role |-> OrgAdmin, live |-> TRUE]>>
    /\ gyms \in {{}} \cup {{g} : g \in Gyms}
    /\ desk = [u \in Users |-> Free]
    /\ rescued = FALSE /\ turnedAway = {} /\ asked = 0

\* LocationHandler.Create (POST /orgs/{id}/locations), for org_admin.
OpenGym(u, g) ==
    /\ HasRole(u, OrgAdmin)
    /\ g \notin gyms
    /\ gyms' = gyms \cup {g}
    /\ UNCHANGED <<rows, desk, rescued, turnedAway, asked>>

\* JoinGymSubmit inserts without looking first; any error reads "you may already
\* be a member".
JoinGym(u, g) ==
    /\ g \in gyms
    /\ \/ InsertMember(u, g, Climber) /\ UNCHANGED turnedAway
       \/ /\ ~UniqueAdmits(u, g, Climber, {})
          /\ \A n \in LiveRows(u) : rows[n].at # g
          /\ turnedAway' = turnedAway \cup {u}
          /\ UNCHANGED rows
    /\ UNCHANGED <<gyms, desk, rescued, asked>>

-----------------------------------------------------------------------------
(* Changing roles: what is read and refused, ...                            *)

Asks(u, op, n, role) ==
    /\ desk[u] = Free
    /\ asked < MaxAsked /\ asked' = asked + 1
    /\ desk' = [desk EXCEPT ![u] = [op |-> op, row |-> n, role |-> role]]
    /\ UNCHANGED <<rows, gyms, rescued, turnedAway>>

\* Mutant of Outranks: peers may change each other.
OutranksPeers(u, n) == OrgRole(u) >= rows[n].role

Outranks(u, n) == OrgRole(u) > rows[n].role

\* Mutant of KeepsOwnRank: the guard is forgotten.
KeepsAnyRank(u, n, role) == TRUE

\* The self-demotion guard.
KeepsOwnRank(u, n, role) == rows[n].user = u => role >= rows[n].role

\* UpdateMembership (PATCH /memberships/{id}).
UpdateMembership(u, n, role) ==
    /\ rows[n].live
    /\ role \in allowedRolesForGrantor(OrgRole(u))
    /\ rows[n].user = u \/ Outranks(u, n)
    /\ KeepsOwnRank(u, n, role)
    /\ Asks(u, "change", n, role)

\* RemoveMembership (DELETE /memberships/{id}).
RemoveMembership(u, n) ==
    /\ rows[n].live
    /\ HasRole(u, GymManager)
    /\ rows[n].user # u
    /\ Outranks(u, n)
    /\ Asks(u, "remove", n, 0)

-----------------------------------------------------------------------------
(* ... and what is written, whatever has become of the row meanwhile.       *)

\* UpdateMemberRole; a row in the way of the UNIQUE constraint is an error.
UpdateMemberRole(u) ==
    LET n == desk[u].row
        role == desk[u].role IN
    /\ desk[u].op = "change"
    /\ rows' = IF rows[n].live /\ UniqueAdmits(rows[n].user, rows[n].at, role, {n})
               THEN [rows EXCEPT ![n].role = role] ELSE rows
    /\ desk' = [desk EXCEPT ![u] = Free]
    /\ UNCHANGED <<gyms, rescued, turnedAway, asked>>

SoftDelete(u) ==
    /\ desk[u].op = "remove"
    /\ rows' = [rows EXCEPT ![desk[u].row].live = FALSE]
    /\ desk' = [desk EXCEPT ![u] = Free]
    /\ UNCHANGED <<gyms, rescued, turnedAway, asked>>

-----------------------------------------------------------------------------
(* The operator's commands ask nobody's rank.                               *)

\* addMember; gym_manager is not among its roles.
addMember(u, at, role) ==
    /\ role # GymManager
    /\ at \in gyms \cup {OrgWide}
    /\ InsertMember(u, at, role)
    /\ UNCHANGED <<gyms, desk, rescued, turnedAway, asked>>

\* removeMember: every membership of the user.
removeMember(u) ==
    /\ LiveRows(u) # {}
    /\ rows' = [n \in DOMAIN rows |->
                  IF n \in LiveRows(u) THEN [rows[n] EXCEPT !.live = FALSE] ELSE rows[n]]
    /\ rescued' = TRUE
    /\ UNCHANGED <<gyms, desk, turnedAway, asked>>

\* setRole, for a user with exactly one membership.
setRole(u, role) ==
    \E n \in DOMAIN rows :
        /\ LiveRows(u) = {n}
        /\ UniqueAdmits(u, rows[n].at, role, {n})
        /\ rows' = [rows EXCEPT ![n].role = role]
        /\ rescued' = (rescued \/ role < rows[n].role)
        /\ UNCHANGED <<gyms, desk, turnedAway, asked>>

MembershipsNext ==
    \E u \in Users :
        \/ \E g \in Gyms : OpenGym(u, g) \/ JoinGym(u, g)
        \/ \E n \in DOMAIN rows :
              \/ RemoveMembership(u, n)
              \/ \E role \in Roles : UpdateMembership(u, n, role)
        \/ UpdateMemberRole(u) \/ SoftDelete(u)
        \/ \E at \in Gyms \cup {OrgWide}, role \in Roles : addMember(u, at, role)
        \/ removeMember(u)
        \/ \E role \in Roles : setRole(u, role)

MembershipsSpec == MembershipsInit /\ [][MembershipsNext]_membershipVars

-----------------------------------------------------------------------------
\* Unless the operator takes a role away, the organization keeps an
\* administrator: over the API nobody is demoted or removed by a peer or by
\* themselves, even when changes interleave with each other and with promotions
\* (UpdateMembership, RemoveMembership: "breaking the org's admin chain").
AdminRemains ==
    ~rescued => \E n \in DOMAIN rows : rows[n].live /\ rows[n].role = OrgAdmin

\* "The user can re-join later (a new membership row will be created)"
\* (RemoveMembership): only members are told they are members already.
NobodyTurnedAway == turnedAway = {}
=============================================================================
