------------------------------ MODULE MCPeople ------------------------------
(***************************************************************************)
(* The components around accounts and permissions, on a small instance.    *)
(* They share no state that a property depends on, so a run looks at one   *)
(* of them at a time: the others stay in an initial state of theirs.       *)
(***************************************************************************)
EXTENDS Accounts, LoginLockout, MagicLinks, Memberships, Access, RateLimiter

VARIABLE focus    \* the component the behaviour is of

\* Out of focus one set of credentials is enough.
PeopleInit ==
    /\ focus \in {"accounts", "lockout", "links", "memberships", "access", "limits"}
    /\ AccountsInit /\ LockoutInit /\ MagicLinksInit /\ LimiterInit
    /\ MembershipsInit /\ (focus # "memberships" => gyms = {})
    /\ AccessInit /\ (focus # "access" => jwt /\ ~admin /\ role = [p \in DOMAIN role |-> 0])

PeopleNext ==
    \/ /\ focus = "accounts" /\ AccountsNext
       /\ UNCHANGED <<focus, lockoutVars, linkVars, membershipVars, access, limits>>
    \/ /\ focus = "lockout" /\ LockoutNext
       /\ UNCHANGED <<focus, accountsVars, linkVars, membershipVars, access, limits>>
    \/ /\ focus = "links" /\ MagicLinksNext
       /\ UNCHANGED <<focus, accountsVars, lockoutVars, membershipVars, access, limits>>
    \/ /\ focus = "memberships" /\ MembershipsNext
       /\ UNCHANGED <<focus, accountsVars, lockoutVars, linkVars, access, limits>>
    \/ /\ focus = "access" /\ AccessNext
       /\ UNCHANGED <<focus, accountsVars, lockoutVars, linkVars, membershipVars, limits>>
    \/ /\ focus = "limits" /\ LimiterNext
       /\ UNCHANGED <<focus, accountsVars, lockoutVars, linkVars, membershipVars, access>>

PeopleSpec ==
    PeopleInit
    /\ [][PeopleNext]_<<focus, accountsVars, lockoutVars, linkVars, membershipVars,
                        access, limits>>

\* What lets somebody in goes when it should: a refresh token is exchanged once, none
\* outlives a change of the password but by a race, and a login leaves no more web
\* sessions than the limit and the logins beside it (service/auth.go, websession.go).
CredentialsHold ==
    AccountsTypeOK /\ TokenIsSpentOnce /\ TokensFollowPassword /\ SessionLimitHolds

\* Magic links by mail and requests of one address stay in their limits up to those
\* under way when the limit is reached, and a link opens one session.  Guesses of a
\* password stay in theirs, up to those under way and those whose record failed, from
\* a login until the first lock after it has run out; from then to the next login the
\* code does not limit them (login_attempt.go, magic_link.go, middleware/security.go).
LimitsHold ==
    /\ LockoutTypeOK /\ GuessesAreBounded
    /\ MagicLinksTypeOK /\ LinkOpensOnce /\ LinkRateHolds
    /\ LimiterTypeOK /\ LimitHolds

\* A gym never loses its last administrator but by the operator's command, and what a
\* request is answered agrees with what its user was at some moment of it
\* (handler/membership.go, middleware/authorize.go, middleware/websession.go).
RolesHold ==
    /\ MembershipsTypeOK /\ AdminRemains
    /\ AccessTypeOK /\ SignedOutIsTrue /\ AnswersAreEarned
=============================================================================
