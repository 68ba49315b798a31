------------------------------ MODULE Accounts ------------------------------
(***************************************************************************)
(* How one user signs in and stays signed in: the password and the refresh *)
(* tokens (internal/service/auth.go, internal/repository/user.go), the     *)
(* browser sessions (internal/handler/web/auth.go,                         *)
(* internal/repository/websession.go).  Locking an account is LoginLockout, *)
(* what comes before a magic link is opened is MagicLinks.                 *)
(*                                                                         *)
(* Every step is one statement.  No handler opens a transaction, so the    *)
(* statements of two requests interleave: a login reads the password hash  *)
(* and issues its credential later, a refresh spends a token and saves the *)
(* next one later, and a password change writes the hash first and revokes *)
(* what was issued under the old one after that.                           *)
(***************************************************************************)
EXTENDS Naturals, Sequences, FiniteSets, SequencesExt

CONSTANTS
    Visitors,      \* requests in flight at the same time
    Tokens,        \* refresh tokens that may be generated
    Sessions,      \* browser sessions that may be created
    SessionLimit,  \* maxSessionsPerUser
    MaxChanges,    \* bound on password changes
    MaxFailures,   \* bound on failed statements and lost requests
    Nothing        \* "no credential"

ASSUME AccountsAssumption ==
    /\ SessionLimit \in Nat \ {0}
    /\ {MaxChanges, MaxFailures} \subseteq Nat
    /\ Nothing \notin Tokens \cup Sessions

VARIABLES
    password,  \* users.password_hash, as the number of changes so far
    token,     \* refresh_tokens
    session,   \* web_sessions
    seen,      \* the live sessions, the last seen first
    visit,     \* the requests in flight
    failures

accountsVars == <<password, token, session, seen, visit, failures>>

Passwords == 0 .. MaxChanges

\* A token or a session; as history, the password it was issued under, whether
\* its issuer was in flight while a password change revoked, and how often it
\* was exchanged.
Credential == [state : {"none", "live", "ended"}, under : Passwords,
               late : BOOLEAN, exchanged : 0 .. 2]

Unissued == [state |-> "none", under |-> 0, late |-> FALSE, exchanged |-> 0]

Idle == [op |-> "none", at |-> "none", uses |-> Nothing, under |-> 0,
         late |-> FALSE]

\* A request in flight: the statement it has reached and what it has read.
Request == [op : {"none", "login", "weblogin", "refresh", "change"},
            at : {"none", "issue", "spend", "open", "enforce", "write", "revoke"},
            uses : Tokens \cup {Nothing},
            under : Passwords, late : BOOLEAN]

AccountsTypeOK ==
    /\ password \in Passwords
    /\ token \in [Tokens -> Credential]
    /\ session \in [Sessions -> Credential]
    /\ seen \in Seq(Sessions)
    /\ ToSet(seen) = {s \in Sessions : session[s].state = "live"}
    /\ visit \in [Visitors -> Request]
    /\ failures \in 0 .. MaxFailures

-----------------------------------------------------------------------------
AccountsInit ==
    /\ password = 0 /\ failures = 0
    /\ token = [t \in Tokens |-> Unissued]
    /\ session = [s \in Sessions |-> Unissued]
    /\ seen = <<>>
    /\ visit = [v \in Visitors |-> Idle]

At(v, step) == visit[v].at = step

Begins(v, op, step, thing, under, late) ==
    visit' = [visit EXCEPT ![v] = [op |-> op, at |-> step, uses |-> thing,
                                   under |-> under, late |-> late]]

Leaves(v) == visit' = [visit EXCEPT ![v] = Idle]

\* A credential is a fresh random value, live from here on.
Issued(v) == [state |-> "live", under |-> visit[v].under,
              late |-> visit[v].late, exchanged |-> 0]

\* The requests that are about to issue something are late from now on.
Overtaken(step) == [v \in Visitors |->
    IF visit[v].at = step THEN [visit[v] EXCEPT !.late = TRUE] ELSE visit[v]]

-----------------------------------------------------------------------------
(* Signing in.  A wrong password changes nothing here; see LoginLockout.    *)

\* Login, or ValidateCredentials in LoginSubmit: the hash is read and the
\* password is right.  A magic link opens a session the same way.
CheckPassword(v) ==
    /\ visit[v] = Idle
    /\ \E kind \in {<<"login", "issue">>, <<"weblogin", "open">>} :
          Begins(v, kind[1], kind[2], Nothing, password, FALSE)
    /\ UNCHANGED <<password, token, session, seen, failures>>

\* generateResult: the last step of Login and of Refresh.
Issue(v) ==
    /\ At(v, "issue")
    /\ \E t \in Tokens :
          /\ token[t].state = "none"
          /\ token' = [token EXCEPT ![t] = Issued(v)]
    /\ Leaves(v)
    /\ UNCHANGED <<password, session, seen, failures>>

\* webSessionRepo.Create in LoginSubmit and mintSession.
Open(v) ==
    /\ At(v, "open")
    /\ \E s \in Sessions :
          /\ session[s].state = "none"
          /\ session' = [session EXCEPT ![s] = Issued(v)]
          /\ seen' = <<s>> \o seen
    /\ visit' = [visit EXCEPT ![v].at = "enforce"]
    /\ UNCHANGED <<password, token, failures>>

\* Mutant of Kept: OFFSET one too far.
KeptOneMore ==
    IF Len(seen) > SessionLimit + 1 THEN SubSeq(seen, 1, SessionLimit + 1) ELSE seen

\* The sessions EnforceLimit does not delete: OFFSET maxSessionsPerUser.
Kept == IF Len(seen) > SessionLimit THEN SubSeq(seen, 1, SessionLimit) ELSE seen

\* Sessions that end, but for those in order: deleted, revoked or expired.
EndSessionsBut(order) ==
    /\ session' = [s \in Sessions |->
          IF s \in ToSet(seen) \ ToSet(order)
          THEN [session[s] EXCEPT !.state = "ended"] ELSE session[s]]
    /\ seen' = order

Enforce(v) ==
    /\ At(v, "enforce")
    /\ EndSessionsBut(Kept)
    /\ Leaves(v)
    /\ UNCHANGED <<password, token, failures>>

-----------------------------------------------------------------------------
(* Refresh.                                                                 *)

FindToken(v) ==
    /\ visit[v] = Idle
    /\ \E t \in Tokens :
          /\ token[t].state = "live"
          /\ Begins(v, "refresh", "spend", t, 0, FALSE)
    /\ UNCHANGED <<password, token, session, seen, failures>>

\* Mutant of Spendable: the update does not look at revoked_at again.
SpendableAgain(t) == token[t].exchanged < 2

\* The WHERE clause of RevokeRefreshToken.
Spendable(t) == token[t].state = "live"

\* RevokeRefreshToken: one of two refreshes with one token gets no row.
Spend(v) ==
    LET t == visit[v].uses IN
    /\ At(v, "spend")
    /\ \/ /\ Spendable(t)
          /\ token' = [token EXCEPT ![t].state = "ended",
                                    ![t].exchanged = @ + 1]
          /\ Begins(v, "refresh", "issue", t, token[t].under, token[t].late)
       \/ /\ ~Spendable(t)
          /\ Leaves(v)
          /\ UNCHANGED token
    /\ UNCHANGED <<password, session, seen, failures>>

-----------------------------------------------------------------------------
(* Changing the password.                                                  *)

\* The old password is right.
StartChange(v) ==
    /\ visit[v] = Idle
    /\ password < MaxChanges
    /\ Begins(v, "change", "write", Nothing, 0, FALSE)
    /\ UNCHANGED <<password, token, session, seen, failures>>

\* Mutant of WritePassword: the tokens are not revoked.
WriteAndLeave(v) ==
    /\ At(v, "write")
    /\ password < MaxChanges
    /\ password' = password + 1
    /\ Leaves(v)
    /\ UNCHANGED <<token, session, seen, failures>>

\* UpdatePassword does not ask whether the old hash is still the one compared.
WritePassword(v) ==
    /\ At(v, "write")
    /\ password < MaxChanges
    /\ password' = password + 1
    /\ visit' = [visit EXCEPT ![v].at = "revoke"]
    /\ UNCHANGED <<token, session, seen, failures>>

RevokeTokens(v) ==
    /\ At(v, "revoke")
    /\ token' = [t \in Tokens |->
          IF token[t].state = "live" THEN [token[t] EXCEPT !.state = "ended"]
          ELSE token[t]]
    /\ visit' = [Overtaken("issue") EXCEPT ![v] = Idle]
    /\ UNCHANGED <<password, session, seen, failures>>

\* A failed revocation is only logged.
RevokeFails(v) ==
    /\ At(v, "revoke")
    /\ failures < MaxFailures
    /\ failures' = failures + 1
    /\ Leaves(v)
    /\ UNCHANGED <<password, token, session, seen>>

-----------------------------------------------------------------------------
(* The rest of the world.                                                   *)

\* The middleware touches a session behind the request's back.
TouchLastSeen ==
    /\ \E n \in 2 .. Len(seen) : seen' = <<seen[n]>> \o RemoveAt(seen, n)
    /\ UNCHANGED <<password, token, session, visit,
                   failures>>

\* Logout, or the end of SessionMaxAge.
SessionEnds ==
    /\ \E n \in DOMAIN seen : EndSessionsBut(RemoveAt(seen, n))
    /\ UNCHANGED <<password, token, visit, failures>>

TokenExpires ==
    /\ \E t \in Tokens : /\ token[t].state = "live"
                         /\ token' = [token EXCEPT ![t].state = "ended"]
    /\ UNCHANGED <<password, session, seen, visit, failures>>

\* A statement fails and the handler gives up, or the instance dies.
Abort(v) ==
    /\ visit[v] # Idle
    /\ failures < MaxFailures
    /\ failures' = failures + 1
    /\ Leaves(v)
    /\ UNCHANGED <<password, token, session, seen>>

Visit(v) ==
    \/ CheckPassword(v) \/ Issue(v) \/ Open(v) \/ Enforce(v)
    \/ FindToken(v) \/ Spend(v)
    \/ StartChange(v) \/ WritePassword(v) \/ RevokeTokens(v)
    \/ RevokeFails(v)
    \/ Abort(v)

AccountsNext ==
    \/ \E v \in Visitors : Visit(v)
    \/ TouchLastSeen \/ SessionEnds \/ TokenExpires

AccountsSpec == AccountsInit /\ [][AccountsNext]_accountsVars

-----------------------------------------------------------------------------
(* Properties.                                                              *)

\* A refresh token is exchanged once, however many devices or retries present
\* it at the same time (RevokeRefreshToken).
TokenIsSpentOnce == \A t \in Tokens : token[t].exchanged <= 1

\* After a password change, whatever refreshes under the old password was
\* being issued while the change revoked (ChangePassword against Login and
\* Refresh).
TokensFollowPassword ==
    failures = 0 =>
        \A t \in Tokens :
            token[t].state = "live" =>
                \/ token[t].under = password
                \/ token[t].late
                \/ \E v \in Visitors : At(v, "revoke")

\* The limit on browser sessions is passed only by sign-ins that have not
\* enforced it yet, whatever the order of their inserts and deletes.
SessionLimitHolds ==
    failures = 0 =>
        Len(seen) <= SessionLimit
                     + Cardinality({v \in Visitors : At(v, "enforce")})
=============================================================================
