----------------------------- MODULE LoginLockout -----------------------------
(***************************************************************************)
(* One e-mail address, registered and signed in to with a password         *)
(* (internal/service/auth.go, internal/repository/login_attempt.go, and    *)
(* the handlers over them).  The lockout is asked about before the password *)
(* is compared and the failure is recorded after, each in a statement of   *)
(* its own, so guesses made at the same time do not see each other.  Time  *)
(* is counted in ticks, a lock lasts LockFor of them.                      *)
(***************************************************************************)
EXTENDS Naturals, FiniteSets

CONSTANTS
    Guessers,     \* sign-in and registration requests in flight
    MaxAttempts,  \* maxLoginAttempts
    LockFor,      \* lockoutDuration, in ticks
    Horizon,      \* bound on the clock
    MaxTried,     \* bound on the wrong passwords compared
    MaxFaults     \* bound on failed statements

ASSUME LockoutAssumption ==
    /\ {MaxAttempts, LockFor, Horizon} \subseteq Nat \ {0}
    /\ {MaxTried, MaxFaults} \subseteq Nat
    /\ IsFiniteSet(Guessers)

Never == 0  \* locked_until IS NULL; the clock starts at 1

VARIABLES
    account,   \* the users row exists
    attempts,  \* the login_attempts row
    guess,     \* where each request is
    now,
    tried,     \* history: wrong passwords compared since the row was cleared
    streak,    \* history: failures recorded since it was cleared or locked
    lapsed,    \* history: a lock has run out since it was cleared
    faults

lockoutVars == <<account, attempts, guess, now, tried, streak, lapsed, faults>>

NoRow == [failed |-> 0, until |-> Never]

LockoutTypeOK ==
    /\ account \in BOOLEAN
    /\ attempts \in [failed : 0 .. MaxTried, until : 0 .. Horizon + LockFor]
    /\ guess \in [Guessers -> {"idle", "compare", "record", "clear",
                               "insert", "validate"}]
    /\ now \in 1 .. Horizon
    /\ tried \in 0 .. MaxTried /\ streak \in 0 .. MaxTried
    /\ lapsed \in BOOLEAN /\ faults \in 0 .. MaxFaults

LockoutInit ==
    /\ account = FALSE /\ attempts = NoRow
    /\ guess = [g \in Guessers |-> "idle"]
    /\ now = 1 /\ tried = 0 /\ streak = 0 /\ lapsed = FALSE /\ faults = 0

GoesTo(g, from, to) == /\ guess[g] = from
                     /\ guess' = [guess EXCEPT ![g] = to]

\* Mutant of IsLocked: the comparison is the wrong way round.
IsLockedBefore == attempts.until # Never /\ attempts.until < now

IsLocked == attempts.until # Never /\ attempts.until > now

-----------------------------------------------------------------------------
\* Register: the e-mail is free when it is looked up, ...
LookUpEmail(g) ==
    /\ ~account
    /\ GoesTo(g, "idle", "insert")
    /\ UNCHANGED <<account, attempts, now, tried, streak, lapsed, faults>>

\* ... and the UNIQUE index decides when the row is inserted.  The web page then
\* signs in with the password just set; the API answers with tokens.
InsertUser(g) ==
    /\ IF account THEN GoesTo(g, "insert", "idle") /\ UNCHANGED account
       ELSE /\ account' = TRUE
            /\ \E next \in {"idle", "validate"} : GoesTo(g, "insert", next)
    /\ UNCHANGED <<attempts, now, tried, streak, lapsed, faults>>

\* ValidateCredentials after a registration: it is a login like any other.
Validate(g) ==
    /\ GoesTo(g, "validate", IF IsLocked THEN "idle" ELSE "clear")
    /\ UNCHANGED <<account, attempts, now, tried, streak, lapsed, faults>>

-----------------------------------------------------------------------------
\* Login and ValidateCredentials: the lockout first.  An unknown e-mail is
\* refused without a trace.
CheckLock(g) ==
    /\ account
    /\ ~IsLocked
    /\ GoesTo(g, "idle", "compare")
    /\ UNCHANGED <<account, attempts, now, tried, streak, lapsed, faults>>

ComparePassword(g) ==
    /\ \/ /\ tried < MaxTried
          /\ tried' = tried + 1
          /\ GoesTo(g, "compare", "record")
       \/ GoesTo(g, "compare", "clear") /\ UNCHANGED tried
    /\ UNCHANGED <<account, attempts, now, streak, lapsed, faults>>

\* The CASE of the upsert: a lock that has run out restarts the count.
CountAfterFailure ==
    IF attempts.until # Never /\ attempts.until < now THEN 1
    ELSE attempts.failed + 1

\* Mutant of RecordFailure: the lock is set once the threshold is passed.
RecordFailureLate(g) ==
    LET count == CountAfterFailure
        locks == count > MaxAttempts IN
    /\ GoesTo(g, "record", "idle")
    /\ attempts' = [failed |-> count,
                    until |-> IF locks THEN now + LockFor ELSE attempts.until]
    /\ streak' = IF locks THEN 0 ELSE streak + 1
    /\ UNCHANGED <<account, now, tried, lapsed, faults>>

\* RecordFailure leaves locked_until alone below the threshold, so a lock that
\* has run out stays in the row.
RecordFailure(g) ==
    LET count == CountAfterFailure
        locks == count >= MaxAttempts IN
    /\ GoesTo(g, "record", "idle")
    /\ attempts' = [failed |-> count,
                    until |-> IF locks THEN now + LockFor ELSE attempts.until]
    /\ streak' = IF locks THEN 0 ELSE streak + 1
    /\ UNCHANGED <<account, now, tried, lapsed, faults>>

\* ClearFailures deletes the row.
ClearFailures(g) ==
    /\ GoesTo(g, "clear", "idle")
    /\ attempts' = NoRow
    /\ tried' = Cardinality({h \in Guessers : guess[h] = "record"})
    /\ streak' = 0 /\ lapsed' = FALSE
    /\ UNCHANGED <<account, now, faults>>

\* A failed lockout check refuses the attempt; a failed record or clear is
\* logged, and the answer is given all the same.
LockoutFault(g) ==
    /\ guess[g] # "idle"
    /\ faults < MaxFaults
    /\ faults' = faults + 1
    /\ guess' = [guess EXCEPT ![g] = "idle"]
    /\ UNCHANGED <<account, attempts, now, tried, streak, lapsed>>

Tick ==
    /\ now < Horizon
    /\ now' = now + 1
    /\ lapsed' = (lapsed \/ attempts.until = now + 1)
    /\ UNCHANGED <<account, attempts, guess, tried, streak, faults>>

LockoutNext ==
    \/ Tick
    \/ \E g \in Guessers :
          \/ LookUpEmail(g) \/ InsertUser(g) \/ Validate(g)
          \/ CheckLock(g) \/ ComparePassword(g) \/ RecordFailure(g)
          \/ ClearFailures(g) \/ LockoutFault(g)

LockoutSpec == LockoutInit /\ [][LockoutNext]_lockoutVars

-----------------------------------------------------------------------------
\* Until a lock has run out that no login has cleared, the wrong passwords compared
\* are bounded by the threshold, the requests that were let in together and the
\* statements that failed, however checks and records interleave (Login,
\* RecordFailure).  After that nothing bounds them: see ThresholdLocks.
GuessesAreBounded ==
    ~lapsed => tried <= MaxAttempts - 1 + Cardinality(Guessers) + faults

\* "RecordFailure increments the failure count and locks the account if the
\* threshold is reached": MaxAttempts failures in a row never go unlocked.  False of
\* an account whose first lock has run out: the old locked_until stays, every failure
\* is counted as the first again, and the account is not locked until a login succeeds.
ThresholdLocks == streak < MaxAttempts
=============================================================================
