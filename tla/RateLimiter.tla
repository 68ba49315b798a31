----------------------------- MODULE RateLimiter -----------------------------
(***************************************************************************)
(* A rate limiter of internal/middleware/security.go: one counter and one  *)
(* window start per key, in a table that is swept, by a ticker and by the  *)
(* insertions themselves, and that evicts its oldest entry when it is      *)
(* full.  The whole of LimitByKey runs under the limiter's mutex.          *)
(*                                                                         *)
(* Time is counted in ticks and kept as ages: how many ticks ago a window  *)
(* started, capped where it makes no more difference.                      *)
(***************************************************************************)
EXTENDS Integers, FiniteSetsExt, Functions

CONSTANTS
    Keys,         \* clients, by address or by account
    Limit,        \* requests admitted per window
    Window,       \* its length in ticks
    MaxClients,   \* entries the table may hold
    SweepEvery    \* opportunisticCleanupEvery

ASSUME RateLimiterAssumption ==
    {Limit, Window, MaxClients, SweepEvery} \subseteq Nat \ {0}

VARIABLES
    windows,    \* rl.clients: count and age of the entries, by key
    inserts,    \* rl.insertCount, modulo SweepEvery
    passed,     \* history: requests let through by key, with their ages and
                \* numbers in their window, since its entry was last evicted
    turned      \* history: the key the last step refused, if it did

limits == <<windows, inserts, passed, turned>>

\* An entry older than cleanTTL is swept whatever its age.
Timespans == 0 .. 2 * Window + 1

LimiterInit ==
    /\ windows = <<>>
    /\ inserts = 0
    /\ passed = [k \in Keys |-> {}]
    /\ turned = {}

Held == DOMAIN windows

\* The window of the entry is over.
Over(k) == windows[k].age > Window

\* cleanupLocked: entries of more than two windows ago.
Swept(table) == Restrict(table,
    {k \in DOMAIN table : table[k].age <= 2 * Window})

\* Mutant of Evicted: the table grows.
EvictedNone(table) == {{}}

\* evictOldest, when the table is full: any of the entries that start first.
Evicted(table) ==
    IF Cardinality(DOMAIN table) < MaxClients THEN {{}}
    ELSE {{k} : k \in {j \in DOMAIN table :
                         \A i \in DOMAIN table : table[j].age >= table[i].age}}

Entered(table, k, n, age) ==
    [j \in DOMAIN table \cup {k} |->
       IF j = k THEN [count |-> n, age |-> age] ELSE table[j]]

Passing(k, n, out) ==
    /\ passed' = [j \in Keys |-> IF j = k THEN passed[j] \cup {[age |-> 0, nth |-> n]}
                                 ELSE IF j \in out THEN {} ELSE passed[j]]
    /\ turned' = {}

\* A key the table does not hold: every SweepEvery-th one sweeps first.
FirstRequest(k) ==
    LET table == IF (inserts + 1) % SweepEvery = 0 THEN Swept(windows)
                 ELSE windows
    IN  /\ k \notin Held
        /\ inserts' = (inserts + 1) % SweepEvery
        /\ \E out \in Evicted(table) :
              /\ windows' = Entered(Restrict(table, DOMAIN table \ out), k, 1, 0)
              /\ Passing(k, 1, out)

\* A key whose window is over starts a new one in place.
NewWindow(k) ==
    /\ k \in Held /\ Over(k)
    /\ windows' = Entered(windows, k, 1, 0)
    /\ Passing(k, 1, {})
    /\ UNCHANGED inserts

\* Mutant of Counted: one more than the limit.
CountedLate(n) == n <= Limit + 1

Counted(n) == n <= Limit

\* Another request in the window: admitted, or refused with 429.  The count
\* is capped in the model once it is over the limit.
SameWindow(k) ==
    LET n == windows[k].count + 1
    IN  /\ k \in Held /\ ~Over(k)
        /\ windows' = Entered(windows, k, Min({n, Limit + 2}), windows[k].age)
        /\ IF Counted(n) THEN Passing(k, n, {})
           ELSE turned' = {k} /\ UNCHANGED passed
        /\ UNCHANGED inserts

\* The ticker of NewRateLimiter.
Sweep ==
    /\ Swept(windows) # windows
    /\ windows' = Swept(windows)
    /\ turned' = {}
    /\ UNCHANGED <<inserts, passed>>

TimePasses ==
    /\ windows' = [k \in Held |-> [windows[k] EXCEPT
                                    !.age = Min({@ + 1, 2 * Window + 1})]]
    /\ passed' = [k \in Keys |-> {[p EXCEPT !.age = @ + 1] :
                                     p \in {q \in passed[k] : q.age < Window}}]
    /\ turned' = {}
    /\ UNCHANGED inserts

LimiterNext ==
    \/ \E k \in Keys : FirstRequest(k) \/ NewWindow(k) \/ SameWindow(k)
    \/ Sweep
    \/ TimePasses

LimiterSpec == LimiterInit /\ [][LimiterNext]_limits

-----------------------------------------------------------------------------

LimiterTypeOK ==
    /\ DOMAIN windows \subseteq Keys
    /\ windows \in [DOMAIN windows -> [count : 1 .. Limit + 2, age : Timespans]]
    /\ inserts \in 0 .. SweepEvery - 1
    /\ turned \subseteq Keys

\* Two windows at most overlap an interval of one window's length.
NeverTwice == \A k \in Keys : Cardinality(passed[k]) <= 2 * Limit

\* Who is refused has had the limit within the window: sweeps, evictions and
\* refusals before it take nothing from anybody.
RefusedAtTheLimit == \A k \in turned : Cardinality(passed[k]) >= Limit

\* A limiter keeps its word with a table that is swept and evicts: a key
\* whose entry stays gets at most two limits in a window's time, one that is
\* refused has had one, and the table stays in its bound (LimitByKey).
LimitHolds ==
    /\ NeverTwice
    /\ RefusedAtTheLimit
    /\ Cardinality(Held) <= MaxClients
=============================================================================
