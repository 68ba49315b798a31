------------------------------ MODULE JobQueue ------------------------------
(***************************************************************************)
(* The Postgres-backed job queue of internal/jobs/queue.go.                *)
(*                                                                         *)
(* Every application instance runs one poll loop (a worker below) and one  *)
(* reap loop against the shared table `jobs`.  A poll claims the oldest    *)
(* due row in a transaction, runs its handler outside any transaction and  *)
(* reports the outcome with an UPDATE that is conditioned on the row's id  *)
(* only.  Whatever happens between the claim and the report -- a crash, a  *)
(* failed UPDATE, a handler slower than the stale timeout -- is repaired   *)
(* by the reap loop, which knows nothing of who is still running the job.  *)
(*                                                                         *)
(* Time is relative: row[j].wait is run_at - now, row[j].age is            *)
(* now - started_at, and Tick is the passage of one unit.                  *)
(***************************************************************************)
EXTENDS Integers, FiniteSets

CONSTANTS
    Jobs,          \* the identities the BIGSERIAL column can hand out
    Workers,       \* application instances, one poll loop each
    JobTypes,      \* values of job_type
    Handles,       \* Handles[w]: the types registered in instance w
    MaxAttempts,   \* the max_attempts values callers enqueue with
    Backoff,       \* the 30 s factor of the retry delay, in units
    BackoffCap,    \* the one-hour cap of the retry delay, in units
    StaleTimeout,  \* Queue.staleTimeout, in units
    Horizon,       \* how far in the past run_at is still told apart
    MaxFaults,     \* bound on crashes, failed writes and slow workers
    NoJob          \* "holds no job"

ASSUME JobQueueAssumption ==
    /\ Handles \in [Workers -> SUBSET JobTypes]
    /\ MaxAttempts \subseteq Nat \ {0}
    /\ Backoff \in Nat
    /\ BackoffCap \in Nat
    /\ StaleTimeout \in Nat
    /\ Horizon \in Nat
    /\ MaxFaults \in Nat
    /\ NoJob \notin Jobs

VARIABLES
    row,        \* the table jobs
    worker,     \* what each poll loop is doing, with its in-memory Job
    faults,     \* crashes, failed writes and slow workers so far
    reaps,      \* history: how often the reaper took the job back
    spent,      \* history: attempts whose failure rescheduled the job
    performed   \* history: how often the job's handler returned nil

vars == <<row, worker, faults, reaps, spent, performed>>

-----------------------------------------------------------------------------

Open   == {"pending", "running"}
Closed == {"completed", "dead"}
Status == {"absent"} \cup Open \cup Closed

Row == [status : Status, type : JobTypes, attempts : Nat,
        max : Nat \ {0}, wait : Int, age : Nat]

Worker == [state : {"idle", "claimed", "running", "succeeded", "failed"},
           job : Jobs \cup {NoJob}, attempt : Nat, age : Nat,
           pace : {"timely", "late"}]

Idle == [state |-> "idle", job |-> NoJob, attempt |-> 0, age |-> 0,
         pace |-> "timely"]

Busy(w)     == worker[w].state # "idle"
Holds(w, j) == worker[w].job = j
Exists(j)   == row[j].status # "absent"

\* Mutant of Due: the claim query does not look at the status closely.
DueOrRunning(j) == row[j].status \in Open /\ row[j].wait <= 0

\* claim query: WHERE status = 'pending' AND run_at <= NOW()
Due(j) == row[j].status = "pending" /\ row[j].wait <= 0

\* ORDER BY run_at ASC LIMIT 1
Oldest(j) == Due(j) /\ \A k \in Jobs : Due(k) => row[j].wait <= row[k].wait

\* Mutant of Stale: the reaper respects max_attempts.
StaleWithAttemptsLeft(j) ==
    /\ row[j].status = "running" /\ row[j].age > StaleTimeout
    /\ row[j].attempts < row[j].max

\* Mutant of Stale: the reaper does not look at the status.
StaleAnyStatus(j) == Exists(j) /\ row[j].age > StaleTimeout

\* reap query: WHERE status = 'running' AND started_at < now - staleTimeout
Stale(j) == row[j].status = "running" /\ row[j].age > StaleTimeout

\* Mutant of AttemptsLeft: off by one.
AttemptsLeftInclusive(w) == worker[w].attempt <= row[worker[w].job].max

\* failJob judges by the attempt number the worker copied, not the row's.
AttemptsLeft(w) == worker[w].attempt < row[worker[w].job].max

\* 4^attempts * 30s, one hour at most
Delay(n) == IF 4 ^ n * Backoff \in 0 .. BackoffCap
            THEN 4 ^ n * Backoff
            ELSE BackoffCap

-----------------------------------------------------------------------------

Init ==
    /\ row \in [Jobs -> {[status |-> "absent", type |-> t, attempts |-> 0,
                          max |-> m, wait |-> 0, age |-> 0] :
                            t \in JobTypes, m \in MaxAttempts}]
    /\ worker = [w \in Workers |-> Idle]
    /\ faults = 0
    /\ reaps = [j \in Jobs |-> 0]
    /\ spent = [j \in Jobs |-> {}]
    /\ performed = [j \in Jobs |-> 0]

\* A caller inserts the job, due at once: no caller sets RunAt.  Its type and
\* max_attempts were drawn in Init.
Enqueue(j) ==
    /\ ~Exists(j)
    /\ row' = [row EXCEPT ![j].status = "pending"]
    /\ UNCHANGED <<worker, faults, reaps, spent, performed>>

\* Mutant of Claim: the attempt is not counted in the table.
ClaimUncounted(w, j) ==
    /\ ~Busy(w)
    /\ Oldest(j)
    /\ row' = [row EXCEPT ![j].status = "running", ![j].age = 0]
    /\ worker' = [worker EXCEPT ![w] =
                    [state |-> "claimed", job |-> j,
                     attempt |-> row[j].attempts + 1, age |-> 0,
                     pace |-> "timely"]]
    /\ UNCHANGED <<faults, reaps, spent, performed>>

\* The claim transaction: the locked row becomes running with one attempt
\* more, and the worker keeps a copy of the attempt number.
Claim(w, j) ==
    /\ ~Busy(w)
    /\ Oldest(j)
    /\ row' = [row EXCEPT ![j].status = "running",
                          ![j].attempts = @ + 1,
                          ![j].age = 0]
    /\ worker' = [worker EXCEPT ![w] =
                    [state |-> "claimed", job |-> j,
                     attempt |-> row[j].attempts + 1, age |-> 0,
                     pace |-> "timely"]]
    /\ UNCHANGED <<faults, reaps, spent, performed>>

\* Mutant of LookUp: a job without a handler counts as done.
LookUpSkipsUnknown(w) ==
    /\ worker[w].state = "claimed"
    /\ worker' = [worker EXCEPT ![w].state =
                    IF row[worker[w].job].type \in Handles[w]
                    THEN "running" ELSE "succeeded"]
    /\ UNCHANGED <<row, faults, reaps, spent, performed>>

\* The handler lookup: the handler starts, or there is none and the attempt
\* fails like any other (an older instance during a rolling deploy).
LookUp(w) ==
    /\ worker[w].state = "claimed"
    /\ worker' = [worker EXCEPT ![w].state =
                    IF row[worker[w].job].type \in Handles[w]
                    THEN "running" ELSE "failed"]
    /\ UNCHANGED <<row, faults, reaps, spent, performed>>

\* The handler returns nil: its effect has happened.
Succeed(w) ==
    /\ worker[w].state = "running"
    /\ worker' = [worker EXCEPT ![w].state = "succeeded"]
    /\ performed' = [performed EXCEPT ![worker[w].job] = @ + 1]
    /\ UNCHANGED <<row, faults, reaps, spent>>

\* The handler returns an error, or panics and is recovered.
Fail(w) ==
    /\ worker[w].state = "running"
    /\ worker' = [worker EXCEPT ![w].state = "failed"]
    /\ UNCHANGED <<row, faults, reaps, spent, performed>>

\* completeJob: UPDATE ... WHERE id, whatever the row's status is by now.
Complete(w) ==
    /\ worker[w].state = "succeeded"
    /\ row' = [row EXCEPT ![worker[w].job].status = "completed"]
    /\ worker' = [worker EXCEPT ![w] = Idle]
    /\ UNCHANGED <<faults, reaps, spent, performed>>

\* failJob, attempts left: back to pending after the delay.
Reschedule(w) ==
    LET j == worker[w].job
        n == worker[w].attempt
    IN  /\ worker[w].state = "failed"
        /\ AttemptsLeft(w)
        /\ row' = [row EXCEPT ![j].status = "pending", ![j].wait = Delay(n)]
        /\ worker' = [worker EXCEPT ![w] = Idle]
        /\ spent' = [spent EXCEPT ![j] = @ \cup {n}]
        /\ UNCHANGED <<faults, reaps, performed>>

\* Mutant of Bury: the row is deleted.
BuryDeletes(w) ==
    LET j == worker[w].job
    IN  /\ worker[w].state = "failed"
        /\ ~AttemptsLeft(w)
        /\ row' = [row EXCEPT ![j].status = "absent"]
        /\ worker' = [worker EXCEPT ![w] = Idle]
        /\ UNCHANGED <<faults, reaps, spent, performed>>

\* failJob, no attempts left.
Bury(w) ==
    LET j == worker[w].job
    IN  /\ worker[w].state = "failed"
        /\ ~AttemptsLeft(w)
        /\ row' = [row EXCEPT ![j].status = "dead"]
        /\ worker' = [worker EXCEPT ![w] = Idle]
        /\ UNCHANGED <<faults, reaps, spent, performed>>

\* One statement takes back every stale row, with no look at its attempts and
\* no word to the worker that may still be running it.
Reap ==
    /\ \E j \in Jobs : Stale(j)
    /\ row' = [j \in Jobs |-> IF Stale(j)
                              THEN [row[j] EXCEPT !.status = "pending"]
                              ELSE row[j]]
    /\ reaps' = [j \in Jobs |-> IF Stale(j) THEN reaps[j] + 1 ELSE reaps[j]]
    /\ UNCHANGED <<worker, faults, spent, performed>>

-----------------------------------------------------------------------------
(* The environment: faults and time. *)

\* Mutant of Abandon: the loop goes on with the job it had in hand.
AbandonKeepsJob(w) ==
    /\ Busy(w)
    /\ faults < MaxFaults
    /\ faults' = faults + 1
    /\ worker' = [worker EXCEPT ![w].state = "idle"]
    /\ UNCHANGED <<row, reaps, spent, performed>>

\* The instance dies (or is stopped: its context is cancelled and every write
\* it still attempts fails) and comes back with an idle poll loop; or the
\* UPDATE that reports an outcome fails, which is only logged.
Abandon(w) ==
    /\ Busy(w)
    /\ faults < MaxFaults
    /\ faults' = faults + 1
    /\ worker' = [worker EXCEPT ![w] = Idle]
    /\ UNCHANGED <<row, reaps, spent, performed>>

\* The worker will outlive its deadline: the handler does not watch its
\* context (the notification handlers use context.Background()), or the
\* instance is paused.
FallBehind(w) ==
    /\ Busy(w)
    /\ worker[w].pace = "timely"
    /\ faults < MaxFaults
    /\ faults' = faults + 1
    /\ worker' = [worker EXCEPT ![w].pace = "late"]
    /\ UNCHANGED <<row, reaps, spent, performed>>

Older(age) == IF age > StaleTimeout THEN age ELSE age + 1

\* Time passes.  A worker that is not late is done when its deadline, the
\* context timeout of staleTimeout, comes.
Tick ==
    /\ \A w \in Workers :
          Busy(w) => worker[w].pace = "late" \/ worker[w].age < StaleTimeout
    /\ row' = [j \in Jobs |->
                 CASE row[j].status = "pending" /\ row[j].wait > 0 - Horizon ->
                        [row[j] EXCEPT !.wait = @ - 1]
                   [] row[j].status = "running" ->
                        [row[j] EXCEPT !.age = Older(@)]
                   [] OTHER -> row[j]]
    /\ worker' = [w \in Workers |->
                    IF Busy(w) THEN [worker[w] EXCEPT !.age = Older(@)]
                               ELSE worker[w]]
    /\ UNCHANGED <<faults, reaps, spent, performed>>

-----------------------------------------------------------------------------

WorkerStep(w) ==
    \/ \E j \in Jobs : Claim(w, j)
    \/ LookUp(w)
    \/ Succeed(w)
    \/ Fail(w)
    \/ Complete(w)
    \/ Reschedule(w)
    \/ Bury(w)

Next ==
    \/ \E j \in Jobs : Enqueue(j)
    \/ \E w \in Workers : WorkerStep(w) \/ Abandon(w) \/ FallBehind(w)
    \/ Reap
    \/ Tick

Spec == Init /\ [][Next]_vars

\* Poll loops and reap loops run on tickers and never stop for good, handlers
\* return, and time passes.  Nothing obliges a fault, and nothing obliges a
\* caller to enqueue.
Fairness ==
    /\ \A w \in Workers : WF_vars(WorkerStep(w))
    /\ WF_vars(Reap)
    /\ WF_vars(Tick)

FairSpec == Spec /\ Fairness

-----------------------------------------------------------------------------

TypeOK ==
    /\ row \in [Jobs -> Row]
    /\ worker \in [Workers -> Worker]
    /\ \A w \in Workers : Busy(w) <=> worker[w].job \in Jobs
    /\ faults \in 0 .. MaxFaults
    /\ reaps \in [Jobs -> Nat]
    /\ spent \in [Jobs -> SUBSET Nat]
    /\ performed \in [Jobs -> Nat]

\* No two poll loops execute the same attempt of a job: FOR UPDATE SKIP LOCKED
\* with the status change and the increment in one transaction gives every
\* claim of a job an attempt number of its own, even once reaping has let
\* several claims of it overlap (queue.go, processOne).
NoSharedAttempt ==
    \A v, w \in Workers :
        /\ v # w
        /\ Busy(v)
        /\ worker[v].job = worker[w].job
        => worker[v].attempt # worker[w].attempt

\* The number of runs a job can have: as many as its max_attempts and one more
\* for each time the reaper took it back -- although failJob judges by the
\* worker's own, possibly outdated, copy of the attempt number, and although
\* the reaper does not look at the number at all (queue.go, failJob, reapLoop).
AttemptsBounded ==
    \A j \in Jobs : row[j].attempts <= row[j].max + reaps[j]

\* Until the reaper has taken a job back, one worker at most is running it.
ExclusiveUntilReaped ==
    \A j \in Jobs : reaps[j] = 0 =>
        \A v, w \in Workers : Holds(v, j) /\ Holds(w, j) => v = w

\* A row says completed only if the handler has returned nil for it, and dead
\* only if the attempts were used up, whatever late reports came in between.
OutcomeIsEarned ==
    \A j \in Jobs :
        /\ row[j].status = "completed" => performed[j] > 0
        /\ row[j].status = "dead" => row[j].attempts >= row[j].max

\* The outcome of a job that was never reaped is final: no other worker is
\* left whose unconditional UPDATE could put it back to pending or change it.
OutcomeIsFinalUntilReaped ==
    [][\A j \in Jobs :
          row[j].status \in Closed /\ reaps[j] = 0
          => row'[j].status = row[j].status]_vars

\* Every job comes to rest: from some point on it is completed or dead (or was
\* never enqueued), whatever crashes, failed writes and slow workers happened
\* before, and late reports cannot reopen it for ever.
EventuallySettled ==
    \A j \in Jobs : <>[](row[j].status \in Closed \cup {"absent"})

\* The queue keeps its contract: seen without attempts, instances and time it
\* is the specification of module JobContract.
Contract == INSTANCE JobContract WITH
    phase   <- [j \in Jobs |-> IF row[j].status \in Open
                               THEN "open" ELSE row[j].status],
    done    <- [j \in Jobs |-> performed[j] > 0],
    revoked <- [j \in Jobs |-> reaps[j] > 0]

\* Every step of the queue is a step the contract allows: no accepted job is
\* lost, none is completed unperformed or dead although performed, and only a
\* revoked job changes its outcome (queue.go as a whole).
KeepsContract == Contract!ContractSpec

\* The migration that creates the table says that claiming through FOR UPDATE
\* SKIP LOCKED gives "exactly-once delivery" (000018_job_queue.up.sql:1-2).
ExactlyOnceDelivery == \A j \in Jobs : performed[j] <= 1

=============================================================================
