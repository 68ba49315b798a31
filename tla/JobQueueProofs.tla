--------------------------- MODULE JobQueueProofs ---------------------------
(***************************************************************************)
(* Proofs about the job queue, for every set of jobs and of instances and  *)
(* every value of the bounds.                                              *)
(*                                                                         *)
(* Bookkeeping is the inductive part.  Its core is Account: a row can      *)
(* become pending only by being enqueued, by being reaped, or by the       *)
(* failure of an attempt with a number below max_attempts, and each such   *)
(* number is spent at most once because no two workers share it.           *)
(***************************************************************************)
EXTENDS JobQueue, FiniteSetTheorems, TLAPS

\* A worker's attempt was handed out by a claim and its failure has not
\* rescheduled the job yet.
Claims ==
    \A w \in Workers : Busy(w) =>
        /\ worker[w].attempt \in 1 .. row[worker[w].job].attempts
        /\ worker[w].attempt \notin spent[worker[w].job]
        /\ Exists(worker[w].job)
        /\ worker[w].state = "succeeded" => performed[worker[w].job] > 0

\* Each time the row is pending has been paid for by the enqueue, by a reap
\* or by a spent attempt.
Account ==
    \A j \in Jobs :
        /\ spent[j] \subseteq 1 .. row[j].max - 1
        /\ spent[j] \subseteq 1 .. row[j].attempts
        /\ row[j].status = "absent" => row[j].attempts = 0
        /\ row[j].status = "pending" =>
              row[j].attempts <= reaps[j] + Cardinality(spent[j])
        /\ row[j].attempts <= 1 + reaps[j] + Cardinality(spent[j])

\* Before the first reap of a job the table and its one worker agree.
Agreement ==
    \A j \in Jobs : reaps[j] = 0 =>
        /\ \A w \in Workers : Holds(w, j) => row[j].status = "running"
        /\ performed[j] > 0 =>
              /\ row[j].status \in {"running", "completed"}
              /\ \A w \in Workers : Holds(w, j) =>
                    worker[w].state = "succeeded"

Bookkeeping ==
    /\ TypeOK
    /\ Claims
    /\ NoSharedAttempt
    /\ Account
    /\ ExclusiveUntilReaped
    /\ Agreement
    /\ OutcomeIsEarned

-----------------------------------------------------------------------------

\* The delay is a number of units whatever the attempt (queue.go, failJob).
LEMMA DelayType == \A n : Delay(n) \in Nat
  BY JobQueueAssumption DEF Delay

\* Rows and workers have their types in every reachable state.
LEMMA TypeInit == Init => TypeOK
  BY JobQueueAssumption DEF Init, TypeOK, Row, Worker, Idle, Status, Open,
     Closed, Busy

\* Every step keeps them: one step of the proof for each action.
LEMMA TypeStep == TypeOK /\ [Next]_vars => TypeOK'
<1> SUFFICES ASSUME TypeOK, [Next]_vars PROVE TypeOK'
  OBVIOUS
<1> USE JobQueueAssumption DEF TypeOK, Row, Worker, Status, Open, Closed
<1>1. ASSUME NEW j \in Jobs, Enqueue(j) PROVE TypeOK'
  BY <1>1 DEF Enqueue, Busy
<1>2. ASSUME NEW w \in Workers, NEW j \in Jobs, Claim(w, j) PROVE TypeOK'
  BY <1>2 DEF Claim, Busy
<1>3. ASSUME NEW w \in Workers, LookUp(w) PROVE TypeOK'
  BY <1>3 DEF LookUp, Busy
<1>4. ASSUME NEW w \in Workers, Succeed(w) PROVE TypeOK'
  <2>1. worker[w].job \in Jobs
    BY <1>4 DEF Succeed, Busy
  <2>2. performed' \in [Jobs -> Nat]
    BY <1>4, <2>1 DEF Succeed
  <2>3. worker' \in [Workers -> Worker]
    BY <1>4 DEF Succeed
  <2>4. \A v \in Workers : Busy(v)' <=> worker'[v].job \in Jobs
    BY <1>4 DEF Succeed, Busy
  <2>5. QED
    BY <1>4, <2>2, <2>3, <2>4 DEF Succeed
<1>5. ASSUME NEW w \in Workers, Fail(w) PROVE TypeOK'
  BY <1>5 DEF Fail, Busy
<1>6. ASSUME NEW w \in Workers, Complete(w) PROVE TypeOK'
  BY <1>6 DEF Complete, Busy, Idle
<1>7. ASSUME NEW w \in Workers, Reschedule(w) PROVE TypeOK'
  <2> DEFINE j == worker[w].job
  <2>1. j \in Jobs /\ worker[w].attempt \in Nat
    BY <1>7 DEF Reschedule, Busy
  <2>2. row' \in [Jobs -> Row]
    BY <1>7, <2>1, DelayType DEF Reschedule
  <2>3. spent' \in [Jobs -> SUBSET Nat]
    BY <1>7, <2>1 DEF Reschedule
  <2>4. worker' = [worker EXCEPT ![w] = Idle]
    BY <1>7 DEF Reschedule
  <2>5. /\ worker' \in [Workers -> Worker]
        /\ \A v \in Workers : Busy(v)' <=> worker'[v].job \in Jobs
    BY <2>4 DEF Busy, Idle
  <2>6. QED
    BY <1>7, <2>2, <2>3, <2>5 DEF Reschedule
<1>8. ASSUME NEW w \in Workers, Bury(w) PROVE TypeOK'
  BY <1>8 DEF Bury, Busy, Idle
<1>9. ASSUME NEW w \in Workers, Abandon(w) PROVE TypeOK'
  BY <1>9 DEF Abandon, Busy, Idle
<1>10. ASSUME NEW w \in Workers, FallBehind(w) PROVE TypeOK'
  BY <1>10 DEF FallBehind, Busy
<1>11. CASE Reap
  BY <1>11 DEF Reap, Busy
<1>12. CASE Tick
  <2>1. ASSUME NEW j \in Jobs PROVE row'[j] \in Row
    BY <1>12 DEF Tick, Older
  <2>2. ASSUME NEW w \in Workers
        PROVE  worker'[w] \in Worker /\ (Busy(w)' <=> worker'[w].job \in Jobs)
    BY <1>12 DEF Tick, Older, Busy
  <2>3. QED
    BY <1>12, <2>1, <2>2 DEF Tick, Busy
<1>13. CASE UNCHANGED vars
  BY <1>13 DEF vars, Busy
<1>14. QED
  BY <1>1, <1>2, <1>3, <1>4, <1>5, <1>6, <1>7, <1>8, <1>9, <1>10, <1>11,
     <1>12, <1>13 DEF Next, WorkerStep

\* The types of the table, the workers and the history are as declared.
THEOREM TypeCorrect == Spec => []TypeOK
  BY TypeInit, TypeStep, PTL DEF Spec

-----------------------------------------------------------------------------

\* Spent attempts can be counted.
LEMMA SpentFinite ==
    ASSUME TypeOK, Account, NEW j \in Jobs
    PROVE  IsFiniteSet(spent[j]) /\ Cardinality(spent[j]) \in Nat
<1>1. IsFiniteSet(1 .. row[j].attempts)
  BY FS_Interval DEF TypeOK, Row
<1>2. QED
  BY <1>1, FS_Subset, FS_CardinalityType DEF Account

\* A busy worker has a job, and an idle one has none.
LEMMA BusyHolds ==
    ASSUME TypeOK, NEW w \in Workers
    PROVE  /\ Busy(w) => worker[w].job \in Jobs
           /\ \A j \in Jobs : Holds(w, j) => Busy(w)
  BY DEF TypeOK, Holds

\* The bookkeeping holds initially.
LEMMA BookkeepingInit == Init => Bookkeeping
<1> SUFFICES ASSUME Init PROVE Bookkeeping
  OBVIOUS
<1>1. TypeOK
  BY TypeInit
<1>2. \A w \in Workers : worker[w].state = "idle" /\ worker[w].job = NoJob
  BY DEF Init, Idle
<1>3. \A j \in Jobs : /\ row[j].status = "absent"
                      /\ row[j].attempts = 0
                      /\ spent[j] = {} /\ reaps[j] = 0 /\ performed[j] = 0
  BY JobQueueAssumption DEF Init
<1>4. Claims /\ NoSharedAttempt
  BY <1>2 DEF Claims, NoSharedAttempt, Busy
<1>5. Account
  <2>1. \A j \in Jobs : Cardinality(spent[j]) = 0
    BY <1>3, FS_EmptySet, Zenon
  <2>2. QED
    BY <1>3, <2>1 DEF Account
<1>6. ExclusiveUntilReaped /\ Agreement
  BY <1>2, <1>3, JobQueueAssumption DEF ExclusiveUntilReaped, Agreement, Holds
<1>7. OutcomeIsEarned
  BY <1>3 DEF OutcomeIsEarned
<1>8. QED
  BY <1>1, <1>4, <1>5, <1>6, <1>7 DEF Bookkeeping

-----------------------------------------------------------------------------

\* A claim takes an attempt number nobody has had.
LEMMA ClaimStep ==
    ASSUME Bookkeeping, NEW w \in Workers, NEW j \in Jobs, Claim(w, j), TypeOK'
    PROVE  Bookkeeping'
<1> USE DEF Bookkeeping
<1> DEFINE n == row[j].attempts + 1
<1>1. /\ ~Busy(w)
      /\ row[j].status = "pending"
      /\ row' = [row EXCEPT ![j].status = "running", ![j].attempts = @ + 1,
                            ![j].age = 0]
      /\ worker'[w] = [state |-> "claimed", job |-> j, attempt |-> n,
                       age |-> 0, pace |-> "timely"]
      /\ \A v \in Workers \ {w} : worker'[v] = worker[v]
      /\ UNCHANGED <<reaps, spent, performed>>
  BY DEF Claim, Oldest, Due, TypeOK
<1>2. /\ row'[j].status = "running" /\ row'[j].attempts = n
      /\ row'[j].max = row[j].max
      /\ \A k \in Jobs \ {j} : row'[k] = row[k]
      /\ n \in Nat \ {0}
      /\ \A k \in Jobs : 1 .. row[k].attempts \subseteq 1 .. row'[k].attempts
      /\ \A k \in Jobs : Exists(k) => row'[k].status # "absent"
  BY <1>1 DEF TypeOK, Row, Exists
<1>3. \A v \in Workers : Holds(v, j) => worker[v].attempt # n
  <2> SUFFICES ASSUME NEW v \in Workers, Holds(v, j)
               PROVE  worker[v].attempt # n
    OBVIOUS
  <2>1. worker[v].attempt \in 1 .. row[j].attempts
    BY BusyHolds DEF Claims, Holds
  <2>2. QED
    BY <2>1, <1>2 DEF TypeOK, Row
<1>4. n \notin spent[j]
  BY <1>2 DEF Account, TypeOK, Row
<1>5. Claims'
  <2> SUFFICES ASSUME NEW v \in Workers, Busy(v)'
               PROVE /\ worker'[v].attempt \in 1 .. row'[worker'[v].job].attempts
                     /\ worker'[v].attempt \notin spent'[worker'[v].job]
                     /\ row'[worker'[v].job].status # "absent"
                     /\ worker'[v].state = "succeeded" =>
                           performed'[worker'[v].job] > 0
    BY DEF Claims, Exists
  <2>1. CASE v = w
    BY <2>1, <1>1, <1>2, <1>4
  <2>2. CASE v # w
    <3>1. Busy(v) /\ worker[v].job \in Jobs
      BY <2>2, <1>1, BusyHolds DEF Busy
    <3>2. worker[v].attempt \in 1 .. row[worker[v].job].attempts
      BY <3>1 DEF Claims
    <3>3. /\ worker[v].attempt \in 1 .. row'[worker[v].job].attempts
          /\ row'[worker[v].job].status # "absent"
      BY <3>1, <3>2, <1>2 DEF Claims
    <3>4. worker'[v] = worker[v]
      BY <2>2, <1>1
    <3>5. QED
      BY <3>1, <3>3, <3>4, <1>1 DEF Claims
  <2>3. QED
    BY <2>1, <2>2
<1>6. NoSharedAttempt'
  BY <1>1, <1>3 DEF NoSharedAttempt, Busy, Holds
<1>7. Account'
  <2> SUFFICES ASSUME NEW k \in Jobs
               PROVE /\ spent'[k] \subseteq 1 .. row'[k].max - 1
                     /\ spent'[k] \subseteq 1 .. row'[k].attempts
                     /\ row'[k].status = "absent" => row'[k].attempts = 0
                     /\ row'[k].status = "pending" =>
                          row'[k].attempts <= reaps'[k] + Cardinality(spent'[k])
                     /\ row'[k].attempts <= 1 + reaps'[k] + Cardinality(spent'[k])
    BY DEF Account
  <2>1. Cardinality(spent[k]) \in Nat
    BY SpentFinite
  <2>2. CASE k = j
    BY <2>1, <2>2, <1>1, <1>2 DEF Account, TypeOK, Row
  <2>3. CASE k # j
    BY <2>3, <1>1, <1>2 DEF Account
  <2>4. QED
    BY <2>2, <2>3
<1>8. \A v \in Workers, k \in Jobs : reaps[k] = 0 /\ Holds(v, k)' =>
         \/ v = w /\ k = j
         \/ v # w /\ k # j /\ Holds(v, k)
  BY <1>1 DEF Agreement, Holds
<1>9. ExclusiveUntilReaped' /\ Agreement'
  <2>1. ExclusiveUntilReaped'
    BY <1>1, <1>8 DEF ExclusiveUntilReaped
  <2>2. \A k \in Jobs : reaps[k] = 0 =>
           \A v \in Workers : Holds(v, k)' => row'[k].status = "running"
    BY <1>2, <1>8 DEF Agreement
  <2>3. reaps[j] = 0 => ~(performed[j] > 0)
    BY <1>1 DEF Agreement
  <2>4. \A k \in Jobs \ {j} : reaps[k] = 0 /\ performed[k] > 0 =>
           /\ row'[k].status \in {"running", "completed"}
           /\ \A v \in Workers : Holds(v, k)' => worker'[v].state = "succeeded"
    <3> SUFFICES ASSUME NEW k \in Jobs \ {j}, reaps[k] = 0, performed[k] > 0
                 PROVE  /\ row[k].status \in {"running", "completed"}
                        /\ \A v \in Workers : Holds(v, k)' =>
                              worker'[v].state = "succeeded"
      BY <1>2
    <3>1. /\ row[k].status \in {"running", "completed"}
          /\ \A v \in Workers : Holds(v, k) => worker[v].state = "succeeded"
      BY DEF Agreement
    <3>2. \A v \in Workers : Holds(v, k)' =>
             Holds(v, k) /\ worker'[v] = worker[v]
      BY <1>1, <1>8
    <3>3. QED
      BY <3>1, <3>2
  <2>5. QED
    BY <1>1, <2>1, <2>2, <2>3, <2>4 DEF Agreement
<1>10. OutcomeIsEarned'
  BY <1>1, <1>2 DEF OutcomeIsEarned
<1>11. QED
  BY <1>5, <1>6, <1>7, <1>9, <1>10

\* A step that hands out no attempt keeps what is said about the holders.
LEMMA HoldersStep ==
    ASSUME Bookkeeping, TypeOK',
           \A v \in Workers : Busy(v)' =>
              /\ Busy(v)
              /\ worker'[v].job = worker[v].job
              /\ worker'[v].attempt = worker[v].attempt
              /\ worker'[v].attempt \notin spent'[worker'[v].job]
              /\ worker'[v].state = "succeeded" =>
                    performed'[worker'[v].job] > 0,
           \A j \in Jobs :
              /\ row'[j].attempts = row[j].attempts
              /\ Exists(j) => row'[j].status # "absent"
              /\ reaps'[j] = 0 => reaps[j] = 0
    PROVE  /\ Claims' /\ NoSharedAttempt' /\ ExclusiveUntilReaped'
           /\ \A v \in Workers, j \in Jobs : Holds(v, j)' => Holds(v, j)
<1> USE DEF Bookkeeping
<1>1. \A v \in Workers, j \in Jobs : Holds(v, j)' => Holds(v, j)
  BY DEF Holds, TypeOK
<1>2. Claims'
  <2> SUFFICES ASSUME NEW v \in Workers, Busy(v)'
               PROVE /\ worker'[v].attempt \in 1 .. row'[worker'[v].job].attempts
                     /\ row'[worker'[v].job].status # "absent"
    BY DEF Claims, Exists
  <2>1. worker[v].job \in Jobs /\ Busy(v)
    BY BusyHolds
  <2>2. worker[v].attempt \in 1 .. row[worker[v].job].attempts
    BY <2>1 DEF Claims
  <2>3. QED
    BY <2>1, <2>2 DEF Claims
<1>3. NoSharedAttempt'
  <2> SUFFICES ASSUME NEW v \in Workers, NEW u \in Workers, v # u, Busy(v)',
                      worker'[v].job = worker'[u].job
               PROVE  worker'[v].attempt # worker'[u].attempt
    BY DEF NoSharedAttempt
  <2>1. worker'[v].job \in Jobs /\ Busy(u)'
    BY DEF TypeOK
  <2>2. QED
    BY <2>1 DEF NoSharedAttempt
<1>4. ExclusiveUntilReaped'
  BY <1>1 DEF ExclusiveUntilReaped
<1>5. QED
  BY <1>1, <1>2, <1>3, <1>4

\* A step after which no row is newly pending keeps the account.
LEMMA AccountStep ==
    ASSUME Bookkeeping,
           UNCHANGED <<spent, reaps>>,
           \A j \in Jobs :
              /\ row'[j].attempts = row[j].attempts
              /\ row'[j].max = row[j].max
              /\ \/ row'[j].status = row[j].status
                 \/ row'[j].status \notin {"absent", "pending"}
    PROVE  Account'
  BY DEF Bookkeeping, Account

\* The steps of the environment and of the handlers, which leave the table
\* alone: a worker gives up or moves on, or nothing but time changes.
LEMMA QuietStep ==
    ASSUME Bookkeeping, TypeOK',
           UNCHANGED <<spent, reaps>>,
           \A j \in Jobs :
              /\ row'[j].attempts = row[j].attempts
              /\ row'[j].max = row[j].max
              /\ row'[j].status = row[j].status
              /\ performed'[j] >= performed[j],
           \A v \in Workers : Busy(v)' =>
              /\ Busy(v)
              /\ worker'[v].job = worker[v].job
              /\ worker'[v].attempt = worker[v].attempt
              /\ worker[v].state = "succeeded" => worker'[v].state = "succeeded"
              /\ worker'[v].state = "succeeded" =>
                    performed'[worker'[v].job] > 0,
           \A j \in Jobs : reaps[j] = 0 /\ performed'[j] # performed[j] =>
              \E v \in Workers : Holds(v, j) /\ worker'[v].state = "succeeded"
    PROVE  Bookkeeping'
<1> USE DEF Bookkeeping
<1>1. /\ Claims' /\ NoSharedAttempt' /\ ExclusiveUntilReaped'
      /\ \A v \in Workers, j \in Jobs : Holds(v, j)' => Holds(v, j)
  <2>1. \A v \in Workers : Busy(v)' =>
           worker'[v].attempt \notin spent'[worker'[v].job]
    BY DEF Claims
  <2>2. QED
    BY <2>1, HoldersStep DEF Exists
<1>2. Account'
  BY AccountStep
<1>3. Agreement'
  <2> SUFFICES ASSUME NEW j \in Jobs, reaps[j] = 0
      PROVE /\ \A v \in Workers : Holds(v, j)' => row'[j].status = "running"
            /\ performed'[j] > 0 =>
                  /\ row'[j].status \in {"running", "completed"}
                  /\ \A v \in Workers : Holds(v, j)' =>
                        worker'[v].state = "succeeded"
    BY DEF Agreement
  <2>1. \A v \in Workers : Holds(v, j)' => row'[j].status = "running"
    BY <1>1 DEF Agreement
  <2>2. CASE performed'[j] # performed[j]
    <3>1. PICK v \in Workers : Holds(v, j) /\ worker'[v].state = "succeeded"
      BY <2>2
    <3>2. row[j].status = "running" /\ \A u \in Workers : Holds(u, j) => u = v
      BY <3>1 DEF Agreement, ExclusiveUntilReaped
    <3>3. QED
      BY <2>1, <3>1, <3>2, <1>1
  <2>3. CASE performed'[j] = performed[j]
    <3>1. \A v \in Workers : Holds(v, j)' => Busy(v)'
      BY DEF TypeOK, Holds
    <3>2. QED
      BY <2>1, <2>3, <3>1, <1>1 DEF Agreement
  <2>4. QED
    BY <2>2, <2>3
<1>4. OutcomeIsEarned'
  BY DEF OutcomeIsEarned, TypeOK, Row
<1>5. QED
  BY <1>1, <1>2, <1>3, <1>4

\* The reports.  A worker that reports becomes idle; the row changes its
\* status, and only a reschedule makes it pending and spends the attempt.
LEMMA ReportStep ==
    ASSUME Bookkeeping, TypeOK', NEW w \in Workers,
           Complete(w) \/ Bury(w) \/ Reschedule(w)
    PROVE  Bookkeeping'
<1> USE DEF Bookkeeping
<1> DEFINE j == worker[w].job
           n == worker[w].attempt
<1>1. /\ Busy(w) /\ j \in Jobs
      /\ worker' = [worker EXCEPT ![w] = Idle]
      /\ UNCHANGED <<reaps, performed>>
  BY BusyHolds DEF Complete, Bury, Reschedule, Busy
<1>2. /\ ~Busy(w)'
      /\ \A v \in Workers \ {w} : worker'[v] = worker[v]
      /\ \A v \in Workers, k \in Jobs : Holds(v, k)' => v # w /\ Holds(v, k)
  BY <1>1, JobQueueAssumption DEF Busy, Holds, Idle, TypeOK
<1>3. /\ row'[j].status \in {"completed", "dead", "pending"}
      /\ row'[j].attempts = row[j].attempts
      /\ row'[j].max = row[j].max
      /\ \A k \in Jobs \ {j} : row'[k] = row[k]
  BY <1>1 DEF Complete, Bury, Reschedule, AttemptsLeft, TypeOK, Row
<1>4. n \in 1 .. row[j].attempts /\ n \notin spent[j]
  BY <1>1 DEF Claims
<1>5. \A v \in Workers : Busy(v)' =>
         worker'[v].attempt \notin spent'[worker'[v].job]
  <2> SUFFICES ASSUME NEW v \in Workers, Busy(v)'
               PROVE  worker'[v].attempt \notin spent'[worker'[v].job]
    OBVIOUS
  <2>1. v # w /\ worker'[v] = worker[v] /\ Busy(v)
    BY <1>2 DEF Busy
  <2>2. worker[v].attempt \notin spent[worker[v].job]
    BY <2>1 DEF Claims
  <2>3. CASE spent' = spent
    BY <2>1, <2>2, <2>3
  <2>4. CASE spent' = [spent EXCEPT ![j] = @ \cup {n}]
    <3>1. worker[v].job = j => worker[v].attempt # n
      BY <2>1, <1>1 DEF NoSharedAttempt
    <3>2. worker[v].job \in Jobs
      BY <2>1, BusyHolds
    <3>3. spent'[worker[v].job] \subseteq spent[worker[v].job] \cup
             (IF worker[v].job = j THEN {n} ELSE {})
      BY <2>4, <3>2 DEF TypeOK
    <3>4. QED
      BY <2>1, <2>2, <3>1, <3>3
  <2>5. QED
    BY <2>3, <2>4 DEF Complete, Bury, Reschedule
<1>6. Claims' /\ NoSharedAttempt' /\ ExclusiveUntilReaped'
  <2>1. \A v \in Workers : Busy(v)' =>
           /\ Busy(v) /\ worker'[v] = worker[v]
           /\ worker'[v].state = "succeeded" =>
                 performed'[worker'[v].job] > 0
    BY <1>1, <1>2 DEF Busy, Claims
  <2>2. \A k \in Jobs :
           /\ row'[k].attempts = row[k].attempts
           /\ Exists(k) => row'[k].status # "absent"
           /\ reaps'[k] = 0 => reaps[k] = 0
    BY <1>1, <1>3 DEF Exists
  <2>3. QED
    BY <1>5, <2>1, <2>2, HoldersStep
<1>7. Account'
  <2>1. CASE Complete(w) \/ Bury(w)
    <3>1. \A k \in Jobs : \/ row'[k].status = row[k].status
                          \/ row'[k].status \notin {"absent", "pending"}
      BY <2>1, <1>1, <1>3 DEF Complete, Bury, TypeOK, Row
    <3>2. UNCHANGED spent
      BY <2>1 DEF Complete, Bury
    <3>3. \A k \in Jobs : row'[k].attempts = row[k].attempts
                          /\ row'[k].max = row[k].max
      BY <1>3
    <3>4. QED
      BY <1>1, <3>1, <3>2, <3>3, AccountStep
  <2>2. CASE Reschedule(w)
    <3>1. /\ n < row[j].max
          /\ row'[j].status = "pending"
          /\ spent'[j] = spent[j] \cup {n}
          /\ \A k \in Jobs \ {j} : spent'[k] = spent[k]
      BY <2>2, <1>1 DEF Reschedule, AttemptsLeft, TypeOK, Row
    <3>2. Cardinality(spent'[j]) = Cardinality(spent[j]) + 1
      <4>1. IsFiniteSet(spent[j])
        BY <1>1, SpentFinite
      <4>2. Cardinality(spent[j] \cup {n}) = Cardinality(spent[j]) + 1
        BY <4>1, <1>4, FS_AddElement
      <4>3. QED
        BY <4>2, <3>1
    <3>3. \A k \in Jobs : Cardinality(spent[k]) \in Nat
      BY SpentFinite
    <3>4. n \in 1 .. row[j].max - 1
      BY <3>1, <1>1, <1>4 DEF TypeOK, Row
    <3>5. /\ spent'[j] \subseteq 1 .. row'[j].max - 1
          /\ spent'[j] \subseteq 1 .. row'[j].attempts
      BY <3>1, <3>4, <1>1, <1>3, <1>4 DEF Account
    <3>6. row[j].attempts <= reaps[j] + Cardinality(spent'[j])
      BY <3>2, <3>3, <1>1 DEF Account, TypeOK, Row
    <3>7. \A k \in Jobs \ {j} : row'[k] = row[k] /\ spent'[k] = spent[k]
                                /\ reaps'[k] = reaps[k]
      BY <1>1, <1>3, <3>1
    <3>8. row'[j].attempts <= 1 + reaps'[j] + Cardinality(spent'[j])
      BY <3>2, <3>3, <3>6, <1>1, <1>3 DEF TypeOK, Row
    <3>9. QED
      BY <3>1, <3>5, <3>6, <3>7, <3>8, <1>1, <1>3 DEF Account
  <2>3. QED
    BY <2>1, <2>2
<1>8. reaps[j] = 0 =>
         /\ row[j].status = "running"
         /\ \A v \in Workers : Holds(v, j) => v = w
         /\ performed[j] > 0 => worker[w].state = "succeeded"
  BY <1>1 DEF Agreement, ExclusiveUntilReaped, Holds
<1>9. Agreement'
  <2> SUFFICES ASSUME NEW k \in Jobs, reaps[k] = 0
      PROVE /\ \A v \in Workers : Holds(v, k)' => row'[k].status = "running"
            /\ performed[k] > 0 =>
                  /\ row'[k].status \in {"running", "completed"}
                  /\ \A v \in Workers : Holds(v, k)' =>
                        worker'[v].state = "succeeded"
    BY <1>1 DEF Agreement
  <2>1. CASE k = j
    <3>1. \A v \in Workers : ~Holds(v, k)'
      BY <2>1, <1>2, <1>8
    <3>2. performed[k] > 0 => row'[k].status = "completed"
      BY <2>1, <1>1, <1>8 DEF Complete, Bury, Reschedule, AttemptsLeft, TypeOK, Row
    <3>3. QED
      BY <3>1, <3>2
  <2>2. CASE k # j
    <3>1. \A v \in Workers : Holds(v, k)' =>
             Holds(v, k) /\ worker'[v] = worker[v]
      BY <1>2
    <3>2. QED
      BY <2>2, <3>1, <1>3 DEF Agreement
  <2>3. QED
    BY <2>1, <2>2
<1>10. OutcomeIsEarned'
  <2>1. row'[j].status = "completed" => performed[j] > 0
    BY <1>1 DEF Complete, Bury, Reschedule, Claims, TypeOK, Row
  <2>2. row'[j].status = "dead" => row[j].attempts >= row[j].max
    BY <1>1, <1>4 DEF Complete, Bury, Reschedule, AttemptsLeft, TypeOK, Row
  <2>3. QED
    BY <2>1, <2>2, <1>1, <1>3 DEF OutcomeIsEarned
<1>11. QED
  BY <1>6, <1>7, <1>9, <1>10

\* The reaper pays for the row it makes pending, and gives up agreement.
LEMMA ReapStep ==
    ASSUME Bookkeeping, TypeOK', Reap
    PROVE  Bookkeeping'
<1> USE DEF Bookkeeping
<1>1. /\ UNCHANGED <<worker, spent, performed>>
      /\ \A j \in Jobs :
            /\ row'[j].attempts = row[j].attempts
            /\ row'[j].max = row[j].max
            /\ \/ row'[j] = row[j] /\ reaps'[j] = reaps[j]
               \/ /\ row[j].status = "running" /\ row'[j].status = "pending"
                  /\ reaps'[j] = reaps[j] + 1
  BY DEF Reap, Stale, TypeOK, Row
<1>2. Claims' /\ NoSharedAttempt' /\ ExclusiveUntilReaped'
  <2>1. \A v \in Workers : Busy(v)' =>
           /\ Busy(v)
           /\ worker'[v].attempt \notin spent'[worker'[v].job]
           /\ worker'[v].state = "succeeded" =>
                 performed'[worker'[v].job] > 0
    BY <1>1 DEF Busy, Claims
  <2>2. \A k \in Jobs : /\ Exists(k) => row'[k].status # "absent"
                        /\ reaps'[k] = 0 => reaps[k] = 0
    BY <1>1 DEF Exists, TypeOK
  <2>3. QED
    BY <1>1, <2>1, <2>2, HoldersStep
<1>3. Account'
  <2> SUFFICES ASSUME NEW k \in Jobs
               PROVE /\ spent[k] \subseteq 1 .. row'[k].max - 1
                     /\ spent[k] \subseteq 1 .. row'[k].attempts
                     /\ row'[k].status = "absent" => row'[k].attempts = 0
                     /\ row'[k].status = "pending" =>
                          row'[k].attempts <= reaps'[k] + Cardinality(spent[k])
                     /\ row'[k].attempts <= 1 + reaps'[k] + Cardinality(spent[k])
    BY <1>1 DEF Account
  <2>1. Cardinality(spent[k]) \in Nat
    BY SpentFinite
  <2>2. QED
    BY <2>1, <1>1 DEF Account, TypeOK, Row
<1>4. \A j \in Jobs : reaps'[j] = 0 => reaps[j] = 0 /\ row'[j] = row[j]
  BY <1>1 DEF TypeOK
<1>5. Agreement' /\ OutcomeIsEarned'
  BY <1>1, <1>4 DEF Agreement, OutcomeIsEarned, Holds
<1>6. QED
  BY <1>2, <1>3, <1>5

\* An enqueued row is pending before its first attempt.
LEMMA EnqueueStep ==
    ASSUME Bookkeeping, TypeOK', NEW j \in Jobs, Enqueue(j)
    PROVE  Bookkeeping'
<1> USE DEF Bookkeeping
<1>1. /\ row[j].status = "absent" /\ row'[j].status = "pending"
      /\ \A k \in Jobs : /\ row'[k].attempts = row[k].attempts
                         /\ row'[k].max = row[k].max
                         /\ k # j => row'[k] = row[k]
      /\ UNCHANGED <<worker, reaps, spent, performed>>
  BY DEF Enqueue, Exists, TypeOK, Row
<1>2. \A v \in Workers : ~Holds(v, j)
  BY <1>1, BusyHolds DEF Claims, Holds, Exists
<1>3. Claims' /\ NoSharedAttempt' /\ ExclusiveUntilReaped'
  <2>1. \A v \in Workers : Busy(v)' =>
           /\ Busy(v)
           /\ worker'[v].attempt \notin spent'[worker'[v].job]
           /\ worker'[v].state = "succeeded" =>
                 performed'[worker'[v].job] > 0
    BY <1>1 DEF Busy, Claims
  <2>2. \A k \in Jobs : /\ Exists(k) => row'[k].status # "absent"
                        /\ reaps'[k] = 0 => reaps[k] = 0
    BY <1>1 DEF Exists
  <2>3. QED
    BY <1>1, <2>1, <2>2, HoldersStep
<1>4. Account'
  <2>1. Cardinality(spent[j]) \in Nat
    BY SpentFinite
  <2>2. row'[j].attempts <= reaps'[j] + Cardinality(spent'[j])
    BY <2>1, <1>1 DEF Account, TypeOK
  <2>3. QED
    BY <1>1, <2>2 DEF Account
<1>5. Agreement'
  BY <1>1, <1>2 DEF Agreement, Holds
<1>6. OutcomeIsEarned'
  BY <1>1 DEF OutcomeIsEarned
<1>7. QED
  BY <1>3, <1>4, <1>5, <1>6

\* Every step keeps the bookkeeping.
LEMMA BookkeepingStep == Bookkeeping /\ [Next]_vars => Bookkeeping'
<1> SUFFICES ASSUME Bookkeeping, [Next]_vars PROVE Bookkeeping'
  OBVIOUS
<1>1. TypeOK'
  BY TypeStep DEF Bookkeeping
<1>2. ASSUME NEW w \in Workers, NEW j \in Jobs, Claim(w, j)
      PROVE  Bookkeeping'
  BY <1>1, <1>2, ClaimStep
<1>3. ASSUME NEW w \in Workers, Complete(w) \/ Bury(w) \/ Reschedule(w)
      PROVE  Bookkeeping'
  BY <1>1, <1>3, ReportStep
<1>4. ASSUME NEW w \in Workers, LookUp(w) \/ Fail(w) \/ FallBehind(w)
      PROVE  Bookkeeping'
  <2>1. /\ UNCHANGED <<row, spent, reaps, performed>>
        /\ \A v \in Workers : Busy(v)' =>
              /\ Busy(v)
              /\ worker'[v].job = worker[v].job
              /\ worker'[v].attempt = worker[v].attempt
              /\ \/ worker'[v].state = worker[v].state
                 \/ /\ worker[v].state \in {"claimed", "running"}
                    /\ worker'[v].state \in {"running", "failed"}
    BY <1>4 DEF LookUp, Fail, FallBehind, Busy, Bookkeeping, TypeOK, Worker
  <2>2. \A v \in Workers : Busy(v)' =>
           /\ worker[v].state = "succeeded" => worker'[v].state = "succeeded"
           /\ worker'[v].state = "succeeded" =>
                 performed'[worker'[v].job] > 0
    BY <2>1 DEF Bookkeeping, Claims
  <2>3. \A k \in Jobs : performed'[k] >= performed[k]
    BY <2>1 DEF Bookkeeping, TypeOK
  <2>4. QED
    BY <1>1, <2>1, <2>2, <2>3, QuietStep
<1>5. ASSUME NEW w \in Workers, Abandon(w)
      PROVE  Bookkeeping'
  <2>1. /\ UNCHANGED <<row, spent, reaps, performed>>
        /\ \A v \in Workers : Busy(v)' => Busy(v) /\ worker'[v] = worker[v]
    BY <1>5 DEF Abandon, Busy, Idle, Bookkeeping, TypeOK
  <2>2. \A v \in Workers : Busy(v)' =>
           (worker'[v].state = "succeeded" => performed'[worker'[v].job] > 0)
    BY <2>1 DEF Bookkeeping, Claims
  <2>3. \A k \in Jobs : performed'[k] >= performed[k]
    BY <2>1 DEF Bookkeeping, TypeOK
  <2>4. QED
    BY <1>1, <2>1, <2>2, <2>3, QuietStep
<1>6. ASSUME NEW w \in Workers, Succeed(w)
      PROVE  Bookkeeping'
  <2> DEFINE j == worker[w].job
  <2>1. /\ UNCHANGED <<row, spent, reaps>>
        /\ Busy(w) /\ worker[w].state = "running"
        /\ worker' = [worker EXCEPT ![w].state = "succeeded"]
        /\ performed' = [performed EXCEPT ![j] = @ + 1]
    BY <1>6 DEF Succeed, Busy
  <2>2. j \in Jobs
    BY <2>1, BusyHolds DEF Bookkeeping
  <2>3. /\ performed'[j] = performed[j] + 1
        /\ performed[j] \in Nat
        /\ \A k \in Jobs \ {j} : performed'[k] = performed[k]
        /\ \A k \in Jobs : performed'[k] >= performed[k]
    BY <2>1, <2>2 DEF Bookkeeping, TypeOK
  <2>4. /\ worker'[w].state = "succeeded"
        /\ \A v \in Workers \ {w} : worker'[v] = worker[v]
        /\ \A v \in Workers : /\ worker'[v].job = worker[v].job
                              /\ worker'[v].attempt = worker[v].attempt
    BY <2>1 DEF Bookkeeping, TypeOK, Worker
  <2>5. ASSUME NEW v \in Workers, Busy(v)'
        PROVE  /\ Busy(v)
               /\ worker'[v].state = "succeeded" =>
                     performed'[worker'[v].job] > 0
    <3>1. CASE v = w
      BY <3>1, <2>1, <2>3, <2>4
    <3>2. CASE v # w
      <4>1. Busy(v) /\ worker[v].job \in Jobs /\ worker'[v] = worker[v]
        BY <3>2, <2>4, <2>5, BusyHolds DEF Busy, Bookkeeping
      <4>2. worker[v].state = "succeeded" => performed[worker[v].job] > 0
        BY <4>1 DEF Bookkeeping, Claims
      <4>3. performed'[worker[v].job] >= performed[worker[v].job]
        BY <4>1, <2>3
      <4>4. QED
        BY <4>1, <4>2, <4>3, <1>1 DEF Bookkeeping, TypeOK
    <3>3. QED
      BY <3>1, <3>2
  <2>6. \A v \in Workers :
           worker[v].state = "succeeded" => worker'[v].state = "succeeded"
    BY <2>1, <2>4
  <2>7. \A k \in Jobs : performed'[k] # performed[k] =>
           \E v \in Workers : Holds(v, k) /\ worker'[v].state = "succeeded"
    BY <2>3, <2>4 DEF Holds
  <2>8. QED
    BY <1>1, <2>1, <2>3, <2>4, <2>5, <2>6, <2>7, QuietStep
<1>7. ASSUME NEW j \in Jobs, Enqueue(j) PROVE Bookkeeping'
  BY <1>1, <1>7, EnqueueStep
<1>8. CASE Reap
  BY <1>1, <1>8, ReapStep
<1>9. CASE Tick
  <2>1. /\ UNCHANGED <<spent, reaps, performed>>
        /\ \A k \in Jobs : /\ row'[k].attempts = row[k].attempts
                           /\ row'[k].max = row[k].max
                           /\ row'[k].status = row[k].status
        /\ \A v \in Workers : /\ worker'[v].job = worker[v].job
                              /\ worker'[v].attempt = worker[v].attempt
                              /\ worker'[v].state = worker[v].state
    BY <1>9 DEF Tick, Bookkeeping, TypeOK, Row, Worker
  <2>2. \A v \in Workers : Busy(v)' =>
           /\ Busy(v)
           /\ worker'[v].state = "succeeded" => performed'[worker'[v].job] > 0
    BY <2>1 DEF Busy, Bookkeeping, Claims
  <2>3. \A k \in Jobs : performed'[k] >= performed[k]
    BY <2>1 DEF Bookkeeping, TypeOK
  <2>4. QED
    BY <1>1, <2>1, <2>2, <2>3, QuietStep
<1>10. CASE UNCHANGED vars
  BY <1>10 DEF vars, Bookkeeping, TypeOK, Claims, NoSharedAttempt, Account,
     ExclusiveUntilReaped, Agreement, OutcomeIsEarned, Busy, Holds, Exists
<1>11. QED
  BY <1>2, <1>3, <1>4, <1>5, <1>6, <1>7, <1>8, <1>9, <1>10
     DEF Next, WorkerStep

\* The bookkeeping holds in every reachable state.
THEOREM BookkeepingInvariant == Spec => []Bookkeeping
  BY BookkeepingInit, BookkeepingStep, PTL DEF Spec

-----------------------------------------------------------------------------

\* A job runs at most max_attempts times and once more for each reap of it:
\* the bound that the unconditional updates of failJob and of the reaper leave.
THEOREM AttemptsAreBounded == Spec => []AttemptsBounded
<1>1. Bookkeeping => AttemptsBounded
  <2> SUFFICES ASSUME Bookkeeping, NEW j \in Jobs
               PROVE  row[j].attempts <= row[j].max + reaps[j]
    BY DEF AttemptsBounded
  <2>1. /\ row[j].max \in Nat \ {0} /\ row[j].attempts \in Nat
        /\ reaps[j] \in Nat
    BY DEF Bookkeeping, TypeOK, Row
  <2> DEFINE Numbers == 1 .. row[j].max - 1
  <2>2. IsFiniteSet(Numbers) /\ Cardinality(Numbers) = row[j].max - 1
    <3> DEFINE m == row[j].max - 1
    <3>1. m \in Nat /\ 1 \in Int
      BY <2>1
    <3> HIDE DEF m
    <3>2. /\ IsFiniteSet(1 .. m)
          /\ Cardinality(1 .. m) = IF 1 > m THEN 0 ELSE m - 1 + 1
      BY <3>1, FS_Interval
    <3>3. Cardinality(1 .. m) = m
      BY <3>1, <3>2
    <3>4. QED
      BY <3>2, <3>3 DEF m
  <2>3. Cardinality(spent[j]) <= row[j].max - 1
    <3>1. spent[j] \in SUBSET Numbers
      BY DEF Bookkeeping, Account
    <3>2. Cardinality(spent[j]) <= Cardinality(Numbers)
      BY <2>2, <3>1, FS_Subset
    <3>3. QED
      BY <2>2, <3>2
  <2>4. Cardinality(spent[j]) \in Nat
    BY SpentFinite DEF Bookkeeping
  <2>5. QED
    BY <2>1, <2>3, <2>4 DEF Bookkeeping, Account
<1>2. QED
  BY <1>1, BookkeepingInvariant, PTL

\* Concurrent runs of a job are never runs of the same attempt, and there are
\* none before the job's first reap.
THEOREM RunsAreExclusive == Spec => [](NoSharedAttempt /\ ExclusiveUntilReaped)
<1>1. Bookkeeping => NoSharedAttempt /\ ExclusiveUntilReaped
  BY DEF Bookkeeping
<1>2. QED
  BY <1>1, BookkeepingInvariant, PTL

\* Completed jobs have been performed and dead jobs have used their attempts.
THEOREM OutcomesAreEarned == Spec => []OutcomeIsEarned
<1>1. Bookkeeping => OutcomeIsEarned
  BY DEF Bookkeeping
<1>2. QED
  BY <1>1, BookkeepingInvariant, PTL

\* The outcome of a job that was never reaped does not change any more.
THEOREM OutcomesAreFinal == Spec => OutcomeIsFinalUntilReaped
<1>1. ASSUME Bookkeeping, [Next]_vars, NEW j \in Jobs,
             row[j].status \in Closed, reaps[j] = 0
      PROVE  row'[j].status = row[j].status
  <2> USE <1>1 DEF Bookkeeping
  <2>1. \A w \in Workers : ~Holds(w, j)
    BY DEF Agreement, Closed
  <2>2. ASSUME NEW w \in Workers, Complete(w) \/ Bury(w) \/ Reschedule(w)
        PROVE  row'[j] = row[j]
    <3>1. worker[w].job # j
      BY <2>1 DEF Holds
    <3>2. QED
      BY <2>2, <3>1 DEF Complete, Bury, Reschedule, TypeOK
  <2>3. ASSUME NEW w \in Workers,
               \/ \E k \in Jobs : Claim(w, k)
               \/ LookUp(w) \/ Succeed(w) \/ Fail(w)
               \/ Abandon(w) \/ FallBehind(w)
        PROVE  row'[j] = row[j]
    BY <2>3 DEF Claim, Oldest, Due, Closed, LookUp, Succeed, Fail, Abandon,
       FallBehind, TypeOK
  <2>4. ASSUME NEW k \in Jobs, Enqueue(k) PROVE row'[j] = row[j]
    BY <2>4 DEF Enqueue, Exists, Closed, TypeOK
  <2>5. CASE Reap
    BY <2>5 DEF Reap, Stale, Closed
  <2>6. CASE Tick
    BY <2>6 DEF Tick, Closed
  <2>7. CASE UNCHANGED vars
    BY <2>7 DEF vars
  <2>8. QED
    BY <2>2, <2>3, <2>4, <2>5, <2>6, <2>7 DEF Next, WorkerStep
<1>2. Bookkeeping /\ [Next]_vars =>
        [\A j \in Jobs : row[j].status \in Closed /\ reaps[j] = 0
                         => row'[j].status = row[j].status]_vars
  BY <1>1
<1>3. QED
  BY <1>2, BookkeepingInvariant, PTL DEF Spec, OutcomeIsFinalUntilReaped
-----------------------------------------------------------------------------
(* The queue implements its contract. *)

\* What the contract sees of the queue: the refinement mapping of Contract.
Phase   == [j \in Jobs |-> IF row[j].status \in Open
                           THEN "open" ELSE row[j].status]
Done    == [j \in Jobs |-> performed[j] > 0]
Revoked == [j \in Jobs |-> reaps[j] > 0]

\* An empty table is a contract nobody has asked anything of.
LEMMA ContractStarts == Init => Contract!ContractInit
<1> SUFFICES ASSUME Init PROVE Contract!ContractInit
  OBVIOUS
<1>1. \A j \in Jobs : /\ row[j].status = "absent"
                      /\ (performed[j] > 0) = FALSE /\ (reaps[j] > 0) = FALSE
  BY DEF Init
<1>2. /\ Phase = [j \in Jobs |-> "absent"]
      /\ Done = [j \in Jobs |-> FALSE]
      /\ Revoked = [j \in Jobs |-> FALSE]
  <2>1. Phase = [j \in Jobs |-> "absent"]
    BY <1>1 DEF Phase, Open
  <2>2. Done = [j \in Jobs |-> FALSE] /\ Revoked = [j \in Jobs |-> FALSE]
    BY <1>1, Zenon DEF Done, Revoked
  <2>3. QED
    BY <2>1, <2>2
<1>3. QED
  BY <1>2 DEF Contract!ContractInit, Phase, Done, Revoked

\* A step that changes no status, performs nothing and reaps nothing is not
\* seen by the contract.
LEMMA Unseen ==
    ASSUME \A j \in Jobs : /\ row'[j].status = row[j].status
                           /\ performed'[j] = performed[j]
                           /\ reaps'[j] = reaps[j]
    PROVE  UNCHANGED Contract!contractVars
  BY DEF Contract!contractVars

\* A report of a run is the outcome of the job, or one of several overlapping
\* runs of a revoked job has its say.
LEMMA ReportSettles ==
    ASSUME Bookkeeping, NEW w \in Workers,
           Complete(w) \/ Bury(w) \/ Reschedule(w)
    PROVE  [Contract!ContractNext]_(Contract!contractVars)
<1> USE DEF Bookkeeping
<1>0. PICK j \in Jobs : worker[w].job = j
  BY BusyHolds DEF Complete, Bury, Reschedule, Busy
<1>1. /\ Busy(w) /\ worker[w].job = j /\ Holds(w, j)
      /\ worker[w].state \in {"succeeded", "failed"}
  BY <1>0 DEF Complete, Bury, Reschedule, Busy, Holds
<1>2. /\ UNCHANGED <<performed, reaps>>
      /\ \A k \in Jobs \ {j} : row'[k].status = row[k].status
      /\ \/ worker[w].state = "succeeded" /\ row'[j].status = "completed"
         \/ worker[w].state = "failed" /\ row'[j].status \in {"dead", "pending"}
  BY <1>1 DEF Complete, Bury, Reschedule, TypeOK, Row
<1>3. PICK outcome \in {"open", "completed", "dead"} : outcome = Phase'[j]
  BY <1>2 DEF Phase, Open
<1>4. Phase' = [Phase EXCEPT ![j] = outcome] /\ UNCHANGED <<Done, Revoked>>
  BY <1>2, <1>3 DEF Phase, Done, Revoked
<1>5. outcome = "completed" => Done[j]
  BY <1>1, <1>2, <1>3 DEF Phase, Open, Done, Claims
<1>6. CASE reaps[j] > 0
  <2>1. Revoked[j]
    BY <1>1, <1>6 DEF Revoked
  <2>2. Contract!Reconsider(j, outcome)
    BY <1>4, <1>5, <2>1 DEF Contract!Reconsider, Phase, Done, Revoked
  <2>3. QED
    BY <2>2 DEF Contract!ContractNext
<1>7. CASE reaps[j] = 0
  <2>1. row[j].status = "running" /\ Phase[j] = "open"
    BY <1>1, <1>7 DEF Agreement, Phase, Open
  <2>2. Done[j] <=> worker[w].state = "succeeded"
    BY <1>1, <1>7 DEF Agreement, Claims, Done
  <2>3. CASE outcome = "open"
    <3>1. UNCHANGED <<Phase, Done, Revoked>>
      BY <1>4, <2>1, <2>3 DEF Phase
    <3>2. QED
      BY <3>1 DEF Contract!contractVars, Phase, Done, Revoked
  <2>4. CASE outcome # "open"
    <3>1. outcome = IF Done[j] THEN "completed" ELSE "dead"
      BY <1>2, <1>3, <2>2, <2>4 DEF Phase, Open
    <3>2. Contract!Settle(j)
      BY <1>4, <2>1, <3>1 DEF Contract!Settle, Phase, Done, Revoked
    <3>3. QED
      BY <3>2 DEF Contract!ContractNext
  <2>5. QED
    BY <2>3, <2>4
<1>8. QED
  BY <1>1, <1>6, <1>7 DEF TypeOK

\* Every step of the queue is a step of its contract, or nothing to it.
LEMMA ContractStep ==
    Bookkeeping /\ [Next]_vars => [Contract!ContractNext]_(Contract!contractVars)
<1> SUFFICES ASSUME Bookkeeping, [Next]_vars
             PROVE  [Contract!ContractNext]_(Contract!contractVars)
  OBVIOUS
<1>1. ASSUME NEW j \in Jobs, Enqueue(j)
      PROVE  Contract!Accept(j)
  <2>1. row[j].status = "absent" /\ row'[j].status = "pending"
    BY <1>1 DEF Enqueue, Exists, Bookkeeping, TypeOK, Row
  <2>2. /\ \A k \in Jobs \ {j} : row'[k] = row[k]
        /\ UNCHANGED <<performed, reaps>>
    BY <1>1 DEF Enqueue, Bookkeeping, TypeOK
  <2>3. Phase[j] = "absent" /\ Phase' = [Phase EXCEPT ![j] = "open"]
    BY <2>1, <2>2 DEF Phase, Open
  <2>4. UNCHANGED <<Done, Revoked>>
    BY <2>2 DEF Done, Revoked
  <2>5. QED
    BY <2>3, <2>4 DEF Contract!Accept, Phase, Done, Revoked
<1>2. ASSUME NEW w \in Workers, NEW j \in Jobs, Claim(w, j)
      PROVE  UNCHANGED Contract!contractVars
  <2>1. row[j].status = "pending" /\ row'[j].status = "running"
    BY <1>2 DEF Claim, Oldest, Due, Bookkeeping, TypeOK, Row
  <2>2. /\ \A k \in Jobs \ {j} : row'[k] = row[k]
        /\ UNCHANGED <<performed, reaps>>
    BY <1>2 DEF Claim, Bookkeeping, TypeOK
  <2>3. UNCHANGED <<Phase, Done, Revoked>>
    BY <2>1, <2>2 DEF Phase, Done, Revoked, Open
  <2>4. QED
    BY <2>3 DEF Contract!contractVars, Phase, Done, Revoked
<1>3. ASSUME NEW w \in Workers, Succeed(w)
      PROVE  \E j \in Jobs : Contract!Perform(j)
  <2>0. PICK j \in Jobs : worker[w].job = j
    BY <1>3, BusyHolds DEF Succeed, Busy, Bookkeeping
  <2>1. Busy(w) /\ Holds(w, j) /\ worker[w].state = "running"
    BY <1>3, <2>0 DEF Succeed, Busy, Holds
  <2>2. /\ performed' = [performed EXCEPT ![j] = @ + 1]
        /\ UNCHANGED <<row, reaps>>
    BY <1>3, <2>0 DEF Succeed
  <2>3. Done' = [Done EXCEPT ![j] = TRUE]
    <3>1. /\ (performed'[j] > 0) = TRUE
          /\ \A k \in Jobs \ {j} : (performed'[k] > 0) = (performed[k] > 0)
      BY <2>1, <2>2 DEF Bookkeeping, TypeOK
    <3>2. QED
      BY <3>1, Zenon DEF Done
  <2>4. Phase[j] = "open" \/ Revoked[j]
    <3>1. reaps[j] = 0 \/ reaps[j] > 0
      BY <2>1 DEF Bookkeeping, TypeOK
    <3>2. reaps[j] = 0 => row[j].status = "running"
      BY <2>1 DEF Bookkeeping, Agreement
    <3>3. reaps[j] = 0 => Phase[j] = "open"
      BY <2>1, <3>2 DEF Phase, Open
    <3>4. reaps[j] > 0 => Revoked[j]
      BY <2>1 DEF Revoked
    <3>5. QED
      BY <3>1, <3>3, <3>4
  <2>5. UNCHANGED <<Phase, Revoked>>
    BY <2>2 DEF Phase, Revoked
  <2>6. Contract!Perform(j)
    BY <2>3, <2>4, <2>5 DEF Contract!Perform, Phase, Done, Revoked
  <2>7. QED
    BY <2>6
<1>4. ASSUME Reap
      PROVE  \E js \in SUBSET Jobs : Contract!Revoke(js)
  <2>0. PICK js \in SUBSET Jobs : js = {j \in Jobs : Stale(j)}
    OBVIOUS
  <2>1. \A j \in Jobs :
           /\ row'[j].status = IF j \in js THEN "pending" ELSE row[j].status
           /\ reaps'[j] = IF j \in js THEN reaps[j] + 1 ELSE reaps[j]
           /\ j \in js => row[j].status = "running"
    BY <1>4, <2>0 DEF Reap, Stale, Bookkeeping, TypeOK, Row
  <2>2. \A j \in js : Phase[j] = "open"
    BY <2>1 DEF Phase, Open
  <2>3. Revoked' = [j \in Jobs |-> Revoked[j] \/ j \in js]
    <3>1. \A j \in Jobs : (reaps'[j] > 0) = (reaps[j] > 0 \/ j \in js)
      BY <2>1 DEF Bookkeeping, TypeOK
    <3>2. \A j \in Jobs : Revoked[j] = (reaps[j] > 0)
      BY Zenon DEF Revoked
    <3>3. \A j \in Jobs : (reaps'[j] > 0) = (Revoked[j] \/ j \in js)
      BY <3>1, <3>2
    <3>4. QED
      BY <3>3, Zenon DEF Revoked
  <2>4. UNCHANGED <<Phase, Done>>
    BY <1>4, <2>1 DEF Reap, Phase, Done, Open
  <2>5. Contract!Revoke(js)
    BY <2>2, <2>3, <2>4 DEF Contract!Revoke, Phase, Done, Revoked
  <2>6. QED
    BY <2>5
<1>5. ASSUME NEW w \in Workers, LookUp(w) \/ Fail(w) \/ Abandon(w) \/ FallBehind(w)
      PROVE  UNCHANGED Contract!contractVars
  BY <1>5, Unseen DEF LookUp, Fail, Abandon, FallBehind
<1>6. CASE Tick
  <2>1. \A j \in Jobs : row'[j].status = row[j].status
    BY <1>6 DEF Tick, Bookkeeping, TypeOK, Row
  <2>2. QED
    BY <1>6, <2>1, Unseen DEF Tick
<1>7. CASE UNCHANGED vars
  BY <1>7, Unseen DEF vars
<1>8. QED
  BY <1>1, <1>2, <1>3, <1>4, <1>5, <1>6, <1>7, ReportSettles
     DEF Next, WorkerStep, Contract!ContractNext

\* The queue keeps its contract, for any number of jobs, instances and faults:
\* no accepted job is lost, none is completed unperformed or dead although
\* performed, and only a revoked job changes its outcome (queue.go as a whole).
THEOREM ContractIsKept == Spec => KeepsContract
<1>1. QED
  BY ContractStarts, ContractStep, BookkeepingInvariant, PTL
     DEF Spec, KeepsContract, Contract!ContractSpec

=============================================================================
