--------------------------- MODULE QuestLifecycle ---------------------------
(***************************************************************************)
(* The quests of one climber on one instance: the quest service            *)
(* (internal/service/quest.go), its listeners (quest_listeners.go), the    *)
(* in-memory event bus (internal/event/memory.go) and the orderly shutdown *)
(* of cmd/api/main.go.                                                     *)
(*                                                                         *)
(* Every database statement of a request commits on its own.  Publish runs *)
(* the synchronous listener in the request and hands the others to the     *)
(* bus, whose goroutines (the pool, and an overflow goroutine when the     *)
(* channel is full) are the workers below; each task writes an activity or *)
(* enqueues a notification.  The listener of RouteSent is left out: nothing*)
(* that is routed publishes that event.                                    *)
(***************************************************************************)
EXTENDS Integers, FiniteSets

CONSTANTS
    Requests,      \* requests of the climber in flight
    Workers,       \* goroutines of the bus
    Quests,
    Enrollments,   \* identities of climber_quests rows
    QuestOf,       \* the quest of each enrollment
    TargetOf,      \* target_count of each quest, or NoTarget
    BadgeOf,       \* badge of each quest, or NoBadge
    RequestTypes,  \* the log types clients send
    NoTarget,
    NoBadge,
    None,          \* no enrollment, no quest
    MaxLogs,       \* bound on the log entries of an enrollment
    MaxFaults      \* bound on failed statements, kills and timeouts

ASSUME QuestLifecycleAssumption ==
    /\ QuestOf \in [Enrollments -> Quests]
    /\ TargetOf \in [Quests -> Int \cup {NoTarget}]
    /\ {MaxLogs, MaxFaults} \subseteq Nat
    /\ NoTarget \notin Int
    /\ None \notin Enrollments \cup Quests
    /\ Requests \cap Workers = {}

VARIABLES
    row,        \* climber_quests: status and progress_count
    logs,       \* how many quest_logs an enrollment has
    badges,     \* climber_badges
    agent,      \* requests, and goroutines of the bus
    queued,     \* tasks in the channel of the bus
    wg,         \* the wait group of the bus
    server,     \* "up", "draining" requests, "flushing" the bus, "down"
    faults,
    announced,  \* history: QuestCompleted events of an enrollment
    refused,    \* history: log types the database has refused
    lost        \* history: tasks and requests an orderly exit cut off

vars == <<row, logs, badges, agent, queued, wg, server, faults,
          announced, refused, lost>>

Agents == Requests \cup Workers

\* The CHECK constraint of quest_logs.log_type.
LogTypes == {"route_climbed", "session_logged", "reflection",
             "self_assessment", "event_attended", "custom"}

Idle == [pc |-> "idle", on |-> None, type |-> "none"]

At(a, p)     == agent[a].pc = p
Exists(e)    == row[e].status # "absent"
Active(e)    == row[e].status = "active"
Enrolled(q)  == \E e \in Enrollments : QuestOf[e] = q /\ Active(e)
HasTarget(q) == TargetOf[q] # NoTarget

\* Mutant of Reached: off by one.
Exceeded(e, n) == HasTarget(QuestOf[e]) /\ n > TargetOf[QuestOf[e]]

Reached(e, n) == HasTarget(QuestOf[e]) /\ n >= TargetOf[QuestOf[e]]

-----------------------------------------------------------------------------

Init ==
    /\ row = [e \in Enrollments |-> [status |-> "absent", count |-> 0]]
    /\ logs = [e \in Enrollments |-> 0]
    /\ badges = {}
    /\ agent = [a \in Agents |-> Idle]
    /\ queued = 0
    /\ wg = 0
    /\ server = "up"
    /\ faults = 0
    /\ announced = [e \in Enrollments |-> 0]
    /\ refused = {}
    /\ lost = 0

-----------------------------------------------------------------------------
(* The bus. *)

\* Publish, for its asynchronous subscribers.
Publish(records) ==
    /\ queued' = queued + records
    /\ wg' = wg + records

\* A goroutine begins a task.
TakeRecord(w) ==
    /\ At(w, "idle") /\ server # "down"
    /\ queued > 0
    /\ queued' = queued - 1
    /\ agent' = [agent EXCEPT ![w].pc = "record"]
    /\ UNCHANGED <<row, logs, badges, wg, server, faults, announced,
                   refused, lost>>

\* Mutant of FinishTask: a second wg.Done.
FinishTaskTwice(w) ==
    /\ At(w, "record")
    /\ wg' = wg - 2
    /\ agent' = [agent EXCEPT ![w] = Idle]
    /\ UNCHANGED <<row, logs, badges, queued, server, faults,
                   announced, refused, lost>>

\* The task is over: wg.Done.
FinishTask(w) ==
    /\ At(w, "record")
    /\ wg' = wg - 1
    /\ agent' = [agent EXCEPT ![w] = Idle]
    /\ UNCHANGED <<row, logs, badges, queued, server, faults,
                   announced, refused, lost>>

-----------------------------------------------------------------------------
(* Requests. *)

\* A request for enrollment or quest x begins.
Begin(a, p, x, type) ==
    /\ a \in Requests
    /\ At(a, "idle") /\ server = "up"
    /\ agent' = [agent EXCEPT ![a] = [pc |-> p, on |-> x, type |-> type]]
    /\ UNCHANGED <<row, logs, badges, queued, wg, server, faults,
                   announced, refused, lost>>

\* Bound: there is an identity left for every enrollment that is under way.
Spare(q) == Cardinality({a \in Requests : At(a, "enroll") /\ agent[a].on = q})
            < Cardinality({e \in Enrollments : QuestOf[e] = q
                                               /\ row[e].status = "absent"})

\* StartQuest looks at the quest, which staff may have closed (then nothing
\* happens), and at the climber's active enrollments...
CheckStart(a, q) ==
    /\ ~Enrolled(q)
    /\ Spare(q)
    /\ Begin(a, "enroll", q, "none")

\* Mutant of OneActive: no unique index.
AnyActive(q) == TRUE

\* idx_climber_quests_one_active admits an active enrollment.
OneActive(q) == ~Enrolled(q)

\* ... and inserts; QuestStarted goes to the activity log.
Enroll(a, e) ==
    /\ At(a, "enroll") /\ QuestOf[e] = agent[a].on
    /\ row[e].status = "absent"
    /\ OneActive(QuestOf[e])
    /\ row' = [row EXCEPT ![e].status = "active"]
    /\ Publish(1)
    /\ agent' = [agent EXCEPT ![a] = Idle]
    /\ UNCHANGED <<logs, badges, server, faults, announced,
                   refused, lost>>

\* Mutant of ReadForComplete: the badge is awarded before the row is updated.
ReadForAward(a, e) == Exists(e) /\ Begin(a, "award", e, "none")

\* LogProgress looks at the enrollment first, and at its status; CompleteQuest
\* and AbandonQuest only at its owner.
ReadForLog(a, e, type) ==
    Active(e) /\ logs[e] < MaxLogs /\ Begin(a, "log", e, type)
ReadForComplete(a, e) == Exists(e) /\ Begin(a, "complete", e, "none")
ReadForAbandon(a, e)  == Exists(e) /\ Begin(a, "abandon", e, "none")

\* Mutant of WriteLog: an insert that failed is ignored.
WriteLogIgnored(a) ==
    /\ At(a, "log")
    /\ agent[a].type \in LogTypes
    /\ \E n \in {0, 1} : logs' = [logs EXCEPT ![agent[a].on] = @ + n]
    /\ agent' = [agent EXCEPT ![a].pc = "count"]
    /\ UNCHANGED <<row, badges, queued, wg, server, faults,
                   announced, refused, lost>>

\* The log entry is written, if its type passes the CHECK constraint.
WriteLog(a) ==
    /\ At(a, "log")
    /\ agent[a].type \in LogTypes
    /\ logs' = [logs EXCEPT ![agent[a].on] = @ + 1]
    /\ agent' = [agent EXCEPT ![a].pc = "count"]
    /\ UNCHANGED <<row, badges, queued, wg, server, faults,
                   announced, refused, lost>>

\* The constraint refuses it: an error for the request.
LogRefused(a) ==
    /\ At(a, "log")
    /\ agent[a].type \notin LogTypes
    /\ agent' = [agent EXCEPT ![a] = Idle]
    /\ refused' = refused \cup {agent[a].type}
    /\ UNCHANGED <<row, logs, badges, queued, wg, server, faults, announced,
                   lost>>

\* Mutant of Increment: UPDATE ... WHERE id, whatever the status.
IncrementAny(a) ==
    LET e == agent[a].on
        n == row[e].count + 1
    IN  /\ At(a, "count")
        /\ row' = [row EXCEPT ![e].count = n]
        /\ agent' = [agent EXCEPT ![a] =
                       IF Reached(e, n) THEN [@ EXCEPT !.pc = "complete"]
                       ELSE Idle]
        /\ Publish(1)
        /\ UNCHANGED <<logs, badges, server, faults, announced, refused,
                       lost>>

\* IncrementProgress, while the enrollment is active; ProgressLogged is
\* published, and a count that reaches the target completes the quest.
Increment(a) ==
    LET e == agent[a].on
        n == row[e].count + 1
    IN  /\ At(a, "count")
        /\ Active(e)
        /\ row' = [row EXCEPT ![e].count = n]
        /\ agent' = [agent EXCEPT ![a] =
                       IF Reached(e, n) THEN [@ EXCEPT !.pc = "complete"]
                       ELSE Idle]
        /\ Publish(1)
        /\ UNCHANGED <<logs, badges, server, faults, announced, refused,
                       lost>>

\* Mutant of Awarded: the payload names no badge.
AwardedNever(q) == FALSE

\* The quest of a completion comes with its badge (QuestRepo.GetByID).
Awarded(q) == BadgeOf[q] # NoBadge

\* Mutant of Complete: UPDATE ... WHERE id, whatever the status.
CompleteAny(a) ==
    LET e == agent[a].on
    IN  /\ At(a, "complete")
        /\ row' = [row EXCEPT ![e].status = "completed"]
        /\ announced' = [announced EXCEPT ![e] = @ + 1]
        /\ IF Awarded(QuestOf[e])
           THEN /\ agent' = [agent EXCEPT ![a].pc = "award"]
                /\ UNCHANGED <<queued, wg>>
           ELSE /\ agent' = [agent EXCEPT ![a] = Idle]
                /\ Publish(2)
        /\ UNCHANGED <<logs, badges, server, faults, refused,
                       lost>>

\* CompleteQuest, while the enrollment is active.  QuestCompleted is
\* published: the synchronous listener awards the badge the payload names;
\* then activity and notification are queued.
Complete(a) ==
    LET e == agent[a].on
    IN  /\ At(a, "complete")
        /\ Active(e)
        /\ row' = [row EXCEPT ![e].status = "completed"]
        /\ announced' = [announced EXCEPT ![e] = @ + 1]
        /\ IF Awarded(QuestOf[e])
           THEN /\ agent' = [agent EXCEPT ![a].pc = "award"]
                /\ UNCHANGED <<queued, wg>>
           ELSE /\ agent' = [agent EXCEPT ![a] = Idle]
                /\ Publish(2)
        /\ UNCHANGED <<logs, badges, server, faults, refused,
                       lost>>

\* awardBadge: INSERT ... ON CONFLICT DO NOTHING, then BadgeEarned with its
\* own activity and notification.
Award(a) ==
    /\ At(a, "award")
    /\ badges' = badges \cup {BadgeOf[QuestOf[agent[a].on]]}
    /\ Publish(4)
    /\ agent' = [agent EXCEPT ![a] = Idle]
    /\ UNCHANGED <<row, logs, server, faults, announced, refused,
                   lost>>

\* AbandonQuest, while the enrollment is active.  Nobody listens.
Abandon(a) ==
    /\ At(a, "abandon")
    /\ Active(agent[a].on)
    /\ row' = [row EXCEPT ![agent[a].on].status = "abandoned"]
    /\ agent' = [agent EXCEPT ![a] = Idle]
    /\ UNCHANGED <<logs, badges, queued, wg, server, faults,
                   announced, refused, lost>>

\* The row is not what the statement needs: no longer active, or active
\* already.  The request fails; a log entry written before stays.
Refused(a) ==
    /\ \/ /\ agent[a].pc \in {"count", "complete", "abandon"}
          /\ ~Active(agent[a].on)
       \/ At(a, "enroll") /\ ~OneActive(agent[a].on)
    /\ agent' = [agent EXCEPT ![a] = Idle]
    /\ UNCHANGED <<row, logs, badges, queued, wg, server, faults,
                   announced, refused, lost>>

-----------------------------------------------------------------------------
(* Faults and shutdown. *)

Fault == faults < MaxFaults /\ faults' = faults + 1

\* A statement fails.  A failed award is only logged by the bus, and the rest
\* of QuestCompleted is published all the same.
StatementFails(a) ==
    /\ Fault
    /\ agent[a].pc \in {"enroll", "log", "count", "complete", "abandon",
                        "award"}
    /\ agent' = [agent EXCEPT ![a] = Idle]
    /\ IF At(a, "award") THEN Publish(2) ELSE UNCHANGED <<queued, wg>>
    /\ UNCHANGED <<row, logs, badges, server, announced, refused,
                   lost>>

\* SIGTERM: srv.Shutdown takes no more requests and waits for those at work.
Stop ==
    /\ server = "up"
    /\ server' = "draining"
    /\ UNCHANGED <<row, logs, badges, agent, queued, wg, faults,
                   announced, refused, lost>>

\* Mutant of Drained: the bus is flushed while requests are at work.
DrainedTooSoon ==
    /\ server = "draining"
    /\ server' = "flushing"
    /\ UNCHANGED <<row, logs, badges, agent, queued, wg, faults,
                   announced, refused, lost>>

\* srv.Shutdown has returned; the bus is flushed.
Drained ==
    /\ server = "draining"
    /\ \A a \in Requests : At(a, "idle")
    /\ server' = "flushing"
    /\ UNCHANGED <<row, logs, badges, agent, queued, wg, faults,
                   announced, refused, lost>>

Reset == /\ agent' = [a \in Agents |-> Idle]
         /\ queued' = 0
         /\ wg' = 0
         /\ server' = "down"

Working == {a \in Agents : ~At(a, "idle")}

\* bus.Shutdown returns nil: the wait group is at zero, and main exits.
Flushed ==
    /\ server = "flushing"
    /\ wg = 0
    /\ Reset
    /\ lost' = lost + Cardinality(Working) + queued
    /\ UNCHANGED <<row, logs, badges, faults, announced, refused>>

\* The 15 s that both shutdowns share are over, or the instance is killed.
Killed ==
    /\ Fault
    /\ server # "down"
    /\ Reset
    /\ UNCHANGED <<row, logs, badges, announced, refused, lost>>

Restart ==
    /\ server = "down"
    /\ server' = "up"
    /\ UNCHANGED <<row, logs, badges, agent, queued, wg, faults,
                   announced, refused, lost>>

-----------------------------------------------------------------------------

AgentStep(a) ==
    \/ \E e \in Enrollments : Enroll(a, e)
    \/ WriteLog(a)
    \/ LogRefused(a)
    \/ Increment(a)
    \/ Complete(a)
    \/ Award(a)
    \/ Abandon(a)
    \/ Refused(a)
    \/ StatementFails(a)

Next ==
    \/ \E a \in Requests :
          \/ \E q \in Quests : CheckStart(a, q)
          \/ \E e \in Enrollments :
                \/ \E type \in RequestTypes : ReadForLog(a, e, type)
                \/ ReadForComplete(a, e)
                \/ ReadForAbandon(a, e)
    \/ \E w \in Workers :
          TakeRecord(w) \/ FinishTask(w)
    \/ \E a \in Requests : AgentStep(a)
    \/ Stop
    \/ Drained
    \/ Flushed
    \/ Killed
    \/ Restart

Spec == Init /\ [][Next]_vars

-----------------------------------------------------------------------------

TypeOK ==
    /\ row \in [Enrollments -> [status : {"absent", "active", "completed",
                                          "abandoned"}, count : Nat]]
    /\ logs \in [Enrollments -> Nat]
    /\ \A b \in badges : \E q \in Quests : b = BadgeOf[q]
    /\ \A a \in Agents :
          /\ agent[a].pc \in {"idle", "record", "enroll", "log",
                              "count", "complete", "award", "abandon"}
          /\ agent[a].pc \in {"log", "count", "complete", "award", "abandon"}
             => agent[a].on \in Enrollments
    /\ queued \in Nat
    /\ wg \in Nat
    /\ server \in {"up", "draining", "flushing", "down"}
    /\ faults \in 0 .. MaxFaults
    /\ announced \in [Enrollments -> Nat]
    /\ refused \subseteq RequestTypes
    /\ lost \in Nat

\* A climber has one active enrollment in a quest at most, although StartQuest
\* checks and inserts in two statements.
OneActiveEnrollment ==
    \A e, f \in Enrollments :
        Active(e) /\ Active(f) /\ QuestOf[e] = QuestOf[f] => e = f

\* The counter never runs ahead of the log it counts, though the two are
\* written by separate statements of concurrent requests (LogProgress).
CountIsLogged == \A e \in Enrollments : row[e].count <= logs[e]

\* An enrollment is announced as completed exactly once, however many requests
\* reach the target together or complete it by hand meanwhile (completeQuest).
CompletedOnce ==
    \A e \in Enrollments :
        announced[e] = IF row[e].status = "completed" THEN 1 ELSE 0

\* A badge is only ever awarded for a quest that was completed.
BadgeIsEarned ==
    \A b \in badges : \E e \in Enrollments :
        BadgeOf[QuestOf[e]] = b /\ row[e].status = "completed"

\* Once the request that completed a quest has answered, its badge is there
\* ("must complete before response", quest_listeners.go:63), if no statement
\* failed and no instance was killed.
BadgeBeforeAnswer ==
    \A e \in Enrollments :
        /\ row[e].status = "completed"
        /\ BadgeOf[QuestOf[e]] # NoBadge
        => \/ BadgeOf[QuestOf[e]] \in badges
           \/ \E a \in Agents : At(a, "award") /\ agent[a].on = e
           \/ faults > 0

\* An enrollment whose count has reached the target does not stay active: a
\* request is about to complete it, unless a statement failed or an instance
\* was killed (LogProgress).  It takes an entry: a quest may be created with a
\* target of zero or less, which nobody looks at before something is logged.
TargetCompletes ==
    \A e \in Enrollments :
        /\ Active(e)
        /\ HasTarget(QuestOf[e])
        /\ row[e].count > 0
        /\ row[e].count >= TargetOf[QuestOf[e]]
        => \/ \E a \in Agents : At(a, "complete") /\ agent[a].on = e
           \/ faults > 0

\* An orderly shutdown cuts off no request and no task of the bus (main.go:
\* "dropping queued async events on every deploy").
OrderlyExitLosesNothing == lost = 0

\* A completed or abandoned enrollment does not change any more, whatever
\* requests had read it while it was active.
ClosedIsFinal ==
    \A e \in Enrollments :
        row[e].status \in {"completed", "abandoned"} => row'[e] = row[e]

\* Log, count and target keep step: nothing is counted that is not logged, and
\* what has reached the target is being completed (LogProgress).
ProgressHolds == TypeOK /\ CountIsLogged /\ TargetCompletes

\* An enrollment is completed once, and closed for good (completeQuest and the
\* WHERE clauses of repository/quest.go).
CompletionsHold == [][CompletedOnce' /\ ClosedIsFinal]_vars

\* A badge is earned, and there when the request that earned it has answered
\* (quest_listeners.go).
BadgesHold == BadgeIsEarned /\ BadgeBeforeAnswer

-----------------------------------------------------------------------------
(* A statement about the program that the code does not keep. *)

\* LogProgress "records a progress entry against an enrollment the caller owns"
\* (handler/quest.go), and the quest page offers "general" as its default type:
\* no entry is refused for its type.
EntriesAreRecorded == refused = {}

=============================================================================
