------------------------ MODULE QuestLifecycleProofs ------------------------
(***************************************************************************)
(* What holds of every climber's quests, whatever the numbers of requests, *)
(* goroutines, quests and enrollments: module QuestLifecycle.              *)
(*                                                                         *)
(* The properties are not inductive as they stand.  A count is written     *)
(* after its log entry by another statement, so the requests between the   *)
(* two are counted; the wait group is tied to the channel and to the       *)
(* goroutines at work; and a request that is about to award a badge is     *)
(* about a completed enrollment.                                           *)
(***************************************************************************)
EXTENDS QuestLifecycle, FiniteSetTheorems, TLAPS

Pcs == {"idle", "record", "enroll", "log", "count", "complete", "award",
        "abandon"}

\* An agent is where a request, or a goroutine of the bus, can be.
RequestIsWellFormed(a) ==
    /\ agent[a].pc # "record"
    /\ agent[a].pc \in {"log", "count", "complete", "award", "abandon"}
       => agent[a].on \in Enrollments
    /\ agent[a].pc = "log" => agent[a].type \in RequestTypes

AgentsAreWellFormed ==
    /\ agent \in [Agents -> [pc : Pcs, on : Enrollments \cup Quests \cup {None},
                             type : RequestTypes \cup {"none"}]]
    /\ \A a \in Requests : RequestIsWellFormed(a)
    /\ \A w \in Workers : agent[w].pc \in {"idle", "record"}

\* The requests whose entry for e is logged and not counted yet.
Counting(e) == {a \in Requests : At(a, "count") /\ agent[a].on = e}

\* The entries of an enrollment pay for its count and for what is still to be
\* counted.
EntriesPay ==
    \A e \in Enrollments :
        /\ IsFiniteSet(Counting(e))
        /\ row[e].count + Cardinality(Counting(e)) <= logs[e]

\* The goroutines of the bus that are at a task.
Recording == {w \in Workers : At(w, "record")}

\* The wait group counts the tasks in the channel and those under way.
WaitGroupCounts ==
    /\ IsFiniteSet(Recording)
    /\ wg = queued + Cardinality(Recording)

\* Once srv.Shutdown has returned no request is at work.
RequestsAreDone ==
    server \in {"flushing", "down"} => \A a \in Requests : At(a, "idle")

\* An enrollment that has not begun counts nothing.
AbsentIsEmpty ==
    \A e \in Enrollments : row[e].status = "absent" => row[e].count = 0

\* A badge is being awarded for a completed enrollment.
AwardIsForCompleted ==
    \A a \in Requests : At(a, "award") => row[agent[a].on].status = "completed"

QuestInv ==
    /\ TypeOK
    /\ AgentsAreWellFormed
    /\ OneActiveEnrollment
    /\ EntriesPay
    /\ AbsentIsEmpty
    /\ TargetCompletes
    /\ CompletedOnce
    /\ AwardIsForCompleted
    /\ BadgeIsEarned
    /\ BadgeBeforeAnswer
    /\ WaitGroupCounts
    /\ RequestsAreDone
    /\ OrderlyExitLosesNothing

-----------------------------------------------------------------------------
(* What the steps have in common. *)

\* A request begins: it takes any step but one, as an idle request.
Begins(a) ==
    /\ server = "up" /\ At(a, "idle")
    /\ \E p \in {"enroll", "log", "complete", "abandon"},
          x \in Enrollments \cup Quests, type \in RequestTypes \cup {"none"} :
          /\ p \in {"log", "complete", "abandon"} => x \in Enrollments
          /\ p = "log" => type \in RequestTypes
          /\ agent' = [agent EXCEPT ![a] = [pc |-> p, on |-> x, type |-> type]]
    /\ UNCHANGED <<row, logs, badges, queued, wg, server, faults,
                   announced, refused, lost>>

\* Every way a request begins is one of them (the reads of StartQuest,
\* LogProgress, CompleteQuest and AbandonQuest).
LEMMA EveryBeginning ==
    ASSUME NEW a \in Requests
    PROVE  /\ \A q \in Quests : CheckStart(a, q) => Begins(a)
           /\ \A e \in Enrollments, type \in RequestTypes :
                 ReadForLog(a, e, type) => Begins(a)
           /\ \A e \in Enrollments : ReadForComplete(a, e) => Begins(a)
           /\ \A e \in Enrollments : ReadForAbandon(a, e) => Begins(a)
<1>1. \A q \in Quests : CheckStart(a, q) => Begins(a)
  BY DEF CheckStart, Begin, Begins
<1>2. \A e \in Enrollments, type \in RequestTypes :
          ReadForLog(a, e, type) => Begins(a)
  BY DEF ReadForLog, Begin, Begins
<1>3. \A e \in Enrollments : ReadForComplete(a, e) => Begins(a)
  BY DEF ReadForComplete, Begin, Begins
<1>4. \A e \in Enrollments : ReadForAbandon(a, e) => Begins(a)
  BY DEF ReadForAbandon, Begin, Begins
<1>5. QED
  BY <1>1, <1>2, <1>3, <1>4

\* The steps by kind: a request begins or goes on, a goroutine of the bus
\* begins a task or ends one, the server or the whole instance changes.
LEMMA StepCases ==
    Next =>
        \/ \E a \in Requests : Begins(a)
        \/ \E w \in Workers : TakeRecord(w)
        \/ \E w \in Workers : FinishTask(w)
        \/ \E a \in Requests, e \in Enrollments : Enroll(a, e)
        \/ \E a \in Requests : WriteLog(a)
        \/ \E a \in Requests : LogRefused(a)
        \/ \E a \in Requests : Increment(a)
        \/ \E a \in Requests : Complete(a)
        \/ \E a \in Requests : Award(a)
        \/ \E a \in Requests : Abandon(a)
        \/ \E a \in Requests : Refused(a)
        \/ \E a \in Requests : StatementFails(a)
        \/ Stop
        \/ Drained
        \/ Flushed
        \/ Killed
        \/ Restart
<1>1. ASSUME NEW a \in Requests,
             \/ \E q \in Quests : CheckStart(a, q)
             \/ \E e \in Enrollments :
                   \/ \E type \in RequestTypes : ReadForLog(a, e, type)
                   \/ ReadForComplete(a, e)
                   \/ ReadForAbandon(a, e)
      PROVE  Begins(a)
  BY <1>1, EveryBeginning
<1>2. QED
  BY <1>1, Zenon DEF Next, AgentStep

\* Only these steps write the rows, and the history of their announcements.
LEMMA RowWrites ==
    ASSUME [Next]_vars
    PROVE  \/ UNCHANGED <<row, announced>>
           \/ \E a \in Requests, e \in Enrollments : Enroll(a, e)
           \/ \E a \in Requests : Increment(a) \/ Complete(a) \/ Abandon(a)
<1> USE DEF Begins, TakeRecord, FinishTask, WriteLog, LogRefused, Award, Refused,
            StatementFails, Stop, Drained, Flushed, Killed, Restart
<1>1. CASE UNCHANGED vars
  BY <1>1 DEF vars
<1>2. CASE Next
  BY <1>2, StepCases
<1>3. QED
  BY <1>1, <1>2

\* Only WriteLog adds an entry.
LEMMA LogWrites ==
    ASSUME [Next]_vars
    PROVE  UNCHANGED logs \/ \E a \in Requests : WriteLog(a)
<1> USE DEF Begins, TakeRecord, FinishTask, Enroll, LogRefused, Increment, Complete,
            Award, Abandon, Refused, StatementFails, Stop, Drained, Flushed, Killed,
            Restart
<1>1. CASE UNCHANGED vars
  BY <1>1 DEF vars
<1>2. CASE Next
  BY <1>2, StepCases
<1>3. QED
  BY <1>1, <1>2

\* Only Award gives a badge.
LEMMA BadgeWrites ==
    ASSUME [Next]_vars
    PROVE  UNCHANGED badges \/ \E a \in Requests : Award(a)
<1> USE DEF Begins, TakeRecord, FinishTask, Enroll, WriteLog, LogRefused, Increment,
            Complete, Abandon, Refused, StatementFails, Stop, Drained, Flushed,
            Killed, Restart
<1>1. CASE UNCHANGED vars
  BY <1>1 DEF vars
<1>2. CASE Next
  BY <1>2, StepCases
<1>3. QED
  BY <1>1, <1>2

\* Faults are only counted.
LEMMA FaultsStay ==
    ASSUME TypeOK, [Next]_vars
    PROVE  faults' \in 0 .. MaxFaults /\ (faults > 0 => faults' > 0)
<1> USE QuestLifecycleAssumption
    DEF TypeOK, Fault, Begins, TakeRecord, FinishTask, Enroll, WriteLog, LogRefused,
        Increment, Complete, Award, Abandon, Refused, Stop, Drained, Flushed, Restart
<1>1. CASE UNCHANGED vars
  BY <1>1 DEF vars
<1>2. ASSUME NEW a \in Requests, StatementFails(a)
      PROVE  faults' \in 0 .. MaxFaults /\ (faults > 0 => faults' > 0)
  BY <1>2 DEF StatementFails
<1>3. CASE Killed
  BY <1>3 DEF Killed
<1>4. CASE Next /\ UNCHANGED faults
  BY <1>4
<1>5. Next => UNCHANGED faults \/ Killed \/ \E a \in Requests : StatementFails(a)
  BY StepCases
<1>6. QED
  BY <1>1, <1>2, <1>3, <1>4, <1>5

-----------------------------------------------------------------------------
(* Types. *)

LEMMA AgentsStep ==
    ASSUME QuestInv, [Next]_vars
    PROVE  AgentsAreWellFormed'
<1> USE QuestLifecycleAssumption
    DEF QuestInv, AgentsAreWellFormed, RequestIsWellFormed, Agents, Idle, At, Pcs
<1>1. CASE UNCHANGED vars
  BY <1>1 DEF vars
<1>2. ASSUME NEW a \in Requests, Begins(a)
      PROVE  AgentsAreWellFormed'
  <2>1. PICK p \in {"enroll", "log", "complete", "abandon"},
             x \in Enrollments \cup Quests, type \in RequestTypes \cup {"none"} :
             /\ p \in {"log", "complete", "abandon"} => x \in Enrollments
             /\ p = "log" => type \in RequestTypes
             /\ agent' = [agent EXCEPT ![a] = [pc |-> p, on |-> x, type |-> type]]
    BY <1>2 DEF Begins
  <2>2. QED
    BY <2>1
<1>3. ASSUME NEW w \in Workers, TakeRecord(w)
      PROVE  AgentsAreWellFormed'
  BY <1>3 DEF TakeRecord
<1>4. ASSUME NEW w \in Workers, FinishTask(w)
      PROVE  AgentsAreWellFormed'
  BY <1>4 DEF FinishTask
<1>5. ASSUME NEW a \in Requests, NEW e \in Enrollments, Enroll(a, e)
      PROVE  AgentsAreWellFormed'
  BY <1>5 DEF Enroll
<1>6. ASSUME NEW a \in Requests, WriteLog(a)
      PROVE  AgentsAreWellFormed'
  BY <1>6 DEF WriteLog
<1>7. ASSUME NEW a \in Requests,
             LogRefused(a) \/ Award(a) \/ Abandon(a) \/ Refused(a) \/ StatementFails(a)
      PROVE  AgentsAreWellFormed'
  <2>1. agent' = [agent EXCEPT ![a] = Idle]
    BY <1>7 DEF LogRefused, Award, Abandon, Refused, StatementFails
  <2>2. QED
    BY <2>1
<1>8. ASSUME NEW a \in Requests, Increment(a)
      PROVE  AgentsAreWellFormed'
  <2>1. \/ agent' = [agent EXCEPT ![a] = [@ EXCEPT !.pc = "complete"]]
        \/ agent' = [agent EXCEPT ![a] = Idle]
    BY <1>8 DEF Increment
  <2>2. agent[a].pc = "count"
    BY <1>8 DEF Increment
  <2>3. QED
    BY <2>1, <2>2
<1>9. ASSUME NEW a \in Requests, Complete(a)
      PROVE  AgentsAreWellFormed'
  <2>1. \/ agent' = [agent EXCEPT ![a].pc = "award"]
        \/ agent' = [agent EXCEPT ![a] = Idle]
    BY <1>9 DEF Complete
  <2>2. agent[a].pc = "complete"
    BY <1>9 DEF Complete
  <2>3. QED
    BY <2>1, <2>2
<1>10. CASE Stop \/ Drained \/ Restart
  BY <1>10 DEF Stop, Drained, Restart
<1>11. CASE Flushed \/ Killed
  <2>1. agent' = [a \in Agents |-> Idle]
    BY <1>11 DEF Flushed, Killed, Reset
  <2>2. QED
    BY <2>1
<1>12. QED
  BY <1>1, <1>2, <1>3, <1>4, <1>5, <1>6, <1>7, <1>8, <1>9, <1>10, <1>11,
     StepCases, Zenon

-----------------------------------------------------------------------------
(* The bus and the shutdown. *)

\* A goroutine that begins a task, or ends one, changes the set by itself.
LEMMA OneRecorderMore ==
    ASSUME AgentsAreWellFormed, NEW w \in Workers, TakeRecord(w)
    PROVE  Recording' = Recording \cup {w} /\ w \notin Recording
  BY DEF TakeRecord, Recording, AgentsAreWellFormed, Agents, At

LEMMA OneRecorderLess ==
    ASSUME AgentsAreWellFormed, NEW w \in Workers, FinishTask(w)
    PROVE  Recording' = Recording \ {w} /\ w \in Recording
  BY DEF FinishTask, Recording, AgentsAreWellFormed, Agents, At, Idle

\* A request does not change it.
LEMMA RequestsRecordNothing ==
    ASSUME AgentsAreWellFormed, NEW a \in Requests, NEW x,
           agent' = [agent EXCEPT ![a] = x]
    PROVE  Recording' = Recording
  BY QuestLifecycleAssumption DEF Recording, AgentsAreWellFormed, Agents, At

LEMMA WaitGroupStep ==
    ASSUME QuestInv, [Next]_vars
    PROVE  WaitGroupCounts'
<1> USE DEF QuestInv, TypeOK, WaitGroupCounts
<1>1. Cardinality(Recording) \in Nat
  BY FS_CardinalityType
<1>2. CASE UNCHANGED <<agent, queued, wg>>
  BY <1>2 DEF Recording, At
<1>3. ASSUME NEW a \in Requests, Begins(a)
      PROVE  WaitGroupCounts'
  <2>1. /\ \E x : agent' = [agent EXCEPT ![a] = x]
        /\ UNCHANGED <<queued, wg>>
    BY <1>3 DEF Begins
  <2>2. QED
    BY <2>1, RequestsRecordNothing
<1>4. ASSUME NEW w \in Workers, TakeRecord(w)
      PROVE  WaitGroupCounts'
  <2>1. Recording' = Recording \cup {w} /\ w \notin Recording
    BY <1>4, OneRecorderMore
  <2>2. IsFiniteSet(Recording') /\ Cardinality(Recording') = Cardinality(Recording) + 1
    BY <2>1, FS_AddElement
  <2>3. queued' = queued - 1 /\ wg' = wg
    BY <1>4 DEF TakeRecord
  <2>4. QED
    BY <1>1, <2>2, <2>3
<1>5. ASSUME NEW w \in Workers, FinishTask(w)
      PROVE  WaitGroupCounts'
  <2>1. Recording' = Recording \ {w} /\ w \in Recording
    BY <1>5, OneRecorderLess
  <2>2. IsFiniteSet(Recording') /\ Cardinality(Recording') = Cardinality(Recording) - 1
    BY <2>1, FS_RemoveElement
  <2>3. queued' = queued /\ wg' = wg - 1
    BY <1>5 DEF FinishTask
  <2>4. QED
    BY <1>1, <2>2, <2>3
<1>6. ASSUME NEW a \in Requests,
             /\ \E x : agent' = [agent EXCEPT ![a] = x]
             /\ UNCHANGED <<queued, wg>> \/ \E n \in Nat : Publish(n)
      PROVE  WaitGroupCounts'
  <2>1. Recording' = Recording
    BY <1>6, RequestsRecordNothing
  <2>2. CASE UNCHANGED <<queued, wg>>
    BY <2>1, <2>2
  <2>3. ASSUME NEW n \in Nat, Publish(n)
        PROVE  WaitGroupCounts'
    BY <1>1, <2>1, <2>3 DEF Publish
  <2>4. QED
    BY <1>6, <2>2, <2>3
<1>7. ASSUME NEW a \in Requests, NEW e \in Enrollments, Enroll(a, e)
      PROVE  WaitGroupCounts'
  BY <1>6, <1>7 DEF Enroll
<1>8. ASSUME NEW a \in Requests,
             WriteLog(a) \/ LogRefused(a) \/ Abandon(a) \/ Refused(a)
      PROVE  WaitGroupCounts'
  <2>1. (\E x : agent' = [agent EXCEPT ![a] = x]) /\ UNCHANGED <<queued, wg>>
    BY <1>8 DEF WriteLog, LogRefused, Abandon, Refused
  <2>2. QED
    BY <1>6, <2>1
<1>9. ASSUME NEW a \in Requests, Increment(a) \/ Award(a)
      PROVE  WaitGroupCounts'
  <2>1. (\E x : agent' = [agent EXCEPT ![a] = x]) /\ (Publish(1) \/ Publish(4))
    BY <1>9 DEF Increment, Award
  <2>2. QED
    BY <1>6, <2>1
<1>10. ASSUME NEW a \in Requests, Complete(a) \/ StatementFails(a)
       PROVE  WaitGroupCounts'
  <2>1. /\ \E x : agent' = [agent EXCEPT ![a] = x]
        /\ UNCHANGED <<queued, wg>> \/ Publish(2)
    BY <1>10 DEF Complete, StatementFails
  <2>2. QED
    BY <1>6, <2>1
<1>11. CASE Stop \/ Drained \/ Restart
  BY <1>2, <1>11 DEF Stop, Drained, Restart
<1>12. CASE Flushed \/ Killed
  <2>1. agent' = [a \in Agents |-> Idle] /\ queued' = 0 /\ wg' = 0
    BY <1>12 DEF Flushed, Killed, Reset
  <2>2. Recording' = {}
    BY <2>1 DEF Recording, At, Idle, Agents
  <2>3. QED
    BY <2>1, <2>2, FS_EmptySet
<1>13. CASE UNCHANGED vars
  BY <1>2, <1>13 DEF vars
<1>14. QED
  BY <1>3, <1>4, <1>5, <1>7, <1>8, <1>9, <1>10, <1>11, <1>12, <1>13,
     StepCases, Zenon

\* The bus is flushed when no request is at work, and none begins until the
\* next instance is up.
LEMMA RequestsDoneStep ==
    ASSUME QuestInv, [Next]_vars
    PROVE  RequestsAreDone'
<1> USE DEF QuestInv, RequestsAreDone, AgentsAreWellFormed, Agents, At
<1>1. CASE UNCHANGED vars
  BY <1>1 DEF vars
<1>2. ASSUME NEW a \in Requests,
             \/ Begins(a) \/ WriteLog(a) \/ LogRefused(a) \/ Increment(a)
             \/ Complete(a) \/ Award(a) \/ Abandon(a) \/ Refused(a)
             \/ StatementFails(a) \/ \E e \in Enrollments : Enroll(a, e)
      PROVE  RequestsAreDone'
  <2>1. server' = server
    BY <1>2 DEF Begins, WriteLog, LogRefused, Increment, Complete, Award, Abandon,
                Refused, StatementFails, Enroll
  <2>2. agent[a].pc # "idle" \/ server = "up"
    BY <1>2 DEF Begins, WriteLog, LogRefused, Increment, Complete, Award, Abandon,
                Refused, StatementFails, Enroll
  <2>3. QED
    BY <2>1, <2>2
<1>3. ASSUME NEW w \in Workers, TakeRecord(w) \/ FinishTask(w)
      PROVE  RequestsAreDone'
  <2>1. server' = server /\ \E x : agent' = [agent EXCEPT ![w] = x]
    BY <1>3 DEF TakeRecord, FinishTask
  <2>2. QED
    BY <2>1, QuestLifecycleAssumption
<1>4. CASE Stop \/ Drained \/ Restart
  BY <1>4 DEF Stop, Drained, Restart
<1>5. CASE Flushed \/ Killed
  BY <1>5 DEF Flushed, Killed, Reset, Idle
<1>6. QED
  BY <1>1, <1>2, <1>3, <1>4, <1>5, StepCases, Zenon

\* So the wait group at zero leaves nothing to lose.
LEMMA NothingLostStep ==
    ASSUME QuestInv, [Next]_vars
    PROVE  OrderlyExitLosesNothing'
<1> USE DEF QuestInv, OrderlyExitLosesNothing
<1>1. CASE Flushed
  <2>1. Cardinality(Recording) \in Nat /\ queued \in Nat
    BY FS_CardinalityType DEF WaitGroupCounts, TypeOK
  <2>2. queued = 0 /\ Cardinality(Recording) = 0
    BY <1>1, <2>1 DEF Flushed, WaitGroupCounts
  <2>3. Recording = {}
    BY <2>2, FS_EmptySet DEF WaitGroupCounts
  <2>4. Working = {}
    BY <1>1, <2>3 DEF Flushed, RequestsAreDone, Working, Recording,
                      AgentsAreWellFormed, Agents, At
  <2>5. Cardinality(Working) = 0
    BY <2>4, FS_EmptySet
  <2>6. QED
    BY <1>1, <2>2, <2>5 DEF Flushed
<1>2. CASE UNCHANGED lost
  BY <1>2
<1>3. Next => Flushed \/ UNCHANGED lost
  BY StepCases DEF Begins, TakeRecord, FinishTask, Enroll, WriteLog, LogRefused,
        Increment, Complete, Award, Abandon, Refused, StatementFails,
        Stop, Drained, Killed, Restart
<1>4. CASE UNCHANGED vars
  BY <1>4 DEF vars
<1>5. QED
  BY <1>1, <1>2, <1>3, <1>4

\* The other variables; two of them are bounded by what the next lemmas show.
LEMMA TypesStep ==
    ASSUME QuestInv, [Next]_vars, AgentsAreWellFormed', WaitGroupCounts',
           OrderlyExitLosesNothing'
    PROVE  TypeOK'
<1> USE QuestLifecycleAssumption DEF QuestInv, TypeOK
<1>1. (/\ row \in [Enrollments -> [status : {"absent", "active", "completed",
                                            "abandoned"}, count : Nat]]
       /\ announced \in [Enrollments -> Nat])'
  <2> DEFINE RowTypes == /\ row' \in [Enrollments -> [status : {"absent", "active",
                                         "completed", "abandoned"}, count : Nat]]
                         /\ announced' \in [Enrollments -> Nat]
  <2>1. CASE UNCHANGED <<row, announced>>
    BY <2>1
  <2>2. ASSUME NEW a \in Requests, NEW e \in Enrollments, Enroll(a, e)
        PROVE  RowTypes
    BY <2>2 DEF Enroll
  <2>3. ASSUME NEW a \in Requests, Increment(a)
        PROVE  RowTypes
    <3>1. agent[a].on \in Enrollments
      BY <2>3 DEF Increment, At, Agents
    <3>2. /\ row' = [row EXCEPT ![agent[a].on].count = row[agent[a].on].count + 1]
          /\ announced' = announced
      BY <2>3 DEF Increment
    <3>3. row[agent[a].on].count + 1 \in Nat
      BY <3>1
    <3>4. QED
      BY <3>1, <3>2, <3>3
  <2>4. ASSUME NEW a \in Requests, Complete(a)
        PROVE  RowTypes
    <3>1. agent[a].on \in Enrollments
      BY <2>4 DEF Complete, At, Agents
    <3>2. /\ row' = [row EXCEPT ![agent[a].on].status = "completed"]
          /\ announced' = [announced EXCEPT ![agent[a].on] = @ + 1]
      BY <2>4 DEF Complete
    <3>3. QED
      BY <3>1, <3>2
  <2>5. ASSUME NEW a \in Requests, Abandon(a)
        PROVE  RowTypes
    <3>1. agent[a].on \in Enrollments
      BY <2>5 DEF Abandon, At, Agents
    <3>2. QED
      BY <2>5, <3>1 DEF Abandon
  <2>6. RowTypes
    BY RowWrites, <2>1, <2>2, <2>3, <2>4, <2>5
  <2>7. QED
    BY <2>6
<1>2. logs' \in [Enrollments -> Nat]
  <2>1. ASSUME NEW a \in Requests, WriteLog(a)
        PROVE  logs' \in [Enrollments -> Nat]
    BY <2>1 DEF WriteLog, At, Agents
  <2>2. QED
    BY LogWrites, <2>1
<1>3. (\A b \in badges : \E q \in Quests : b = BadgeOf[q])'
  <2>1. ASSUME NEW a \in Requests, Award(a)
        PROVE  /\ badges' = badges \cup {BadgeOf[QuestOf[agent[a].on]]}
               /\ QuestOf[agent[a].on] \in Quests
    BY <2>1 DEF Award, At, Agents
  <2>2. QED
    BY BadgeWrites, <2>1
<1>4. (\A a \in Agents :
          /\ agent[a].pc \in {"idle", "record", "enroll", "log",
                              "count", "complete", "award", "abandon"}
          /\ agent[a].pc \in {"log", "count", "complete", "award", "abandon"}
             => agent[a].on \in Enrollments)'
  BY AgentsAreWellFormed' DEF AgentsAreWellFormed, RequestIsWellFormed, Agents, Pcs
<1>5. /\ queued' \in Nat
      /\ server' \in {"up", "draining", "flushing", "down"}
  <2> DEFINE Bounds == /\ queued' \in Nat
                       /\ server' \in {"up", "draining", "flushing", "down"}
  <2>1. CASE UNCHANGED vars
    BY <2>1 DEF vars
  <2>2. ASSUME NEW a \in Requests,
               \/ Begins(a) \/ WriteLog(a) \/ LogRefused(a) \/ Increment(a)
               \/ Award(a) \/ Abandon(a) \/ Refused(a)
        PROVE  Bounds
    BY <2>2 DEF Begins, WriteLog, LogRefused, Increment, Award, Abandon, Refused, Publish
  <2>3. ASSUME NEW a \in Requests, Complete(a) \/ StatementFails(a)
        PROVE  Bounds
    BY <2>3 DEF Complete, StatementFails, Publish
  <2>4. ASSUME NEW a \in Requests, NEW e \in Enrollments, Enroll(a, e)
        PROVE  Bounds
    BY <2>4 DEF Enroll, Publish
  <2>5. ASSUME NEW w \in Workers, TakeRecord(w) \/ FinishTask(w)
        PROVE  Bounds
    BY <2>5 DEF TakeRecord, FinishTask
  <2>6. CASE Stop \/ Drained \/ Flushed \/ Killed \/ Restart
    BY <2>6 DEF Stop, Drained, Flushed, Killed, Restart, Reset
  <2>7. Bounds
    BY <2>1, <2>2, <2>3, <2>4, <2>5, <2>6, StepCases, Zenon
  <2>8. QED
    BY <2>7
<1>6. wg' \in Nat
  <2>1. Cardinality(Recording)' \in Nat
    BY WaitGroupCounts', FS_CardinalityType DEF WaitGroupCounts
  <2>2. QED
    BY <1>5, <2>1, WaitGroupCounts' DEF WaitGroupCounts
<1>7. faults' \in 0 .. MaxFaults
  BY FaultsStay
<1>8. refused' \subseteq RequestTypes
  <2>1. ASSUME NEW a \in Requests, LogRefused(a)
        PROVE  refused' = refused \cup {agent[a].type} /\ agent[a].type \in RequestTypes
    BY <2>1 DEF LogRefused, At, AgentsAreWellFormed, RequestIsWellFormed
  <2>2. UNCHANGED refused \/ \E a \in Requests : LogRefused(a)
    <3> USE DEF Begins, TakeRecord, FinishTask, Enroll, WriteLog, Increment, Complete,
                Award, Abandon, Refused, StatementFails, Stop, Drained, Flushed,
                Killed, Restart
    <3>1. CASE UNCHANGED vars
      BY <3>1 DEF vars
    <3>2. CASE Next
      BY <3>2, StepCases
    <3>3. QED
      BY <3>1, <3>2
  <2>3. QED
    BY <2>1, <2>2
<1>9. lost' \in Nat
  BY OrderlyExitLosesNothing' DEF OrderlyExitLosesNothing
<1>10. QED
  BY <1>1, <1>2, <1>3, <1>4, <1>5, <1>6, <1>7, <1>8, <1>9

-----------------------------------------------------------------------------
(* Enrollments. *)

\* The unique index decides, whatever StartQuest saw.
LEMMA OneActiveStep ==
    ASSUME QuestInv, [Next]_vars
    PROVE  OneActiveEnrollment'
<1> USE QuestLifecycleAssumption DEF QuestInv, TypeOK, OneActiveEnrollment, Active
<1>1. CASE UNCHANGED <<row, announced>>
  BY <1>1
<1>2. ASSUME NEW a \in Requests, NEW e \in Enrollments, Enroll(a, e)
      PROVE  OneActiveEnrollment'
  <2>1. \A f \in Enrollments : QuestOf[f] = QuestOf[e] => ~Active(f)
    BY <1>2 DEF Enroll, OneActive, Enrolled
  <2>2. row' = [row EXCEPT ![e].status = "active"]
    BY <1>2 DEF Enroll
  <2>3. QED
    BY <2>1, <2>2
<1>3. ASSUME NEW a \in Requests, Increment(a) \/ Complete(a) \/ Abandon(a)
      PROVE  OneActiveEnrollment'
  <2>1. agent[a].on \in Enrollments
    BY <1>3 DEF Increment, Complete, Abandon, At, Agents
  <2>2. \A f \in Enrollments : row'[f].status = "active" => row[f].status = "active"
    BY <1>3, <2>1 DEF Increment, Complete, Abandon
  <2>3. QED
    BY <2>2
<1>4. QED
  BY <1>1, <1>2, <1>3, RowWrites

\* What a closed enrollment was, it stays; and only Complete announces.
LEMMA ClosedStep ==
    ASSUME QuestInv, [Next]_vars
    PROVE  ClosedIsFinal /\ CompletedOnce'
<1> USE DEF QuestInv, TypeOK, ClosedIsFinal, CompletedOnce, Active
<1>1. CASE UNCHANGED <<row, announced>>
  BY <1>1
<1>2. ASSUME NEW a \in Requests, NEW e \in Enrollments, Enroll(a, e)
      PROVE  ClosedIsFinal /\ CompletedOnce'
  <2>1. /\ row[e].status = "absent"
        /\ row' = [row EXCEPT ![e].status = "active"]
        /\ announced' = announced
    BY <1>2 DEF Enroll
  <2>2. QED
    BY <2>1
<1>3. ASSUME NEW a \in Requests, Increment(a)
      PROVE  ClosedIsFinal /\ CompletedOnce'
  <2>1. agent[a].on \in Enrollments /\ row[agent[a].on].status = "active"
    BY <1>3 DEF Increment, At, Agents
  <2>2. /\ \E n : row' = [row EXCEPT ![agent[a].on].count = n]
        /\ announced' = announced
    BY <1>3 DEF Increment
  <2>3. QED
    BY <2>1, <2>2
<1>4. ASSUME NEW a \in Requests, Complete(a)
      PROVE  ClosedIsFinal /\ CompletedOnce'
  <2>1. agent[a].on \in Enrollments /\ row[agent[a].on].status = "active"
    BY <1>4 DEF Complete, At, Agents
  <2>2. /\ row' = [row EXCEPT ![agent[a].on].status = "completed"]
        /\ announced' = [announced EXCEPT ![agent[a].on] = @ + 1]
    BY <1>4 DEF Complete
  <2>3. QED
    BY <2>1, <2>2
<1>5. ASSUME NEW a \in Requests, Abandon(a)
      PROVE  ClosedIsFinal /\ CompletedOnce'
  <2>1. agent[a].on \in Enrollments /\ row[agent[a].on].status = "active"
    BY <1>5 DEF Abandon, At, Agents
  <2>2. /\ row' = [row EXCEPT ![agent[a].on].status = "abandoned"]
        /\ announced' = announced
    BY <1>5 DEF Abandon
  <2>3. QED
    BY <2>1, <2>2
<1>6. QED
  BY <1>1, <1>2, <1>3, <1>4, <1>5, RowWrites

-----------------------------------------------------------------------------
(* Counting. *)

\* The requests that are about to count: no other joins or leaves them, and one
\* joins after its entry.
LEMMA CountingOthers ==
    ASSUME AgentsAreWellFormed, NEW a \in Requests, NEW e,
           ~(At(a, "count") /\ agent[a].on = e),
           NEW x, agent' = [agent EXCEPT ![a] = x], x.pc # "count" \/ x.on # e
    PROVE  Counting(e)' = Counting(e)
  BY DEF Counting, AgentsAreWellFormed, Agents, At

LEMMA CountingMore ==
    ASSUME AgentsAreWellFormed, NEW a \in Requests, NEW e, WriteLog(a),
           agent[a].on = e
    PROVE  Counting(e)' = Counting(e) \cup {a} /\ a \notin Counting(e)
  BY DEF Counting, AgentsAreWellFormed, Agents, At, WriteLog

LEMMA EntriesPayStep ==
    ASSUME QuestInv, [Next]_vars
    PROVE  EntriesPay'
<1> SUFFICES ASSUME NEW e \in Enrollments
             PROVE  /\ IsFiniteSet(Counting(e)')
                    /\ row'[e].count + Cardinality(Counting(e)') <= logs'[e]
  BY DEF EntriesPay, Counting, At
<1> DEFINE Pays == /\ IsFiniteSet(Counting(e)')
                   /\ row'[e].count + Cardinality(Counting(e)') <= logs'[e]
<1>1. /\ IsFiniteSet(Counting(e))
      /\ Cardinality(Counting(e)) \in Nat
      /\ row[e].count \in Nat /\ logs[e] \in Nat
      /\ row[e].count + Cardinality(Counting(e)) <= logs[e]
  BY FS_CardinalityType DEF QuestInv, EntriesPay, TypeOK
<1>2. AgentsAreWellFormed
  BY DEF QuestInv
<1>3. CASE Counting(e)' = Counting(e) /\ row'[e].count = row[e].count /\ logs'[e] = logs[e]
  BY <1>1, <1>3
<1>4. ASSUME NEW a \in Requests, WriteLog(a)
      PROVE  Pays
  <2>1. row' = row /\ logs' = [logs EXCEPT ![agent[a].on] = @ + 1]
    BY <1>4 DEF WriteLog
  <2>2. CASE agent[a].on = e
    <3>1. Counting(e)' = Counting(e) \cup {a} /\ a \notin Counting(e)
      BY <1>2, <1>4, <2>2, CountingMore
    <3>2. /\ IsFiniteSet(Counting(e)')
          /\ Cardinality(Counting(e)') = Cardinality(Counting(e)) + 1
      BY <1>1, <3>1, FS_AddElement
    <3>3. logs'[e] = logs[e] + 1
      BY <2>1, <2>2 DEF QuestInv, TypeOK
    <3>4. QED
      BY <1>1, <2>1, <3>2, <3>3
  <2>3. CASE agent[a].on # e
    <3>1. /\ agent' = [agent EXCEPT ![a] = [agent[a] EXCEPT !.pc = "count"]]
          /\ [agent[a] EXCEPT !.pc = "count"].on # e
      BY <1>2, <1>4, <2>3 DEF WriteLog, AgentsAreWellFormed, Agents
    <3>2. Counting(e)' = Counting(e)
      BY <1>2, <2>3, <3>1, CountingOthers DEF At
    <3>3. logs'[e] = logs[e]
      BY <2>1, <2>3 DEF QuestInv, TypeOK
    <3>4. QED
      BY <1>3, <2>1, <3>2, <3>3
  <2>4. QED
    BY <2>2, <2>3
<1>5. ASSUME NEW a \in Requests, NEW x, agent' = [agent EXCEPT ![a] = x],
             x.pc # "count", Increment(a)
      PROVE  Pays
  <2>1. /\ At(a, "count") /\ logs' = logs
        /\ row' = [row EXCEPT ![agent[a].on].count = row[agent[a].on].count + 1]
    BY <1>5 DEF Increment
  <2>2. CASE agent[a].on = e
    <3>1. Counting(e)' = Counting(e) \ {a} /\ a \in Counting(e)
      <4>1. /\ At(a, "count") /\ agent[a].on = e
            /\ agent' = [agent EXCEPT ![a] = x] /\ x.pc # "count"
        BY <1>5, <2>1, <2>2
      <4>2. QED
        BY <1>2, <4>1 DEF Counting, AgentsAreWellFormed, Agents, At
    <3>2. /\ IsFiniteSet(Counting(e)')
          /\ Cardinality(Counting(e)') = Cardinality(Counting(e)) - 1
      BY <1>1, <3>1, FS_RemoveElement
    <3>3. row'[e].count = row[e].count + 1
      BY <2>1, <2>2 DEF QuestInv, TypeOK
    <3>4. QED
      BY <1>1, <2>1, <3>2, <3>3
  <2>3. CASE agent[a].on # e
    <3>1. Counting(e)' = Counting(e)
      BY <1>2, <1>5, <2>3, CountingOthers
    <3>2. row'[e] = row[e]
      BY <2>1, <2>3 DEF QuestInv, TypeOK
    <3>3. QED
      BY <1>3, <2>1, <3>1, <3>2
  <2>4. QED
    BY <2>2, <2>3
<1>6. ASSUME NEW a \in Requests, NEW x, agent' = [agent EXCEPT ![a] = x], x.pc # "count",
             row'[e].count = row[e].count, logs' = logs
      PROVE  Pays
  <2>1. CASE At(a, "count") /\ agent[a].on = e
    <3>1. Counting(e)' = Counting(e) \ {a} /\ a \in Counting(e)
      BY <1>2, <1>6, <2>1 DEF Counting, AgentsAreWellFormed, Agents, At
    <3>2. /\ IsFiniteSet(Counting(e)')
          /\ Cardinality(Counting(e)') = Cardinality(Counting(e)) - 1
      BY <1>1, <3>1, FS_RemoveElement
    <3>3. QED
      BY <1>1, <1>6, <3>2
  <2>2. CASE ~(At(a, "count") /\ agent[a].on = e)
    <3>1. Counting(e)' = Counting(e)
      BY <1>2, <1>6, <2>2, CountingOthers
    <3>2. QED
      BY <1>3, <1>6, <3>1
  <2>3. QED
    BY <2>1, <2>2
<1>7. ASSUME NEW a \in Requests, Begins(a)
      PROVE  Pays
  <2>1. PICK p \in {"enroll", "log", "complete", "abandon"},
             x \in Enrollments \cup Quests, type \in RequestTypes \cup {"none"} :
             agent' = [agent EXCEPT ![a] = [pc |-> p, on |-> x, type |-> type]]
    BY <1>7 DEF Begins
  <2>2. [pc |-> p, on |-> x, type |-> type].pc # "count"
    OBVIOUS
  <2>3. row' = row /\ logs' = logs
    BY <1>7 DEF Begins
  <2>4. QED
    BY <1>6, <2>1, <2>2, <2>3
<1>8. Idle.pc # "count"
  BY DEF Idle
<1>15. ASSUME NEW a \in Requests, Increment(a)
       PROVE  Pays
  <2>1. \/ agent' = [agent EXCEPT ![a] = [agent[a] EXCEPT !.pc = "complete"]]
        \/ agent' = [agent EXCEPT ![a] = Idle]
    BY <1>15 DEF Increment
  <2>2. [agent[a] EXCEPT !.pc = "complete"].pc # "count"
    BY <1>2 DEF AgentsAreWellFormed, Agents
  <2>3. QED
    BY <1>5, <1>8, <1>15, <2>1, <2>2
<1>9. ASSUME NEW a \in Requests,
             LogRefused(a) \/ Award(a) \/ Refused(a) \/ StatementFails(a)
      PROVE  Pays
  <2>1. agent' = [agent EXCEPT ![a] = Idle] /\ row' = row /\ logs' = logs
    BY <1>9 DEF LogRefused, Award, Refused, StatementFails
  <2>2. QED
    BY <1>6, <1>8, <2>1
<1>10. ASSUME NEW a \in Requests, NEW f \in Enrollments, Enroll(a, f)
       PROVE  Pays
  <2>1. /\ agent' = [agent EXCEPT ![a] = Idle]
        /\ row' = [row EXCEPT ![f].status = "active"] /\ logs' = logs
    BY <1>10 DEF Enroll
  <2>2. row'[e].count = row[e].count
    BY <2>1 DEF QuestInv, TypeOK
  <2>3. QED
    BY <1>6, <1>8, <2>1, <2>2
<1>11. ASSUME NEW a \in Requests, Complete(a) \/ Abandon(a)
       PROVE  Pays
  <2>1. /\ logs' = logs
        /\ \E s \in {"completed", "abandoned"} : row' = [row EXCEPT ![agent[a].on].status = s]
    BY <1>11 DEF Complete, Abandon
  <2>2. row'[e].count = row[e].count
    BY <2>1 DEF QuestInv, TypeOK
  <2>3. \/ agent' = [agent EXCEPT ![a] = [agent[a] EXCEPT !.pc = "award"]]
        \/ agent' = [agent EXCEPT ![a] = Idle]
    BY <1>11 DEF Complete, Abandon
  <2>4. [agent[a] EXCEPT !.pc = "award"].pc # "count"
    BY <1>2 DEF AgentsAreWellFormed, Agents
  <2>5. QED
    BY <1>6, <1>8, <2>1, <2>2, <2>3, <2>4
<1>12. ASSUME NEW w \in Workers, TakeRecord(w) \/ FinishTask(w)
       PROVE  Pays
  <2>1. /\ row' = row /\ logs' = logs
        /\ \E x : agent' = [agent EXCEPT ![w] = x]
    BY <1>12 DEF TakeRecord, FinishTask
  <2>2. Counting(e)' = Counting(e)
    BY <1>2, <2>1, QuestLifecycleAssumption DEF Counting, AgentsAreWellFormed, Agents, At
  <2>3. QED
    BY <1>3, <2>1, <2>2
<1>13. CASE Stop \/ Drained \/ Restart \/ UNCHANGED vars
  BY <1>3, <1>13 DEF Stop, Drained, Restart, vars, Counting, At
<1>14. CASE Flushed \/ Killed
  <2>1. agent' = [a \in Agents |-> Idle] /\ row' = row /\ logs' = logs
    BY <1>14 DEF Flushed, Killed, Reset
  <2>2. Counting(e)' = {}
    BY <2>1 DEF Counting, At, Idle, Agents
  <2>3. QED
    BY <1>1, <2>1, <2>2, FS_EmptySet
<1>16. QED
  BY <1>4, <1>15, <1>7, <1>9, <1>10, <1>11, <1>12, <1>13, <1>14, StepCases, Zenon

-----------------------------------------------------------------------------
(* Completing and awarding. *)

\* A request on its way to a badge goes on by steps of its own, until something
\* fails.
LEMMA OnItsWay ==
    ASSUME QuestInv, [Next]_vars, NEW b \in Requests,
           agent[b].pc \in {"complete", "award"}
    PROVE  \/ agent'[b] = agent[b]
           \/ Complete(b) \/ Award(b) \/ Refused(b)
           \/ faults' > 0
<1> USE DEF QuestInv, AgentsAreWellFormed, Agents, At
<1> DEFINE GoesOn == \/ agent'[b] = agent[b]
                     \/ Complete(b) \/ Award(b) \/ Refused(b)
                     \/ faults' > 0
<1>1. ASSUME NEW a \in Agents, a # b, \E x : agent' = [agent EXCEPT ![a] = x]
      PROVE  GoesOn
  BY <1>1
<1>2. ASSUME NEW a \in Requests,
             \/ Begins(a) \/ WriteLog(a) \/ LogRefused(a) \/ Increment(a)
             \/ Abandon(a) \/ \E e \in Enrollments : Enroll(a, e)
      PROVE  GoesOn
  <2>1. /\ agent[a].pc \notin {"complete", "award"}
        /\ \E x : agent' = [agent EXCEPT ![a] = x]
    BY <1>2 DEF Begins, WriteLog, LogRefused, Increment, Abandon, Enroll
  <2>2. QED
    BY <1>1, <2>1
<1>3. ASSUME NEW a \in Requests, Complete(a) \/ Award(a) \/ Refused(a)
      PROVE  GoesOn
  <2>1. \E x : agent' = [agent EXCEPT ![a] = x]
    BY <1>3 DEF Complete, Award, Refused
  <2>2. QED
    BY <1>1, <1>3, <2>1
<1>4. ASSUME NEW w \in Workers, TakeRecord(w) \/ FinishTask(w)
      PROVE  GoesOn
  <2>1. \E x : agent' = [agent EXCEPT ![w] = x]
    BY <1>4 DEF TakeRecord, FinishTask
  <2>2. QED
    BY <1>1, <2>1, QuestLifecycleAssumption
<1>5. ASSUME NEW a \in Requests, StatementFails(a)
      PROVE  GoesOn
  BY <1>5 DEF StatementFails, Fault, TypeOK
<1>6. CASE Killed
  BY <1>6 DEF Killed, Fault, TypeOK
<1>7. CASE Flushed
  BY <1>7 DEF Flushed, RequestsAreDone
<1>8. CASE Stop \/ Drained \/ Restart \/ UNCHANGED vars
  BY <1>8 DEF Stop, Drained, Restart, vars
<1>9. GoesOn
  BY <1>2, <1>3, <1>4, <1>5, <1>6, <1>7, <1>8, StepCases, Zenon
<1>10. QED
  BY <1>9

\* An enrollment that has not begun counts nothing.
LEMMA AbsentStep ==
    ASSUME QuestInv, [Next]_vars
    PROVE  AbsentIsEmpty'
<1> USE DEF QuestInv, TypeOK, AbsentIsEmpty, Active
<1>1. CASE UNCHANGED <<row, announced>>
  BY <1>1
<1>2. ASSUME NEW a \in Requests, NEW e \in Enrollments, Enroll(a, e)
      PROVE  AbsentIsEmpty'
  BY <1>2 DEF Enroll
<1>3. ASSUME NEW a \in Requests, Increment(a)
      PROVE  AbsentIsEmpty'
  <2>1. /\ row[agent[a].on].status = "active"
        /\ \E n : row' = [row EXCEPT ![agent[a].on].count = n]
    BY <1>3 DEF Increment
  <2>2. QED
    BY <2>1
<1>4. ASSUME NEW a \in Requests, Complete(a) \/ Abandon(a)
      PROVE  AbsentIsEmpty'
  <2>1. \E s \in {"completed", "abandoned"} : row' = [row EXCEPT ![agent[a].on].status = s]
    BY <1>4 DEF Complete, Abandon
  <2>2. QED
    BY <2>1
<1>5. QED
  BY <1>1, <1>2, <1>3, <1>4, RowWrites

\* A request that has brought the count to the target is at "complete" until
\* the enrollment is closed, or something has failed.
LEMMA TargetStep ==
    ASSUME QuestInv, [Next]_vars
    PROVE  TargetCompletes'
<1> SUFFICES ASSUME NEW e \in Enrollments,
                    row'[e].status = "active", HasTarget(QuestOf[e]),
                    row'[e].count > 0, row'[e].count >= TargetOf[QuestOf[e]],
                    faults' = 0
             PROVE  \E a \in Agents : agent'[a].pc = "complete" /\ agent'[a].on = e
  BY FaultsStay DEF TargetCompletes, Active, At, HasTarget, QuestInv
<1>1. faults = 0
  BY FaultsStay DEF QuestInv, TypeOK
<1>2. CASE row'[e] = row[e]
  <2>1. PICK b \in Agents : agent[b].pc = "complete" /\ agent[b].on = e
    BY <1>1, <1>2 DEF QuestInv, TargetCompletes, Active, At
  <2>2. b \in Requests
    BY <2>1 DEF QuestInv, AgentsAreWellFormed, Agents
  <2>3. ~Complete(b) /\ ~Award(b) /\ ~Refused(b)
    BY <1>2, <2>1 DEF Complete, Award, Refused, At, Active, QuestInv, TypeOK
  <2>4. agent'[b] = agent[b]
    BY <2>1, <2>2, <2>3, OnItsWay
  <2>5. QED
    BY <2>1, <2>4
<1>3. ASSUME NEW a \in Requests, Increment(a), agent[a].on = e
      PROVE  \E b \in Agents : agent'[b].pc = "complete" /\ agent'[b].on = e
  <2>1. /\ row'[e].count = row[e].count + 1
    BY <1>3 DEF Increment, QuestInv, TypeOK
  <2>2. Reached(e, row[e].count + 1)
    BY <2>1 DEF Reached
  <2>3. agent' = [agent EXCEPT ![a] = [@ EXCEPT !.pc = "complete"]]
    BY <1>3, <2>2 DEF Increment
  <2>4. agent'[a].pc = "complete" /\ agent'[a].on = e
    BY <1>3, <2>3 DEF QuestInv, AgentsAreWellFormed, Agents
  <2>5. QED
    BY <2>4 DEF Agents
<1>4. ASSUME NEW a \in Requests, NEW f \in Enrollments, Enroll(a, f)
      PROVE  row'[e] = row[e]
  BY <1>4 DEF Enroll, QuestInv, TypeOK, AbsentIsEmpty
<1>5. ASSUME NEW a \in Requests, Increment(a), agent[a].on # e
      PROVE  row'[e] = row[e]
  BY <1>5 DEF Increment, QuestInv, TypeOK
<1>6. ASSUME NEW a \in Requests, Complete(a) \/ Abandon(a)
      PROVE  row'[e] = row[e]
  <2>1. \E s \in {"completed", "abandoned"} : row' = [row EXCEPT ![agent[a].on].status = s]
    BY <1>6 DEF Complete, Abandon
  <2>2. QED
    BY <2>1 DEF QuestInv, TypeOK
<1>7. QED
  BY <1>2, <1>3, <1>4, <1>5, <1>6, RowWrites

\* Whoever is at "award" has completed the enrollment.
LEMMA AwardStep ==
    ASSUME QuestInv, [Next]_vars, ClosedIsFinal
    PROVE  AwardIsForCompleted'
<1> SUFFICES ASSUME NEW b \in Requests, agent'[b].pc = "award"
             PROVE  row'[agent'[b].on].status = "completed"
  BY DEF AwardIsForCompleted, At
<1>1. CASE agent'[b] = agent[b]
  BY <1>1 DEF QuestInv, AwardIsForCompleted, ClosedIsFinal, AgentsAreWellFormed,
              RequestIsWellFormed, At
<1>2. CASE Complete(b)
  <2>1. agent[b].on \in Enrollments
    BY <1>2 DEF Complete, At, QuestInv, AgentsAreWellFormed, RequestIsWellFormed
  <2>2. row'[agent[b].on].status = "completed"
    BY <1>2, <2>1 DEF Complete, QuestInv, TypeOK
  <2>3. agent'[b].on = agent[b].on
    BY <1>2 DEF Complete, Idle, QuestInv, AgentsAreWellFormed, Agents
  <2>4. QED
    BY <2>2, <2>3
<1>3. agent'[b] = agent[b] \/ Complete(b)
  <2> USE DEF QuestInv, AgentsAreWellFormed, Agents, Idle
  <2>1. ASSUME NEW a \in Agents, \E x : agent' = [agent EXCEPT ![a] = x] /\ x.pc # "award"
        PROVE  agent'[b] = agent[b]
    BY <2>1
  <2>2. ASSUME NEW a \in Requests, Begins(a)
        PROVE  agent'[b] = agent[b]
    BY <2>2 DEF Begins
  <2>3. ASSUME NEW a \in Requests,
               LogRefused(a) \/ Award(a) \/ Abandon(a) \/ Refused(a) \/ StatementFails(a)
               \/ \E e \in Enrollments : Enroll(a, e)
        PROVE  agent'[b] = agent[b]
    <3>1. agent' = [agent EXCEPT ![a] = Idle]
      BY <2>3 DEF LogRefused, Award, Abandon, Refused, StatementFails, Enroll
    <3>2. QED
      BY <3>1
  <2>4. ASSUME NEW a \in Requests, WriteLog(a)
        PROVE  agent'[b] = agent[b]
    BY <2>4 DEF WriteLog
  <2>5. ASSUME NEW a \in Requests, Increment(a)
        PROVE  agent'[b] = agent[b]
    <3>1. \/ agent' = [agent EXCEPT ![a] = [agent[a] EXCEPT !.pc = "complete"]]
          \/ agent' = [agent EXCEPT ![a] = Idle]
      BY <2>5 DEF Increment
    <3>2. QED
      BY <3>1
  <2>6. ASSUME NEW a \in Requests, Complete(a)
        PROVE  agent'[b] = agent[b] \/ Complete(b)
    <3>1. \E x : agent' = [agent EXCEPT ![a] = x]
      BY <2>6 DEF Complete
    <3>2. QED
      BY <2>6, <3>1
  <2>7. ASSUME NEW w \in Workers, TakeRecord(w) \/ FinishTask(w)
        PROVE  agent'[b] = agent[b]
    <3>1. \E x : agent' = [agent EXCEPT ![w] = x]
      BY <2>7 DEF TakeRecord, FinishTask
    <3>2. QED
      BY <3>1, QuestLifecycleAssumption
  <2>8. CASE Stop \/ Drained \/ Restart \/ UNCHANGED vars
    BY <2>8 DEF Stop, Drained, Restart, vars
  <2>9. CASE Flushed \/ Killed
    BY <2>9 DEF Flushed, Killed, Reset
  <2>10. QED
    BY <2>2, <2>3, <2>4, <2>5, <2>6, <2>7, <2>8, <2>9, StepCases, Zenon
<1>4. QED
  BY <1>1, <1>2, <1>3

LEMMA BadgeEarnedStep ==
    ASSUME QuestInv, [Next]_vars, ClosedIsFinal
    PROVE  BadgeIsEarned'
<1> USE DEF QuestInv, TypeOK, BadgeIsEarned, ClosedIsFinal
<1>1. ASSUME NEW e \in Enrollments, row[e].status = "completed"
      PROVE  row'[e].status = "completed"
  BY <1>1
<1>2. CASE UNCHANGED badges
  BY <1>1, <1>2
<1>3. ASSUME NEW a \in Requests, Award(a)
      PROVE  BadgeIsEarned'
  <2>1. /\ badges' = badges \cup {BadgeOf[QuestOf[agent[a].on]]}
        /\ agent[a].on \in Enrollments
        /\ row[agent[a].on].status = "completed"
    BY <1>3 DEF Award, At, AwardIsForCompleted, Agents
  <2>2. QED
    BY <1>1, <2>1
<1>4. QED
  BY <1>2, <1>3, BadgeWrites

\* Until the badge is there, the request that completed the enrollment awards it.
LEMMA BadgeBeforeStep ==
    ASSUME QuestInv, [Next]_vars
    PROVE  BadgeBeforeAnswer'
<1> SUFFICES ASSUME NEW e \in Enrollments, row'[e].status = "completed",
                    BadgeOf[QuestOf[e]] # NoBadge, faults' = 0
             PROVE  \/ BadgeOf[QuestOf[e]] \in badges'
                    \/ \E a \in Agents : agent'[a].pc = "award" /\ agent'[a].on = e
  BY FaultsStay DEF BadgeBeforeAnswer, At, QuestInv
<1>1. faults = 0
  BY FaultsStay DEF QuestInv, TypeOK
<1>2. badges \subseteq badges'
  BY BadgeWrites DEF Award
<1>3. CASE row[e].status = "completed" /\ BadgeOf[QuestOf[e]] \notin badges
  <2>1. PICK b \in Agents : agent[b].pc = "award" /\ agent[b].on = e
    BY <1>1, <1>3 DEF QuestInv, BadgeBeforeAnswer, At
  <2>2. b \in Requests
    BY <2>1 DEF QuestInv, AgentsAreWellFormed, Agents
  <2>3. ~Complete(b) /\ ~Refused(b)
    BY <2>1 DEF Complete, Refused, At
  <2>4. CASE Award(b)
    BY <2>1, <2>4 DEF Award
  <2>5. CASE agent'[b] = agent[b]
    BY <2>1, <2>5
  <2>6. QED
    BY <2>1, <2>2, <2>3, <2>4, <2>5, OnItsWay
<1>4. CASE row[e].status # "completed"
  <2>1. PICK a \in Requests : Complete(a) /\ agent[a].on = e
    <3> USE DEF QuestInv, TypeOK
    <3>1. row'[e] # row[e]
      BY <1>4
    <3>2. ASSUME NEW a \in Requests, NEW f \in Enrollments, Enroll(a, f)
          PROVE  row'[e].status \in {row[e].status, "active"}
      BY <3>2 DEF Enroll
    <3>3. ASSUME NEW a \in Requests, Increment(a)
          PROVE  row'[e].status = row[e].status
      BY <3>3 DEF Increment
    <3>4. ASSUME NEW a \in Requests, Abandon(a)
          PROVE  row'[e].status \in {row[e].status, "abandoned"}
      BY <3>4 DEF Abandon
    <3>5. ASSUME NEW a \in Requests, Complete(a), agent[a].on # e
          PROVE  row'[e] = row[e]
      BY <3>5 DEF Complete
    <3>6. QED
      BY <1>4, <3>1, <3>2, <3>3, <3>4, <3>5, RowWrites
  <2>2. agent' = [agent EXCEPT ![a].pc = "award"]
    BY <2>1 DEF Complete, Awarded
  <2>3. agent'[a].pc = "award" /\ agent'[a].on = e
    BY <2>1, <2>2 DEF QuestInv, AgentsAreWellFormed, Agents
  <2>4. QED
    BY <2>3 DEF Agents
<1>5. QED
  BY <1>2, <1>3, <1>4

-----------------------------------------------------------------------------
(* The theorems. *)

LEMMA QuestInvInit ==
    ASSUME Init
    PROVE  QuestInv
<1> USE QuestLifecycleAssumption DEF Init, Idle, At, Agents
<1>1. TypeOK
  BY DEF TypeOK
<1>2. AgentsAreWellFormed
  BY DEF AgentsAreWellFormed, RequestIsWellFormed, Pcs
<1>3. OneActiveEnrollment /\ TargetCompletes /\ CompletedOnce /\ AbsentIsEmpty
  BY DEF OneActiveEnrollment, TargetCompletes, CompletedOnce, AbsentIsEmpty, Active
<1>4. EntriesPay
  <2>1. \A e \in Enrollments : Counting(e) = {}
    BY DEF Counting
  <2>2. \A e \in Enrollments :
            IsFiniteSet(Counting(e)) /\ Cardinality(Counting(e)) = 0
    BY <2>1, FS_EmptySet
  <2>3. QED
    BY <2>2 DEF EntriesPay
<1>5. WaitGroupCounts
  <2>1. Recording = {}
    BY DEF Recording
  <2>2. QED
    BY <2>1, FS_EmptySet DEF WaitGroupCounts
<1>6. AwardIsForCompleted /\ BadgeIsEarned /\ BadgeBeforeAnswer
  BY DEF AwardIsForCompleted, BadgeIsEarned, BadgeBeforeAnswer
<1>7. RequestsAreDone /\ OrderlyExitLosesNothing
  BY DEF RequestsAreDone, OrderlyExitLosesNothing
<1>8. QED
  BY <1>1, <1>2, <1>3, <1>4, <1>5, <1>6, <1>7 DEF QuestInv

LEMMA QuestInvStep ==
    ASSUME QuestInv, [Next]_vars
    PROVE  QuestInv' /\ CompletedOnce' /\ ClosedIsFinal
<1>1. AgentsAreWellFormed'
  BY AgentsStep
<1>2. WaitGroupCounts' /\ RequestsAreDone' /\ OrderlyExitLosesNothing'
  BY WaitGroupStep, RequestsDoneStep, NothingLostStep
<1>3. TypeOK'
  BY <1>1, <1>2, TypesStep
<1>4. ClosedIsFinal /\ CompletedOnce'
  BY ClosedStep
<1>5. OneActiveEnrollment' /\ EntriesPay' /\ AbsentIsEmpty' /\ TargetCompletes'
  BY OneActiveStep, EntriesPayStep, AbsentStep, TargetStep
<1>6. AwardIsForCompleted' /\ BadgeIsEarned' /\ BadgeBeforeAnswer'
  BY <1>4, AwardStep, BadgeEarnedStep, BadgeBeforeStep
<1>7. QED
  BY <1>1, <1>2, <1>3, <1>4, <1>5, <1>6 DEF QuestInv

LEMMA QuestInvHolds == Spec => []QuestInv
<1>1. Init => QuestInv
  BY QuestInvInit
<1>2. QuestInv /\ [Next]_vars => QuestInv'
  BY QuestInvStep
<1>3. QED
  BY <1>1, <1>2, PTL DEF Spec

\* The entries that are logged pay for the count.
LEMMA QuestInvIsEnough ==
    ASSUME QuestInv
    PROVE  ProgressHolds /\ OneActiveEnrollment /\ BadgesHold /\ OrderlyExitLosesNothing
<1>1. CountIsLogged
  <2> SUFFICES ASSUME NEW e \in Enrollments
               PROVE  row[e].count <= logs[e]
    BY DEF CountIsLogged
  <2>1. Cardinality(Counting(e)) \in Nat
    BY FS_CardinalityType DEF QuestInv, EntriesPay
  <2>2. row[e].count \in Nat /\ logs[e] \in Nat
    BY DEF QuestInv, TypeOK
  <2>3. row[e].count + Cardinality(Counting(e)) <= logs[e]
    BY DEF QuestInv, EntriesPay
  <2>4. QED
    BY <2>1, <2>2, <2>3
<1>2. QED
  BY <1>1 DEF QuestInv, ProgressHolds, BadgesHold

\* Log, count and target keep step for any number of concurrent requests:
\* nothing is counted that is not logged, and an enrollment that has reached its
\* target is being completed (LogProgress, repository/quest.go).
THEOREM ProgressKeepsStep == Spec => []ProgressHolds
<1>1. QuestInv => ProgressHolds
  BY QuestInvIsEnough
<1>2. QED
  BY <1>1, QuestInvHolds, PTL

\* However many requests start one quest together, one enrollment at most is
\* active (StartQuest, idx_climber_quests_one_active).
THEOREM EnrollmentsDoNotOverlap == Spec => []OneActiveEnrollment
<1>1. QuestInv => OneActiveEnrollment
  BY QuestInvIsEnough
<1>2. QED
  BY <1>1, QuestInvHolds, PTL

\* A badge is for a completed quest, and it is there when the request that
\* completed it has answered (quest_listeners.go).
THEOREM BadgesAreEarned == Spec => []BadgesHold
<1>1. QuestInv => BadgesHold
  BY QuestInvIsEnough
<1>2. QED
  BY <1>1, QuestInvHolds, PTL

\* An orderly shutdown cuts off nothing, for any number of requests, goroutines
\* and queued tasks (main.go, event/memory.go).
THEOREM ShutdownDrains == Spec => []OrderlyExitLosesNothing
<1>1. QuestInv => OrderlyExitLosesNothing
  BY QuestInvIsEnough
<1>2. QED
  BY <1>1, QuestInvHolds, PTL

\* An enrollment is completed and announced once, and closed for good, whatever
\* requests had read it while it was active (completeQuest).
THEOREM CompletionIsFinal == Spec => CompletionsHold
<1>1. QuestInv /\ [Next]_vars => [CompletedOnce' /\ ClosedIsFinal]_vars
  BY QuestInvStep
<1>2. Spec => [][CompletedOnce' /\ ClosedIsFinal]_vars
  BY <1>1, QuestInvHolds, PTL DEF Spec
<1>3. QED
  BY <1>2 DEF CompletionsHold
=============================================================================
