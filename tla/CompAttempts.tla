---------------------------- MODULE CompAttempts ----------------------------
(***************************************************************************)
(* The scorecard of one competition registration: POST /actions            *)
(* (internal/handler/comp_action.go), the staff overrides and              *)
(* verifications (comp_verify.go) and the tables they share                *)
(* (internal/repository/competition_attempt.go, migration 000034).         *)
(*                                                                         *)
(* A request works through its batch item by item.  For each item it looks *)
(* the idempotency key up, reads the attempt row (for an undo also the     *)
(* latest log entry), computes the new state in memory, and writes state   *)
(* and log entry in one transaction.  Nothing is locked in between, so the *)
(* requests of a climber's devices, their retries and staff interleave at  *)
(* every one of these steps.                                               *)
(***************************************************************************)
EXTENDS Integers, Sequences

CONSTANTS
    Requests,        \* requests in flight at the same time
    Problems,        \* the problems of the competition's events
    Batches,         \* the bodies clients submit: sequences of items
    OverrideStates,  \* the states staff assert
    NoKey,           \* an item without an idempotency key
    NoRow,           \* "no attempt row"
    MaxTx            \* bound on the transactions begun

Unset == -1          \* zone_attempts IS NULL

State == [attempts : Nat, zoneAttempts : Nat \cup {Unset},
          zone : BOOLEAN, top : BOOLEAN]

Zero == [attempts |-> 0, zoneAttempts |-> Unset, zone |-> FALSE,
         top |-> FALSE]

ClimberActions == {"increment", "zone", "top", "undo", "reset"}

IsItem(i) == /\ DOMAIN i = {"problem", "type", "key"}
             /\ i.type \in ClimberActions

\* A client makes one key per tap and keeps it for the retries of that tap.
ASSUME CompAttemptsAssumption ==
    /\ \A b \in Batches : b \in Seq({b[n] : n \in DOMAIN b})
    /\ \A b \in Batches : \A n \in DOMAIN b : IsItem(b[n])
    /\ \A b, c \in Batches : \A m \in DOMAIN b, n \in DOMAIN c :
          b[m].key = c[n].key /\ b[m].key # NoKey => b[m] = c[n]
    /\ OverrideStates \subseteq State
    /\ NoRow \notin State
    /\ MaxTx \in Nat

VARIABLES
    row,       \* competition_attempts, by problem
    log,       \* competition_attempt_log in the order of its ids
    verified,  \* the problems whose row has verified_at
    gate,      \* what the competition, the registration and the event admit
    req,       \* the requests in flight
    clock,     \* transaction start times handed out
    answers,   \* history: the keyed results that were sent to clients
    raced      \* history: two requests have been between look-up and commit

vars == <<row, log, verified, gate, req, clock, answers, raced>>

-----------------------------------------------------------------------------
(* Values. *)

\* Mutant of ComputeNewState: a top does not imply the zone.
TopWithoutZone(s, type) ==
    LET tried == IF s.attempts < 1 THEN 1 ELSE s.attempts
    IN  CASE type = "increment" -> [s EXCEPT !.attempts = @ + 1]
          [] type = "zone" -> [s EXCEPT !.attempts = tried, !.zone = TRUE,
                                        !.zoneAttempts = tried]
          [] type = "top"  -> [s EXCEPT !.attempts = tried, !.top = TRUE]
          [] type = "reset" -> Zero

\* computeNewState.  Undo is not a function of the state.
ComputeNewState(s, type) ==
    LET tried == IF s.attempts < 1 THEN 1 ELSE s.attempts
    IN  CASE type = "increment" -> [s EXCEPT !.attempts = @ + 1]
          [] type = "zone" -> [s EXCEPT !.attempts = tried, !.zone = TRUE,
                                        !.zoneAttempts = tried]
          [] type = "top"  -> [s EXCEPT !.attempts = tried, !.top = TRUE,
                                        !.zone = TRUE,
                                        !.zoneAttempts =
                                            IF s.zone THEN @ ELSE tried]
          [] type = "reset" -> Zero

Entries(p)   == {n \in DOMAIN log : log[n].problem = p}
KeyEntry(k)  == {n \in DOMAIN log : log[n].key = k /\ k # NoKey}

\* Mutant of IndexAdmits: the index on the key is not unique.
IndexAdmitsAll(k) == TRUE

\* competition_attempt_log_idem_idx.
IndexAdmits(k) == KeyEntry(k) = {}

\* Mutant of LoggedResult: a replay looks at the table.
CurrentResult(n) == row[log[n].problem]

\* What a replay sends.
LoggedResult(n) == log[n].after

\* Mutant of LatestLog: sorted the wrong way.
EarliestLog(p) == CHOOSE n \in Entries(p) :
                    \A m \in Entries(p) : log[m].at >= log[n].at

\* LatestLogForAttempt: ORDER BY at DESC, id DESC LIMIT 1, where the column
\* "at" holds now(), the start time of the inserting transaction.
LatestLog(p) == CHOOSE n \in Entries(p) :
                    \A m \in Entries(p) : log[m].at <= log[n].at

\* The entry of the last committed write: ids are drawn under the row lock.
LastWrite(p) == CHOOSE n \in Entries(p) : \A m \in Entries(p) : m <= n

Free == [pc |-> "free", batch |-> <<>>, inTime |-> FALSE, item |-> 0,
         base |-> Zero, next |-> Zero, at |-> 0]

Item(r)  == req[r].batch[req[r].item]
At(r, s) == req[r].pc = s

\* The request is done with its current item.
Advance(r) == [req[r] EXCEPT !.item = @ + 1, !.pc = "item",
                             !.base = Zero, !.next = Zero, !.at = 0]

\* Mutant of NewEntry: before and after swapped.
NewEntrySwapped(r) ==
    [problem |-> Item(r).problem, action |-> Item(r).type, key |-> Item(r).key,
     at |-> req[r].at, before |-> req[r].next, after |-> req[r].base]

\* The log row of ApplyAction: what the request read and what it wrote.
NewEntry(r) ==
    [problem |-> Item(r).problem, action |-> Item(r).type, key |-> Item(r).key,
     at |-> req[r].at, before |-> req[r].base, after |-> req[r].next]

\* What r is about to read may be outdated by the time it is written.
Race(r) == raced' = (raced \/ \E q \in Requests \ {r} :
                                  req[q].pc \in {"read", "history", "write", "tx"})

Answer(k, s) == IF k = NoKey THEN answers
                ELSE answers \cup {[key |-> k, state |-> s]}

-----------------------------------------------------------------------------

Init ==
    /\ row = [p \in Problems |-> NoRow]
    /\ log = <<>>
    /\ verified = {}
    /\ gate = "open"
    /\ req = [r \in Requests |-> Free]
    /\ clock = 0
    /\ answers = {}
    /\ raced = FALSE

\* SubmitActions up to its loop: the competition takes actions and the
\* registration is active, which is not looked at again; "now" is taken once
\* for the whole batch.
Submit(r, batch) ==
    /\ At(r, "free")
    /\ gate # "shut"
    /\ req' = [req EXCEPT ![r] = [Free EXCEPT !.pc = "item",
                                              !.batch = batch,
                                              !.item = 1,
                                              !.inTime = (gate = "open")]]
    /\ UNCHANGED <<row, log, verified, gate, clock, answers, raced>>

\* The key was used before: the logged result is sent again.
ReplayIfCached(r) ==
    /\ At(r, "item")
    /\ req[r].item <= Len(req[r].batch)
    /\ \E n \in KeyEntry(Item(r).key) :
          answers' = Answer(Item(r).key, LoggedResult(n))
    /\ req' = [req EXCEPT ![r] = Advance(r)]
    /\ UNCHANGED <<row, log, verified, gate, clock, raced>>

\* Unknown problem or closed event: the item is rejected, the batch goes on.
\* The look-up of the key found nothing or failed, which counts the same.
Reject(r) ==
    /\ At(r, "item")
    /\ req[r].item <= Len(req[r].batch)
    /\ Item(r).problem \notin Problems \/ ~req[r].inTime
    /\ req' = [req EXCEPT ![r] = Advance(r)]
    /\ UNCHANGED <<row, log, verified, gate, clock, answers, raced>>

\* The item passes the look-up, which is best effort, and the checks.
Accept(r) ==
    /\ At(r, "item")
    /\ req[r].item <= Len(req[r].batch)
    /\ Item(r).problem \in Problems /\ req[r].inTime
    /\ req' = [req EXCEPT ![r].pc = "read"]
    /\ Race(r)
    /\ UNCHANGED <<row, log, verified, gate, clock, answers>>

\* applyOne reads the row and computes the new state from it.
ReadRow(r) ==
    LET i == Item(r)
        s == IF row[i.problem] = NoRow THEN Zero ELSE row[i.problem]
    IN  /\ At(r, "read")
        /\ i.type # "undo"
        /\ req' = [req EXCEPT ![r].pc = "write", ![r].base = s,
                              ![r].next = ComputeNewState(s, i.type)]
        /\ UNCHANGED <<row, log, verified, gate, clock, answers, raced>>

\* applyOne for an undo: without a row there is no history; otherwise the
\* log is read next.
ReadForUndo(r) ==
    LET p == Item(r).problem
    IN  /\ At(r, "read")
        /\ Item(r).type = "undo"
        /\ req' = [req EXCEPT ![r] =
                     IF row[p] = NoRow THEN Advance(r)
                     ELSE [@ EXCEPT !.pc = "history", !.base = row[p]]]
        /\ UNCHANGED <<row, log, verified, gate, clock, answers, raced>>

\* The new state of an undo is the before of the latest log entry.
ReadHistory(r) ==
    /\ At(r, "history")
    /\ req' = [req EXCEPT ![r].pc = "write",
                          ![r].next = log[LatestLog(Item(r).problem)].before]
    /\ UNCHANGED <<row, log, verified, gate, clock, answers, raced>>

\* Mutant of BeginTx: the time is not set.
BeginTxUnstamped(r) ==
    /\ At(r, "write")
    /\ clock < MaxTx
    /\ clock' = clock + 1
    /\ req' = [req EXCEPT ![r].pc = "tx"]
    /\ UNCHANGED <<row, log, verified, gate, answers, raced>>

\* ApplyAction begins its transaction, which fixes now().
BeginTx(r) ==
    /\ At(r, "write")
    /\ clock < MaxTx
    /\ clock' = clock + 1
    /\ req' = [req EXCEPT ![r].pc = "tx", ![r].at = clock + 1]
    /\ UNCHANGED <<row, log, verified, gate, answers, raced>>

\* ApplyAction upserts the absolute state and appends the entry, unless the
\* unique index on the key refuses it.
Commit(r) ==
    LET i == Item(r)
    IN  /\ At(r, "tx")
        /\ IndexAdmits(i.key)
        /\ row' = [row EXCEPT ![i.problem] = req[r].next]
        /\ log' = Append(log, NewEntry(r))
        /\ answers' = Answer(i.key, req[r].next)
        /\ req' = [req EXCEPT ![r] = Advance(r)]
        /\ UNCHANGED <<verified, gate, clock, raced>>

\* Mutant of RollBack: the upsert is not part of the transaction.
RollBackKeepsUpsert(r) ==
    /\ At(r, "tx")
    /\ ~IndexAdmits(Item(r).key)
    /\ row' = [row EXCEPT ![Item(r).problem] = req[r].next]
    /\ req' = [req EXCEPT ![r].pc = "replay"]
    /\ UNCHANGED <<log, verified, gate, clock, answers, raced>>

\* ErrIdempotencyKeyExists: the transaction is rolled back with the upsert.
RollBack(r) ==
    /\ At(r, "tx")
    /\ ~IndexAdmits(Item(r).key)
    /\ req' = [req EXCEPT ![r].pc = "replay"]
    /\ UNCHANGED <<row, log, verified, gate, clock, answers, raced>>

\* The retry that won the race has its result sent again.
ReplayWinner(r) ==
    /\ At(r, "replay")
    /\ \E n \in KeyEntry(Item(r).key) :
          answers' = Answer(Item(r).key, LoggedResult(n))
    /\ req' = [req EXCEPT ![r] = Advance(r)]
    /\ UNCHANGED <<row, log, verified, gate, clock, raced>>

\* A statement fails: the item is rejected as a server error, the batch goes
\* on.
Fail(r) ==
    /\ req[r].pc \in {"read", "history", "write", "tx", "replay"}
    /\ req' = [req EXCEPT ![r] = Advance(r)]
    /\ UNCHANGED <<row, log, verified, gate, clock, answers, raced>>

\* The batch is done; or the instance dies or the client hangs up, which
\* cancels what the request has not committed.
End(r) ==
    /\ ~At(r, "free")
    /\ req' = [req EXCEPT ![r] = Free]
    /\ UNCHANGED <<row, log, verified, gate, clock, answers, raced>>

-----------------------------------------------------------------------------
(* Staff and time. *)

\* OverrideAttempt: the row is read, and replaced wholesale by ApplyAction.
Override(r, p, s) ==
    /\ At(r, "free")
    /\ row[p] # NoRow
    /\ req' = [req EXCEPT ![r] =
                 [Free EXCEPT !.pc = "write",
                              !.batch = <<[problem |-> p, type |-> "override",
                                           key |-> NoKey]>>,
                              !.item = 1, !.base = row[p], !.next = s]]
    /\ Race(r)
    /\ UNCHANGED <<row, log, verified, gate, clock, answers>>

\* VerifyAttempt: the row is stamped; no log entry is written.
VerifyAttempt(p) ==
    /\ row[p] # NoRow
    /\ verified' = verified \cup {p}
    /\ UNCHANGED <<row, log, gate, req, clock, answers, raced>>

\* The event ends or is moved; the competition is closed or reopened, the
\* registration withdrawn.
SetGate(g) ==
    /\ g # gate
    /\ gate' = g
    /\ UNCHANGED <<row, log, verified, req, clock, answers, raced>>

-----------------------------------------------------------------------------

RequestStep(r) ==
    \/ ReplayIfCached(r)
    \/ Reject(r)
    \/ Accept(r)
    \/ ReadRow(r)
    \/ ReadForUndo(r)
    \/ ReadHistory(r)
    \/ BeginTx(r)
    \/ Commit(r)
    \/ RollBack(r)
    \/ ReplayWinner(r)
    \/ Fail(r)
    \/ End(r)

Next ==
    \/ \E r \in Requests :
          \/ \E b \in Batches : Submit(r, b)
          \/ \E p \in Problems, s \in OverrideStates : Override(r, p, s)
          \/ RequestStep(r)
    \/ \E p \in Problems : VerifyAttempt(p)
    \/ \E g \in {"open", "ended", "shut"} : SetGate(g)

Spec == Init /\ [][Next]_vars

-----------------------------------------------------------------------------

\* A scoreable state: a top has a zone, a zone was reached on one of the
\* attempts made, and there is a zone count exactly when there is a zone.
Coherent(s) ==
    /\ s.top => s.zone
    /\ s.zone <=> s.zoneAttempts # Unset
    /\ s.zone => s.zoneAttempts \in 1 .. s.attempts

TypeOK ==
    /\ row \in [Problems -> State \cup {NoRow}]
    /\ \A n \in DOMAIN log :
          /\ log[n].problem \in Problems
          /\ log[n].before \in State
          /\ log[n].after \in State
          /\ log[n].at \in 1 .. clock
    /\ verified \subseteq Problems
    /\ gate \in {"open", "ended", "shut"}
    /\ \A r \in Requests :
          /\ req[r].base \in State
          /\ req[r].next \in State
          /\ req[r].pc \in {"free", "item", "read", "history", "write", "tx",
                            "replay"}
    /\ clock \in 0 .. MaxTx
    /\ raced \in BOOLEAN

\* The table and the log move together: the row is the after of the last
\* entry written for it, and there is a row exactly when there is an entry,
\* whatever transactions were rolled back (ApplyAction).
RowIsLastWrite ==
    \A p \in Problems :
        IF row[p] = NoRow THEN Entries(p) = {}
        ELSE /\ Entries(p) # {}
             /\ row[p] = log[LastWrite(p)].after

\* A key never takes effect twice, however many requests carry it at once
\* (replayIfCached, the unique index and its error path).
KeyTakesEffectOnce ==
    \A m, n \in DOMAIN log : log[m].key = log[n].key /\ log[m].key # NoKey
                             => m = n

\* Every answer to a keyed action, the first one, a replay from the log long
\* after, or the replay of a lost race, reports the same state: the one the
\* action produced, not the one the row has by now.
AnswersAgree ==
    \A a \in answers : \E n \in KeyEntry(a.key) : log[n].after = a.state

\* As long as staff assert coherent states, what the scorers read is
\* coherent, also after undos that restored a before which a concurrent
\* request had outdated.
ScoresCoherent ==
    (\A s \in OverrideStates : Coherent(s))
    => \A p \in Problems : row[p] # NoRow => Coherent(row[p])

\* An undo takes back exactly the write before it, unless that write was an
\* undo itself: then it brings back what that one had taken.  Either way the
\* row returns to where it was two entries ago (applyOne).
UndoReturns ==
    \A n \in 2 .. Len(log) :
        /\ log[n].action = "undo"
        /\ log[n - 1].problem = log[n].problem
        => log[n].after = log[n - 1].before

\* LatestLogForAttempt "returns the most recent log entry, used to drive undo"
\* (competition_attempt.go:163-164): the entry that made the row what it is.
LatestLogIsLastWrite ==
    \A p \in Problems : Entries(p) # {} => LatestLog(p) = LastWrite(p)

\* The log "records every action that produced that state"
\* (000034_competition_attempts.up.sql:5-6): each entry starts where the one
\* before it left the row.
LogIsChained ==
    \A m, n \in DOMAIN log :
        /\ m < n
        /\ log[m].problem = log[n].problem
        /\ \A k \in m + 1 .. n - 1 : log[k].problem # log[n].problem
        => log[n].before = log[m].after

\* What a request reports of a row, and to whom, agrees with the row's history:
\* types, the row and its last entry, and every answer given to one key
\* (ApplyAction, replayIfCached).
RowsHold == TypeOK /\ RowIsLastWrite /\ AnswersAgree

\* As long as no two requests were between look-up and commit at once, the log of a
\* problem is a chain, undo finds its last write and returns to where the row
\* was, for any mixture of taps, undos, resets, overrides and failures
\* (applyOne, OverrideAttempt, LatestLogForAttempt).
UnracedLogHolds ==
    raced \/ (LogIsChained /\ LatestLogIsLastWrite /\ UndoReturns)
=============================================================================
