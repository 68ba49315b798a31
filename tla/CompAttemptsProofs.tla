-------------------------- MODULE CompAttemptsProofs --------------------------
(***************************************************************************)
(* The scorecard of CompAttempts for any number of requests, problems,     *)
(* batches and transactions.                                               *)
(***************************************************************************)
EXTENDS CompAttempts, TLAPS

Actions == ClimberActions \cup {"override"}
Keys    == {NoKey} \cup UNION {{b[n].key : n \in DOMAIN b} : b \in Batches}
Busy    == {"read", "history", "write", "tx", "replay"}

OverrideBatches ==
    {<<[problem |-> p, type |-> "override", key |-> NoKey]>> : p \in Problems}

AllBatches == Batches \cup OverrideBatches \cup {<<>>}

Entry == [problem : Problems, action : Actions, key : Keys, at : Nat,
          before : State, after : State]

Request == [pc : {"free", "item"} \cup Busy, batch : AllBatches,
            inTime : BOOLEAN, item : Nat, base : State, next : State, at : Nat]

\* Where a request is in its batch: an item it works on is one of the batch and
\* of a problem of the competition, an override has nothing to look up, and a
\* transaction has its time.
Placed(q) ==
    /\ q.pc = "item" => q.item >= 1
    /\ q.pc \in Busy => /\ q.item \in 1 .. Len(q.batch)
                        /\ q.batch[q.item].problem \in Problems
    /\ q.batch \in OverrideBatches => /\ q.pc \notin {"read", "history"}
                                      /\ q.pc = "item" => q.item >= 2
    /\ q.pc = "tx" => q.at \in 1 .. clock

Shape ==
    /\ req \in [Requests -> Request]
    /\ \A r \in Requests : Placed(req[r])
    /\ log \in Seq(Entry)
    /\ clock \in 0 .. MaxTx
    /\ \A n \in DOMAIN log : log[n].at \in 1 .. clock
    /\ row \in [Problems -> State \cup {NoRow}]
    /\ verified \subseteq Problems
    /\ gate \in {"open", "ended", "shut"}
    /\ raced \in BOOLEAN

\* The entry that made the row what it is, and one that LatestLog may find: that
\* a finite set has a greatest element is carried along.
IsLast(p, n) == n \in Entries(p) /\ \A m \in Entries(p) : m <= n
IsLatest(p, n) == n \in Entries(p) /\ \A m \in Entries(p) : log[m].at <= log[n].at

Written(p) ==
    IF row[p] = NoRow THEN Entries(p) = {}
    ELSE /\ \E n \in DOMAIN log : IsLast(p, n) /\ row[p] = log[n].after
         /\ \E n \in DOMAIN log : IsLatest(p, n)

Recorded ==
    /\ \A p \in Problems : Written(p)
    /\ \A r \in Requests : At(r, "history") => row[Item(r).problem] # NoRow

CardInv == Shape /\ Recorded /\ KeyTakesEffectOnce /\ AnswersAgree

-----------------------------------------------------------------------------
(* Batches, states and the log. *)

\* What every batch a request carries looks like.
LEMMA BatchShape ==
    \A b \in AllBatches :
        /\ Len(b) \in Nat
        /\ DOMAIN b = 1 .. Len(b)
        /\ \A n \in 1 .. Len(b) : b[n].type \in Actions /\ b[n].key \in Keys
        /\ b \in Batches => \A n \in 1 .. Len(b) : b[n].type \in ClimberActions
        /\ b \in Batches => b \notin OverrideBatches
        /\ b \in OverrideBatches => Len(b) = 1
        /\ b = <<>> => Len(b) = 0
<1>1. ASSUME NEW b \in Batches
      PROVE  /\ Len(b) \in Nat
             /\ DOMAIN b = 1 .. Len(b)
             /\ \A n \in 1 .. Len(b) : b[n].type \in ClimberActions
             /\ \A n \in 1 .. Len(b) : b[n].key \in Keys
  <2>1. b \in Seq({b[n] : n \in DOMAIN b})
    BY CompAttemptsAssumption
  <2>2. Len(b) \in Nat /\ DOMAIN b = 1 .. Len(b)
    BY <2>1
  <2>3. \A n \in 1 .. Len(b) : b[n].type \in ClimberActions
    BY <2>2, CompAttemptsAssumption DEF IsItem
  <2>4. \A n \in 1 .. Len(b) : b[n].key \in Keys
    BY <2>2 DEF Keys
  <2>5. QED
    BY <2>2, <2>3, <2>4
<1>2. ASSUME NEW b \in OverrideBatches
      PROVE  /\ Len(b) = 1
             /\ DOMAIN b = 1 .. 1
             /\ b[1].type = "override" /\ b[1].key = NoKey
  BY DEF OverrideBatches
<1>3. \A b \in OverrideBatches : b \notin Batches
  BY <1>1, <1>2 DEF ClimberActions
<1>4. Len(<<>>) = 0 /\ DOMAIN <<>> = 1 .. 0
  OBVIOUS
<1>5. <<>> \notin OverrideBatches
  BY <1>2, <1>4
<1>6. QED
  BY <1>1, <1>2, <1>3, <1>4, <1>5 DEF AllBatches, Actions, Keys

\* A new state is a state.
LEMMA NewState ==
    ASSUME NEW s \in State, NEW type \in ClimberActions, type # "undo"
    PROVE  ComputeNewState(s, type) \in State
<1> DEFINE tried == IF s.attempts < 1 THEN 1 ELSE s.attempts
           zoned == IF s.zone THEN s.zoneAttempts ELSE tried
<1>1. s.attempts \in Nat /\ s.zoneAttempts \in Nat \cup {Unset}
  BY DEF State
<1>2. tried \in Nat /\ zoned \in Nat \cup {Unset}
  BY <1>1
<1>3. CASE type = "increment"
  <2>1. ComputeNewState(s, type) = [s EXCEPT !.attempts = @ + 1]
    BY <1>3 DEF ComputeNewState
  <2>2. s.attempts + 1 \in Nat
    BY <1>1
  <2>3. QED
    BY <2>1, <2>2 DEF State
<1>4. CASE type = "zone"
  <2>1. ComputeNewState(s, type)
          = [s EXCEPT !.attempts = tried, !.zone = TRUE, !.zoneAttempts = tried]
    BY <1>4 DEF ComputeNewState
  <2> HIDE DEF tried
  <2>2. QED
    BY <2>1, <1>2 DEF State
<1>5. CASE type = "top"
  <2>1. ComputeNewState(s, type)
          = [s EXCEPT !.attempts = tried, !.top = TRUE, !.zone = TRUE,
                      !.zoneAttempts = zoned]
    BY <1>5 DEF ComputeNewState
  <2> HIDE DEF tried, zoned
  <2>2. QED
    BY <2>1, <1>2 DEF State
<1>6. CASE type = "reset"
  <2>1. ComputeNewState(s, type) = Zero
    BY <1>6 DEF ComputeNewState
  <2>2. QED
    BY <2>1 DEF Zero, State, Unset
<1>7. QED
  BY <1>3, <1>4, <1>5, <1>6 DEF ClimberActions

\* A problem never attempted has a state.
LEMMA ZeroState == Zero \in State
  BY DEF Zero, State, Unset

\* What appending one entry does to the log.
LEMMA Appended ==
    ASSUME NEW s \in Seq(Entry), NEW e \in Entry
    PROVE  /\ Append(s, e) \in Seq(Entry)
           /\ Len(s) \in Nat
           /\ DOMAIN s = 1 .. Len(s)
           /\ DOMAIN Append(s, e) = 1 .. Len(s) + 1
           /\ \A n \in DOMAIN s : Append(s, e)[n] = s[n]
           /\ Append(s, e)[Len(s) + 1] = e
  OBVIOUS
-----------------------------------------------------------------------------
(* Requests. *)

\* The item a request works on is well formed, and only a climber's item is
\* looked up.
LEMMA ItemShape ==
    ASSUME Shape, NEW r \in Requests, req[r].pc \in Busy
    PROVE  /\ Item(r).problem \in Problems
           /\ Item(r).type \in Actions /\ Item(r).key \in Keys
           /\ req[r].pc \in {"read", "history"} => Item(r).type \in ClimberActions
<1>1. req[r] \in Request /\ Placed(req[r])
  BY DEF Shape
<1>2. req[r].batch \in AllBatches /\ req[r].item \in 1 .. Len(req[r].batch)
  BY <1>1 DEF Placed, Request
<1>3. req[r].pc \in {"read", "history"} => req[r].batch \in Batches
  BY <1>1, <1>2, BatchShape DEF Placed, AllBatches
<1>4. QED
  BY <1>1, <1>2, <1>3, BatchShape DEF Placed, Item

\* An item that is left to look at is a climber's.
LEMMA NextItemShape ==
    ASSUME Shape, NEW r \in Requests, At(r, "item"),
           req[r].item <= Len(req[r].batch)
    PROVE  req[r].batch \in Batches /\ req[r].item \in 1 .. Len(req[r].batch)
<1>1. req[r] \in Request /\ Placed(req[r])
  BY DEF Shape
<1>2. req[r].batch \in AllBatches /\ req[r].item \in Nat /\ req[r].item >= 1
  BY <1>1 DEF Placed, Request, At
<1>3. Len(req[r].batch) \in Nat
  BY <1>2, BatchShape
<1>4. req[r].batch \notin OverrideBatches /\ req[r].batch # <<>>
  BY <1>1, <1>2, <1>3, BatchShape DEF Placed, At
<1>5. QED
  BY <1>2, <1>3, <1>4 DEF AllBatches

\* A request that carries nothing is one.
LEMMA FreeShape == Free \in Request /\ Placed(Free)
  BY ZeroState, BatchShape DEF Free, Request, Placed, Busy, AllBatches

\* Going on to the next item, or to the answer, keeps a request well formed.
LEMMA AdvanceShape ==
    ASSUME Shape, NEW r \in Requests, ~At(r, "free")
    PROVE  Advance(r) \in Request /\ Placed(Advance(r))
<1>1. req[r] \in Request /\ Placed(req[r])
  BY DEF Shape
<1>2. req[r].item \in Nat /\ req[r].item >= 1
  BY <1>1, BatchShape DEF Request, Placed, At, Busy
<1>3. Advance(r) = [req[r] EXCEPT !.item = req[r].item + 1, !.pc = "item",
                                  !.base = Zero, !.next = Zero, !.at = 0]
  BY DEF Advance
<1>4. Advance(r) \in Request
  <2>1. ASSUME NEW q \in Request, NEW i \in Nat, NEW s \in State
        PROVE  [q EXCEPT !.item = i, !.pc = "item", !.base = s, !.next = s,
                         !.at = 0] \in Request
    BY DEF Request, Busy
  <2> DEFINE q == req[r]
             i == req[r].item + 1
  <2>2. q \in Request /\ i \in Nat
    BY <1>1, <1>2
  <2>3. Advance(r) = [q EXCEPT !.item = i, !.pc = "item", !.base = Zero,
                               !.next = Zero, !.at = 0]
    BY <1>3
  <2> HIDE DEF q, i
  <2>4. [q EXCEPT !.item = i, !.pc = "item", !.base = Zero, !.next = Zero,
                  !.at = 0] \in Request
    BY <2>1, <2>2, ZeroState
  <2>5. QED
    BY <2>3, <2>4
<1>5. Advance(r).item = req[r].item + 1 /\ Advance(r).pc = "item"
  BY <1>1, <1>3 DEF Request
<1>6. QED
  BY <1>2, <1>4, <1>5 DEF Placed, Busy

\* A step that moves one request and leaves the tables alone.
LEMMA RequestMoves ==
    ASSUME Shape, NEW r \in Requests, NEW q \in Request, Placed(q),
           req' = [req EXCEPT ![r] = q],
           UNCHANGED <<row, log, verified, gate, clock>>, raced' \in BOOLEAN
    PROVE  Shape'
  BY DEF Shape, Placed

\* The history of races stays a Boolean.
LEMMA RaceShape ==
    ASSUME NEW r \in Requests, raced \in BOOLEAN, Race(r)
    PROVE  raced' \in BOOLEAN
  BY DEF Race

-----------------------------------------------------------------------------
(* Types. *)

\* The types hold at the start...
LEMMA ShapeInit == Init => Shape
<1> SUFFICES ASSUME Init
             PROVE  Shape
  OBVIOUS
<1>1. req \in [Requests -> Request] /\ \A r \in Requests : Placed(req[r])
  BY FreeShape DEF Init
<1>2. log \in Seq(Entry) /\ DOMAIN log = {}
  BY DEF Init
<1>3. clock \in 0 .. MaxTx
  BY CompAttemptsAssumption DEF Init
<1>4. row \in [Problems -> State \cup {NoRow}]
  BY DEF Init
<1>5. QED
  BY <1>1, <1>2, <1>3, <1>4 DEF Init, Shape

\* ... and every step keeps them.
LEMMA ShapeStep == Shape /\ Recorded /\ [Next]_vars => Shape'
<1> SUFFICES ASSUME Shape, Recorded, [Next]_vars
             PROVE  Shape'
  OBVIOUS
<1>1. ASSUME NEW r \in Requests, NEW b \in Batches, Submit(r, b)
      PROVE  Shape'
  <2> DEFINE q == [Free EXCEPT !.pc = "item", !.batch = b, !.item = 1,
                               !.inTime = (gate = "open")]
  <2>1. q \in Request
    BY FreeShape, ZeroState DEF Request, AllBatches
  <2>2. Placed(q)
    BY BatchShape, FreeShape DEF Placed, Busy, Free, AllBatches
  <2>3. QED
    BY <1>1, <2>1, <2>2, RequestMoves DEF Submit, Shape
<1>2. ASSUME NEW r \in Requests, ReplayIfCached(r) \/ Reject(r) \/ ReplayWinner(r) \/ Fail(r)
      PROVE  Shape'
  BY <1>2, AdvanceShape, RequestMoves
     DEF ReplayIfCached, Reject, ReplayWinner, Fail, At, Shape
<1>3. ASSUME NEW r \in Requests, Accept(r)
      PROVE  Shape'
  <2> DEFINE q == [req[r] EXCEPT !.pc = "read"]
  <2>1. req[r] \in Request /\ Placed(req[r])
    BY DEF Shape
  <2>2. req[r].batch \in Batches /\ req[r].item \in 1 .. Len(req[r].batch)
    BY <1>3, NextItemShape DEF Accept
  <2>3. q \in Request
    BY <2>1 DEF Request, Busy
  <2>4. req[r].batch \notin OverrideBatches
    BY <2>1, <2>2, NextItemShape, <1>3, BatchShape DEF Placed, Accept, At, AllBatches
  <2>5. Placed(q)
    BY <1>3, <2>1, <2>2, <2>4 DEF Placed, Accept, Item, Request, Busy
  <2>6. req' = [req EXCEPT ![r] = q]
    BY <1>3 DEF Accept
  <2>7. QED
    BY <1>3, <2>3, <2>5, <2>6, RequestMoves, RaceShape DEF Accept, Shape
<1>4. ASSUME NEW r \in Requests, ReadRow(r)
      PROVE  Shape'
  <2> DEFINE i == Item(r)
             s == IF row[i.problem] = NoRow THEN Zero ELSE row[i.problem]
             q == [req[r] EXCEPT !.pc = "write", !.base = s,
                                 !.next = ComputeNewState(s, i.type)]
  <2>1. req[r] \in Request /\ Placed(req[r])
    BY DEF Shape
  <2>2. i.problem \in Problems /\ i.type \in ClimberActions /\ i.type # "undo"
    BY <1>4, ItemShape DEF ReadRow, At, Busy
  <2>3. s \in State
    BY <2>2, ZeroState DEF Shape
  <2>4. ComputeNewState(s, i.type) \in State
    BY <2>2, <2>3, NewState
  <2>5. req' = [req EXCEPT ![r] = q]
    BY <1>4 DEF ReadRow
  <2> HIDE DEF s, i
  <2>6. q \in Request
    BY <2>1, <2>3, <2>4 DEF Request, Busy
  <2>7. Placed(q)
    BY <1>4, <2>1 DEF Placed, ReadRow, At, Request, Busy
  <2>8. QED
    BY <1>4, <2>5, <2>6, <2>7, RequestMoves DEF ReadRow, Shape
<1>5. ASSUME NEW r \in Requests, ReadForUndo(r)
      PROVE  Shape'
  <2> DEFINE p == Item(r).problem
             q == [req[r] EXCEPT !.pc = "history", !.base = row[p]]
  <2>1. req[r] \in Request /\ Placed(req[r])
    BY DEF Shape
  <2>2. p \in Problems
    BY <1>5, ItemShape DEF ReadForUndo, At, Busy
  <2>3. CASE row[p] = NoRow
    BY <1>5, <2>3, AdvanceShape, RequestMoves DEF ReadForUndo, At, Shape
  <2>4. CASE row[p] # NoRow
    <3>1. row[p] \in State
      BY <2>2, <2>4 DEF Shape
    <3>2. req' = [req EXCEPT ![r] = q]
      BY <1>5, <2>4 DEF ReadForUndo
    <3> HIDE DEF p
    <3>3. q \in Request
      BY <2>1, <3>1 DEF Request, Busy
    <3>4. Placed(q)
      BY <1>5, <2>1 DEF Placed, ReadForUndo, At, Request, Busy
    <3>5. QED
      BY <1>5, <3>2, <3>3, <3>4, RequestMoves DEF ReadForUndo, Shape
  <2>5. QED
    BY <2>3, <2>4
<1>6. ASSUME NEW r \in Requests, ReadHistory(r)
      PROVE  Shape'
  <2> DEFINE p == Item(r).problem
             q == [req[r] EXCEPT !.pc = "write", !.next = log[LatestLog(p)].before]
  <2>1. req[r] \in Request /\ Placed(req[r])
    BY DEF Shape
  <2>2. p \in Problems /\ row[p] # NoRow
    BY <1>6, ItemShape DEF ReadHistory, At, Busy, Recorded
  <2>3. PICK n \in DOMAIN log : IsLatest(p, n)
    BY <2>2 DEF Recorded, Written
  <2>4. LatestLog(p) \in DOMAIN log
    BY <2>3 DEF LatestLog, IsLatest, Entries
  <2>5. log[LatestLog(p)].before \in State
    <3>1. log[LatestLog(p)] \in Entry
      BY <2>4 DEF Shape
    <3>2. QED
      BY <3>1 DEF Entry
  <2>6. req' = [req EXCEPT ![r] = q]
    BY <1>6 DEF ReadHistory
  <2> HIDE DEF p
  <2>7. q \in Request
    BY <2>1, <2>5 DEF Request, Busy
  <2>8. Placed(q)
    BY <1>6, <2>1 DEF Placed, ReadHistory, At, Request, Busy
  <2>9. QED
    BY <1>6, <2>6, <2>7, <2>8, RequestMoves DEF ReadHistory, Shape
<1>7. ASSUME NEW r \in Requests, BeginTx(r)
      PROVE  Shape'
  <2> DEFINE q == [req[r] EXCEPT !.pc = "tx", !.at = clock + 1]
  <2>1. req[r] \in Request /\ Placed(req[r])
    BY DEF Shape
  <2>2. req' = [req EXCEPT ![r] = q] /\ clock' = clock + 1
    BY <1>7 DEF BeginTx
  <2>3. clock \in Nat /\ clock + 1 \in Nat /\ clock' \in 0 .. MaxTx
    BY <1>7, <2>2, CompAttemptsAssumption DEF BeginTx, Shape
  <2>4. q \in Request
    BY <2>1, <2>3 DEF Request, Busy
  <2>5. q.at = clock + 1 /\ q.pc = "tx" /\ q.item = req[r].item /\ q.batch = req[r].batch
    BY <2>1 DEF Request
  <2>6. /\ req[r].item \in 1 .. Len(req[r].batch)
        /\ req[r].batch[req[r].item].problem \in Problems
    BY <1>7, <2>1 DEF Placed, BeginTx, At, Busy
  <2>7. Placed(req[r])'
    <3>1. req'[r] = q
      BY <2>2 DEF Shape
    <3>2. q.batch \in OverrideBatches => q.pc \notin {"read", "history", "item"}
      BY <2>5
    <3> HIDE DEF q
    <3>3. QED
      BY <2>2, <2>3, <2>5, <2>6, <3>1, <3>2 DEF Placed
  <2>8. \A o \in Requests \ {r} : Placed(req[o])'
    BY <2>2, <2>3 DEF Placed, Shape
  <2>9. req' \in [Requests -> Request] /\ \A o \in Requests : Placed(req[o])'
    BY <2>2, <2>4, <2>7, <2>8 DEF Shape
  <2>10. \A n \in DOMAIN log : log[n].at \in 1 .. clock'
    BY <2>2, <2>3 DEF Shape
  <2>11. QED
    BY <1>7, <2>2, <2>3, <2>9, <2>10 DEF BeginTx, Shape
<1>8. ASSUME NEW r \in Requests, Commit(r)
      PROVE  Shape'
  <2>1. req[r] \in Request /\ Placed(req[r]) /\ req[r].pc = "tx"
    BY <1>8 DEF Shape, Commit, At
  <2>2. /\ Item(r).problem \in Problems
        /\ Item(r).type \in Actions /\ Item(r).key \in Keys
    BY <2>1, ItemShape DEF Busy
  <2>3. NewEntry(r) \in Entry /\ NewEntry(r).at \in 1 .. clock
    BY <2>1, <2>2 DEF NewEntry, Entry, Request, Placed
  <2>4. /\ log' \in Seq(Entry)
        /\ \A n \in DOMAIN log' : log'[n].at \in 1 .. clock
    BY <1>8, <2>3, Appended DEF Commit, Shape
  <2>5. row' \in [Problems -> State \cup {NoRow}]
    BY <1>8, <2>1, <2>2 DEF Commit, Shape, Request
  <2>6. Advance(r) \in Request /\ Placed(Advance(r))
    BY <2>1, AdvanceShape DEF At
  <2>7. /\ req' \in [Requests -> Request]
        /\ \A o \in Requests : Placed(req'[o])
    BY <1>8, <2>6 DEF Commit, Shape
  <2>8. \A o \in Requests : Placed(req[o])'
    BY <1>8, <2>7 DEF Placed, Commit
  <2>9. QED
    BY <1>8, <2>4, <2>5, <2>7, <2>8 DEF Commit, Shape
<1>9. ASSUME NEW r \in Requests, RollBack(r)
      PROVE  Shape'
  <2> DEFINE q == [req[r] EXCEPT !.pc = "replay"]
  <2>1. req[r] \in Request /\ Placed(req[r])
    BY DEF Shape
  <2>2. q \in Request
    BY <2>1 DEF Request, Busy
  <2>3. Placed(q)
    BY <1>9, <2>1 DEF Placed, RollBack, At, Request, Busy
  <2>4. QED
    BY <1>9, <2>2, <2>3, RequestMoves DEF RollBack, Shape
<1>10. ASSUME NEW r \in Requests, End(r)
       PROVE  Shape'
  BY <1>10, FreeShape, RequestMoves DEF End, Shape
<1>11. ASSUME NEW r \in Requests, NEW p \in Problems, NEW s \in OverrideStates,
              Override(r, p, s)
       PROVE  Shape'
  <2> DEFINE b == <<[problem |-> p, type |-> "override", key |-> NoKey]>>
             q == [Free EXCEPT !.pc = "write", !.batch = b, !.item = 1,
                               !.base = row[p], !.next = s]
  <2>1. b \in OverrideBatches /\ Len(b) = 1 /\ b[1].problem = p
    BY DEF OverrideBatches
  <2>2. row[p] \in State /\ s \in State
    BY <1>11, CompAttemptsAssumption DEF Override, Shape
  <2>3. q \in Request
    BY <2>1, <2>2, FreeShape DEF Request, Busy, AllBatches
  <2>4. Placed(q)
    BY <2>1, FreeShape DEF Placed, Busy, Free
  <2>5. QED
    BY <1>11, <2>3, <2>4, RequestMoves, RaceShape DEF Override, Shape
<1>12. ASSUME NEW p \in Problems, VerifyAttempt(p)
       PROVE  Shape'
  BY <1>12 DEF VerifyAttempt, Shape, Placed
<1>13. ASSUME NEW g \in {"open", "ended", "shut"}, SetGate(g)
       PROVE  Shape'
  BY <1>13 DEF SetGate, Shape, Placed
<1>14. CASE UNCHANGED vars
  BY <1>14 DEF vars, Shape, Placed
<1>15. QED
  BY <1>1, <1>2, <1>3, <1>4, <1>5, <1>6, <1>7, <1>8, <1>9, <1>10, <1>11,
     <1>12, <1>13, <1>14 DEF Next, RequestStep
-----------------------------------------------------------------------------
(* The row, its entries, the keys and the answers. *)

\* No row, no entry and no answer at the start.
LEMMA RecordedInit == Init => Recorded /\ KeyTakesEffectOnce /\ AnswersAgree
<1> SUFFICES ASSUME Init
             PROVE  Recorded /\ KeyTakesEffectOnce /\ AnswersAgree
  OBVIOUS
<1>1. log = <<>> /\ DOMAIN log = {}
  BY DEF Init
<1>2. \A p \in Problems : Written(p)
  BY <1>1 DEF Init, Written, Entries
<1>3. \A r \in Requests : ~At(r, "history")
  BY DEF Init, Free, At
<1>4. QED
  BY <1>1, <1>2, <1>3 DEF Init, Recorded, KeyTakesEffectOnce, AnswersAgree

\* A step that commits nothing: the row and the log stand, and whoever goes on
\* to the history has seen a row.
LEMMA NothingCommitted ==
    ASSUME Recorded, KeyTakesEffectOnce, UNCHANGED <<row, log>>,
           \A r \in Requests :
              At(r, "history")' => \/ At(r, "history") /\ Item(r)' = Item(r)
                                   \/ row[Item(r)'.problem] # NoRow
    PROVE  Recorded' /\ KeyTakesEffectOnce'
<1>1. \A p \in Problems : Written(p)'
  BY DEF Recorded, Written, IsLast, IsLatest, Entries
<1>2. \A r \in Requests : At(r, "history")' => row'[Item(r)'.problem] # NoRow
  BY DEF Recorded
<1>3. QED
  BY <1>1, <1>2 DEF Recorded, KeyTakesEffectOnce

\* Every answer sent again is one the log still gives.
LEMMA AnswersStand ==
    ASSUME AnswersAgree, UNCHANGED log,
           \A a \in answers' \ answers :
              \E n \in KeyEntry(a.key) : log[n].after = a.state
    PROVE  AnswersAgree'
  BY DEF AnswersAgree, KeyEntry

\* A replay answers what the entry of its key says.
LEMMA Replayed ==
    ASSUME AnswersAgree, UNCHANGED log, NEW k, NEW n \in KeyEntry(k),
           answers' = Answer(k, LoggedResult(n))
    PROVE  AnswersAgree'
<1>1. \A a \in answers' \ answers : a.key = k /\ a.state = log[n].after
  BY DEF Answer, LoggedResult
<1>2. QED
  BY <1>1, AnswersStand

\* A commit appends the one entry that makes the row what it is, under a key
\* that no entry had.
LEMMA CommitRecords ==
    ASSUME CardInv, NEW r \in Requests, Commit(r)
    PROVE  Recorded' /\ KeyTakesEffectOnce' /\ AnswersAgree'
<1>0. PICK p, e, last : /\ p = Item(r).problem /\ e = NewEntry(r)
                        /\ last = Len(log) + 1
  OBVIOUS
<1>1. req[r] \in Request /\ Placed(req[r]) /\ req[r].pc = "tx"
  BY DEF CardInv, Shape, Commit, At
<1>2. /\ p \in Problems
      /\ Item(r).type \in Actions /\ Item(r).key \in Keys
  BY <1>0, <1>1, ItemShape DEF Busy, CardInv
<1>3. /\ e \in Entry /\ e.problem = p /\ e.after = req[r].next
      /\ e.key = Item(r).key /\ e.at \in Nat
  BY <1>0, <1>1, <1>2 DEF NewEntry, Entry, Request
<1>4. /\ log' = Append(log, e) /\ row' = [row EXCEPT ![p] = req[r].next]
      /\ answers' = Answer(Item(r).key, req[r].next)
      /\ KeyEntry(Item(r).key) = {}
  BY <1>0 DEF Commit, IndexAdmits
<1>5. /\ log \in Seq(Entry)
      /\ Len(log) \in Nat
      /\ DOMAIN log = 1 .. Len(log)
      /\ DOMAIN log' = 1 .. last
      /\ \A n \in DOMAIN log : log'[n] = log[n]
      /\ log'[last] = e
  BY <1>0, <1>3, <1>4, Appended DEF CardInv, Shape
<1>6. \A n \in DOMAIN log : log[n].at \in Nat
  BY DEF CardInv, Shape
<1>7. row'[p] = req[r].next /\ row'[p] # NoRow
  <2>1. req[r].next \in State /\ p \in DOMAIN row
    BY <1>1, <1>2 DEF Request, CardInv, Shape
  <2>2. QED
    BY <1>4, <2>1, CompAttemptsAssumption
<1>8. /\ last = Len(log) + 1
      /\ last \notin DOMAIN log /\ \A n \in DOMAIN log : n < last
  BY <1>0, <1>5
<1>9. DOMAIN log' = DOMAIN log \cup {last}
  BY <1>5, <1>8
<1>10. \A q : Entries(q)' = IF q = p THEN Entries(q) \cup {last} ELSE Entries(q)
  BY <1>3, <1>5, <1>8, <1>9 DEF Entries
<1>11. Written(p)'
  <2>1. IsLast(p, last)' /\ row'[p] = log'[last].after
    BY <1>3, <1>5, <1>7, <1>8, <1>10 DEF IsLast, Entries
  <2>2. \E n \in DOMAIN log' : IsLatest(p, n)'
    <3>1. CASE Entries(p) = {}
      <4>1. Entries(p)' = {last}
        BY <3>1, <1>10
      <4>2. log'[last].at <= log'[last].at
        BY <1>3, <1>5
      <4>3. QED
        BY <4>1, <4>2, <1>9 DEF IsLatest
    <3>2. CASE Entries(p) # {}
      <4>1. PICK n \in DOMAIN log : IsLatest(p, n)
        BY <3>2, <1>2 DEF CardInv, Recorded, Written
      <4>2. /\ n \in Entries(p) /\ log'[n] = log[n] /\ log[n].at \in Nat
            /\ \A m \in Entries(p) : /\ log'[m] = log[m] /\ log[m].at \in Nat
                                     /\ log[m].at <= log[n].at
        BY <4>1, <1>5, <1>6 DEF IsLatest, Entries
      <4>3. CASE e.at <= log[n].at
        <5>1. IsLatest(p, n)'
          BY <4>2, <4>3, <1>5, <1>10 DEF IsLatest
        <5>2. QED
          BY <5>1, <1>9
      <4>4. CASE ~(e.at <= log[n].at)
        <5>1. IsLatest(p, last)'
          BY <4>2, <4>4, <1>3, <1>5, <1>10 DEF IsLatest
        <5>2. QED
          BY <5>1, <1>9
      <4>5. QED
        BY <4>3, <4>4
    <3>3. QED
      BY <3>1, <3>2
  <2>3. QED
    BY <2>1, <2>2, <1>7, <1>9 DEF Written
<1>12. ASSUME NEW q \in Problems, q # p
       PROVE  Written(q)'
  <2>1. row'[q] = row[q] /\ Entries(q)' = Entries(q) /\ Written(q)
    BY <1>4, <1>10, <1>12 DEF CardInv, Shape, Recorded
  <2>2. \A m \in Entries(q) : m \in DOMAIN log /\ log'[m] = log[m]
    BY <1>5 DEF Entries
  <2>3. \A n \in DOMAIN log : IsLast(q, n) => IsLast(q, n)' /\ log'[n] = log[n]
    BY <2>1, <2>2 DEF IsLast
  <2>4. \A n \in DOMAIN log : IsLatest(q, n) => IsLatest(q, n)'
    BY <2>1, <2>2 DEF IsLatest
  <2>5. QED
    BY <2>1, <2>3, <2>4, <1>9 DEF Written
<1>13. \A o \in Requests : At(o, "history")' => row'[Item(o)'.problem] # NoRow
  <2>1. ASSUME NEW o \in Requests, At(o, "history")'
        PROVE  row'[Item(o)'.problem] # NoRow
    <3>1. o # r
      BY <2>1, <1>1 DEF Commit, At, Advance, CardInv, Shape, Request
    <3>2. req'[o] = req[o]
      BY <3>1 DEF Commit, CardInv, Shape
    <3>3. Item(o)' = Item(o) /\ At(o, "history")
      BY <2>1, <3>2 DEF Item, At
    <3>4. row[Item(o).problem] # NoRow
      BY <3>3 DEF CardInv, Recorded
    <3>5. QED
      BY <3>3, <3>4, <1>4, <1>7 DEF CardInv, Shape
  <2>2. QED
    BY <2>1
<1>14. Recorded'
  BY <1>11, <1>12, <1>13 DEF Recorded
<1>15. KeyTakesEffectOnce'
  <2>1. \A n \in DOMAIN log : log[n].key # NoKey => log[n].key # e.key
    BY <1>3, <1>4 DEF KeyEntry
  <2>2. QED
    BY <2>1, <1>5, <1>9 DEF KeyTakesEffectOnce, CardInv
<1>16. AnswersAgree'
  <2>1. ASSUME NEW a \in answers
        PROVE  \E n \in KeyEntry(a.key)' : log'[n].after = a.state
    <3>1. PICK n \in KeyEntry(a.key) : log[n].after = a.state
      BY DEF CardInv, AnswersAgree
    <3>2. QED
      BY <3>1, <1>5, <1>9 DEF KeyEntry
  <2>2. ASSUME NEW a \in answers' \ answers
        PROVE  \E n \in KeyEntry(a.key)' : log'[n].after = a.state
    <3>1. a.key = e.key /\ a.state = e.after /\ e.key # NoKey
      BY <1>3, <1>4 DEF Answer
    <3>2. QED
      BY <3>1, <1>5, <1>9 DEF KeyEntry
  <2>3. QED
    BY <2>1, <2>2 DEF AnswersAgree
<1>17. QED
  BY <1>14, <1>15, <1>16

\* Every step keeps the inductive invariant...
LEMMA CardInvStep == CardInv /\ [Next]_vars => CardInv'
<1> SUFFICES ASSUME CardInv, [Next]_vars
             PROVE  CardInv'
  OBVIOUS
<1> USE DEF CardInv
<1>1. Shape'
  BY ShapeStep
<1>2. ASSUME NEW r \in Requests, Commit(r)
      PROVE  CardInv'
  BY <1>1, <1>2, CommitRecords
<1>3. ASSUME NEW r \in Requests, ReplayIfCached(r) \/ ReplayWinner(r)
      PROVE  CardInv'
  <2>1. Recorded' /\ KeyTakesEffectOnce'
    BY <1>3, NothingCommitted
       DEF ReplayIfCached, ReplayWinner, At, Advance, Item, Shape, Request
  <2>2. PICK n \in KeyEntry(Item(r).key) : answers' = Answer(Item(r).key, LoggedResult(n))
    BY <1>3 DEF ReplayIfCached, ReplayWinner
  <2>3. AnswersAgree'
    BY <1>3, <2>2, Replayed DEF ReplayIfCached, ReplayWinner
  <2>4. QED
    BY <1>1, <2>1, <2>3
<1>4. ASSUME NEW r \in Requests, ReadForUndo(r)
      PROVE  CardInv'
  <2>1. Recorded' /\ KeyTakesEffectOnce'
    BY <1>4, NothingCommitted
       DEF ReadForUndo, At, Advance, Item, Shape, Request
  <2>2. AnswersAgree'
    BY <1>4, AnswersStand DEF ReadForUndo
  <2>3. QED
    BY <1>1, <2>1, <2>2
<1>5. ASSUME NEW r \in Requests,
             \/ Reject(r) \/ Accept(r) \/ ReadRow(r) \/ ReadHistory(r)
             \/ BeginTx(r) \/ RollBack(r) \/ Fail(r) \/ End(r)
      PROVE  CardInv'
  <2>0. req \in [Requests -> Request] /\ UNCHANGED <<row, log>>
    BY <1>5 DEF Reject, Accept, ReadRow, ReadHistory, BeginTx, RollBack, Fail,
                End, Shape
  <2>1. ~At(r, "history")' /\ \A o \in Requests \ {r} : req'[o] = req[o]
    <3>1. CASE Reject(r) \/ Fail(r) \/ End(r)
      <4>1. Advance(r).pc = "item" /\ Free.pc = "free"
        BY <2>0 DEF Advance, Free, Request
      <4>2. req' = [req EXCEPT ![r] = Advance(r)] \/ req' = [req EXCEPT ![r] = Free]
        BY <3>1 DEF Reject, Fail, End
      <4>3. QED
        BY <2>0, <4>1, <4>2 DEF At
    <3>2. CASE Accept(r) \/ ReadRow(r)
      BY <2>0, <3>2 DEF Accept, ReadRow, At, Request
    <3>3. CASE ReadHistory(r) \/ BeginTx(r) \/ RollBack(r)
      BY <2>0, <3>3 DEF ReadHistory, BeginTx, RollBack, At, Request
    <3>4. QED
      BY <1>5, <3>1, <3>2, <3>3
  <2>2. Recorded' /\ KeyTakesEffectOnce'
    BY <2>0, <2>1, NothingCommitted DEF At, Item
  <2>3. AnswersAgree'
    BY <1>5, AnswersStand
       DEF Reject, Accept, ReadRow, ReadHistory, BeginTx, RollBack, Fail, End
  <2>4. QED
    BY <1>1, <2>2, <2>3
<1>6. ASSUME NEW r \in Requests,
             \/ \E b \in Batches : Submit(r, b)
             \/ \E p \in Problems, s \in OverrideStates : Override(r, p, s)
      PROVE  CardInv'
  <2>1. ~At(r, "history")' /\ \A o \in Requests \ {r} : req'[o] = req[o]
    BY <1>6 DEF Submit, Override, Free, At, Shape
  <2>2. Recorded' /\ KeyTakesEffectOnce'
    BY <1>6, <2>1, NothingCommitted DEF Submit, Override, At, Item
  <2>3. AnswersAgree'
    BY <1>6, AnswersStand DEF Submit, Override
  <2>4. QED
    BY <1>1, <2>2, <2>3
<1>7. CASE \/ \E p \in Problems : VerifyAttempt(p)
           \/ \E g \in {"open", "ended", "shut"} : SetGate(g)
           \/ UNCHANGED vars
  <2>1. Recorded' /\ KeyTakesEffectOnce'
    BY <1>7, NothingCommitted DEF VerifyAttempt, SetGate, vars, At, Item
  <2>2. AnswersAgree'
    BY <1>7, AnswersStand DEF VerifyAttempt, SetGate, vars
  <2>3. QED
    BY <1>1, <2>1, <2>2
<1>8. QED
  BY <1>2, <1>3, <1>4, <1>5, <1>6, <1>7 DEF Next, RequestStep

\* What the inductive invariant says of the properties of CompAttempts.
LEMMA CardInvImplies == CardInv => RowsHold
<1> SUFFICES ASSUME CardInv
             PROVE  RowsHold
  OBVIOUS
<1>1. TypeOK
  <2>1. \A n \in DOMAIN log : log[n] \in Entry /\ log[n].at \in 1 .. clock
    BY DEF CardInv, Shape
  <2>2. \A r \in Requests : req[r] \in Request
    BY DEF CardInv, Shape
  <2>3. QED
    BY <2>1, <2>2 DEF CardInv, Shape, TypeOK, Entry, Request, Busy
<1>2. RowIsLastWrite
  <2>1. ASSUME NEW p \in Problems, row[p] # NoRow
        PROVE  Entries(p) # {} /\ row[p] = log[LastWrite(p)].after
    <3>1. PICK n \in DOMAIN log : IsLast(p, n) /\ row[p] = log[n].after
      BY <2>1 DEF CardInv, Recorded, Written
    <3>2. \A m \in Entries(p) : m \in Nat
      BY DEF Entries, CardInv, Shape
    <3>3. LastWrite(p) = n
      BY <3>1, <3>2 DEF LastWrite, IsLast
    <3>4. QED
      BY <3>1, <3>3 DEF IsLast
  <2>2. \A p \in Problems : row[p] = NoRow => Entries(p) = {}
    BY DEF CardInv, Recorded, Written
  <2>3. QED
    BY <2>1, <2>2 DEF RowIsLastWrite
<1>3. QED
  BY <1>1, <1>2 DEF RowsHold, CardInv

\* ... so it holds throughout.
LEMMA CardInvAlways == Spec => []CardInv
<1>1. Init => CardInv
  BY ShapeInit, RecordedInit DEF CardInv
<1>2. QED
  BY <1>1, CardInvStep, PTL DEF Spec

\* The row is what the last entry of the log left, a problem has a row exactly
\* when it has an entry, and every answer to a key is the result the log has
\* for it (ApplyAction, replayIfCached), whatever interleaves.
THEOREM RowsAgreeWithLog == Spec => []RowsHold
  BY CardInvAlways, CardInvImplies, PTL

\* No key takes effect twice, however many requests carry it
\* (competition_attempt_log_idem_idx and the path of its error).
THEOREM KeysTakeEffectOnce == Spec => []KeyTakesEffectOnce
<1>1. CardInv => KeyTakesEffectOnce
  BY DEF CardInv
<1>2. QED
  BY <1>1, CardInvAlways, PTL
-----------------------------------------------------------------------------
(* Scores. *)

\* Every state in sight: what the rows and the log hold, and what the requests
\* have read and are about to write.
AllCoherent ==
    /\ \A p \in Problems : row[p] # NoRow => Coherent(row[p])
    /\ \A n \in DOMAIN log : Coherent(log[n].before) /\ Coherent(log[n].after)
    /\ \A r \in Requests : Coherent(req[r].base) /\ Coherent(req[r].next)

StaffCoherent == \A s \in OverrideStates : Coherent(s)

\* A problem never attempted is coherent.
LEMMA ZeroCoherent == Coherent(Zero)
  BY DEF Coherent, Zero, Unset

LEMMA NewCoherent ==
    ASSUME NEW s \in State, Coherent(s), NEW type \in ClimberActions, type # "undo"
    PROVE  Coherent(ComputeNewState(s, type))
<1> DEFINE tried == IF s.attempts < 1 THEN 1 ELSE s.attempts
           zoned == IF s.zone THEN s.zoneAttempts ELSE tried
<1>1. s.attempts \in Nat /\ s.zoneAttempts \in Nat \cup {Unset}
  BY DEF State
<1>2. tried \in Nat /\ tried >= 1 /\ tried >= s.attempts
  BY <1>1
<1>3. zoned \in 1 .. tried
  BY <1>1, <1>2 DEF Coherent
<1>4. CASE type = "increment"
  <2>1. ComputeNewState(s, type) = [s EXCEPT !.attempts = s.attempts + 1]
    BY <1>4 DEF ComputeNewState
  <2>2. s.zone => s.zoneAttempts \in 1 .. s.attempts + 1
    BY <1>1 DEF Coherent
  <2>3. QED
    BY <2>1, <2>2 DEF Coherent, State
<1>5. CASE type = "zone"
  <2>1. ComputeNewState(s, type)
          = [s EXCEPT !.attempts = tried, !.zone = TRUE, !.zoneAttempts = tried]
    BY <1>5 DEF ComputeNewState
  <2> HIDE DEF tried
  <2>2. QED
    BY <2>1, <1>2 DEF Coherent, State, Unset
<1>6. CASE type = "top"
  <2>1. ComputeNewState(s, type)
          = [s EXCEPT !.attempts = tried, !.top = TRUE, !.zone = TRUE,
                      !.zoneAttempts = zoned]
    BY <1>6 DEF ComputeNewState
  <2> HIDE DEF tried, zoned
  <2>2. QED
    BY <2>1, <1>2, <1>3 DEF Coherent, State, Unset
<1>7. CASE type = "reset"
  <2>1. ComputeNewState(s, type) = Zero
    BY <1>7 DEF ComputeNewState
  <2>2. QED
    BY <2>1, ZeroCoherent
<1>8. QED
  BY <1>4, <1>5, <1>6, <1>7 DEF ClimberActions

\* A step that leaves the tables alone and gives one request coherent states.
LEMMA CoherentMoves ==
    ASSUME AllCoherent, Shape, NEW r \in Requests, UNCHANGED <<row, log>>,
           \A o \in Requests \ {r} : req'[o] = req[o],
           Coherent(req'[r].base), Coherent(req'[r].next)
    PROVE  AllCoherent'
  BY DEF AllCoherent, Coherent

\* A request that goes on carries no state, or the empty one.
LEMMA AdvanceCoherent ==
    ASSUME Shape, NEW r \in Requests
    PROVE  Coherent(Advance(r).base) /\ Coherent(Advance(r).next)
<1>1. req[r] \in Request
  BY DEF Shape
<1>2. Advance(r).base = Zero /\ Advance(r).next = Zero
  BY <1>1 DEF Advance, Request
<1>3. QED
  BY <1>2, ZeroCoherent

\* Every step keeps all states coherent.
LEMMA CoherentStep ==
    StaffCoherent /\ CardInv /\ AllCoherent /\ [Next]_vars => AllCoherent'
<1> SUFFICES ASSUME StaffCoherent, CardInv, AllCoherent, [Next]_vars
             PROVE  AllCoherent'
  OBVIOUS
<1>1. Shape /\ req \in [Requests -> Request]
  BY DEF CardInv, Shape
<1>2. ASSUME NEW r \in Requests, ReplayIfCached(r) \/ Reject(r) \/ ReplayWinner(r) \/ Fail(r)
      PROVE  AllCoherent'
  <2>1. req' = [req EXCEPT ![r] = Advance(r)] /\ UNCHANGED <<row, log>>
    BY <1>2 DEF ReplayIfCached, Reject, ReplayWinner, Fail
  <2>2. QED
    BY <1>1, <2>1, AdvanceCoherent, CoherentMoves
<1>3. ASSUME NEW r \in Requests, (\E b \in Batches : Submit(r, b)) \/ End(r)
      PROVE  AllCoherent'
  <2>1. /\ UNCHANGED <<row, log>> /\ \A o \in Requests \ {r} : req'[o] = req[o]
        /\ req'[r].base = Zero /\ req'[r].next = Zero
    <3>1. CASE \E b \in Batches : Submit(r, b)
      BY <1>1, <3>1 DEF Submit, Free
    <3>2. CASE End(r)
      BY <1>1, <3>2 DEF End, Free
    <3>3. QED
      BY <1>3, <3>1, <3>2
  <2>2. QED
    BY <1>1, <2>1, ZeroCoherent, CoherentMoves
<1>4. ASSUME NEW r \in Requests, Accept(r) \/ BeginTx(r) \/ RollBack(r)
      PROVE  AllCoherent'
  <2>1. /\ UNCHANGED <<row, log>> /\ \A o \in Requests \ {r} : req'[o] = req[o]
        /\ req'[r].base = req[r].base /\ req'[r].next = req[r].next
    BY <1>1, <1>4 DEF Accept, BeginTx, RollBack, Request
  <2>2. QED
    BY <1>1, <2>1, CoherentMoves DEF AllCoherent
<1>5. ASSUME NEW r \in Requests, ReadRow(r)
      PROVE  AllCoherent'
  <2> DEFINE s == IF row[Item(r).problem] = NoRow THEN Zero ELSE row[Item(r).problem]
  <2>1. /\ Item(r).problem \in Problems /\ Item(r).type \in ClimberActions
        /\ Item(r).type # "undo"
    BY <1>1, <1>5, ItemShape DEF ReadRow, At, Busy
  <2>2. s \in State /\ Coherent(s)
    BY <1>1, <2>1, ZeroState, ZeroCoherent DEF Shape, AllCoherent
  <2>3. /\ UNCHANGED <<row, log>> /\ \A o \in Requests \ {r} : req'[o] = req[o]
        /\ req'[r].base = s /\ req'[r].next = ComputeNewState(s, Item(r).type)
    BY <1>1, <1>5 DEF ReadRow, Request
  <2> HIDE DEF s
  <2>4. QED
    BY <1>1, <2>1, <2>2, <2>3, NewCoherent, CoherentMoves
<1>6. ASSUME NEW r \in Requests, ReadForUndo(r)
      PROVE  AllCoherent'
  <2>1. CASE row[Item(r).problem] = NoRow
    <3>1. req' = [req EXCEPT ![r] = Advance(r)] /\ UNCHANGED <<row, log>>
      BY <1>6, <2>1 DEF ReadForUndo
    <3>2. QED
      BY <1>1, <3>1, AdvanceCoherent, CoherentMoves
  <2>2. CASE row[Item(r).problem] # NoRow
    <3>1. Item(r).problem \in Problems
      BY <1>1, <1>6, ItemShape DEF ReadForUndo, At, Busy
    <3>2. /\ UNCHANGED <<row, log>> /\ \A o \in Requests \ {r} : req'[o] = req[o]
          /\ req'[r].base = row[Item(r).problem] /\ req'[r].next = req[r].next
      BY <1>1, <1>6, <2>2 DEF ReadForUndo, Request
    <3>3. QED
      BY <1>1, <2>2, <3>1, <3>2, CoherentMoves DEF AllCoherent
  <2>3. QED
    BY <2>1, <2>2
<1>7. ASSUME NEW r \in Requests, ReadHistory(r)
      PROVE  AllCoherent'
  <2> DEFINE p == Item(r).problem
  <2>1. p \in Problems /\ row[p] # NoRow
    BY <1>1, <1>7, ItemShape DEF ReadHistory, At, Busy, CardInv, Recorded
  <2>2. PICK n \in DOMAIN log : IsLatest(p, n)
    BY <2>1 DEF CardInv, Recorded, Written
  <2>3. LatestLog(p) \in DOMAIN log
    BY <2>2 DEF LatestLog, IsLatest, Entries
  <2>4. /\ UNCHANGED <<row, log>> /\ \A o \in Requests \ {r} : req'[o] = req[o]
        /\ req'[r].base = req[r].base /\ req'[r].next = log[LatestLog(p)].before
    BY <1>1, <1>7 DEF ReadHistory, Request
  <2>5. QED
    BY <1>1, <2>3, <2>4, CoherentMoves DEF AllCoherent
<1>8. ASSUME NEW r \in Requests, Commit(r)
      PROVE  AllCoherent'
  <2>1. req[r] \in Request /\ req[r].pc = "tx"
    BY <1>1, <1>8 DEF Commit, At
  <2>2. Item(r).problem \in Problems /\ NewEntry(r) \in Entry
    <3>1. /\ Item(r).problem \in Problems
          /\ Item(r).type \in Actions /\ Item(r).key \in Keys
      BY <1>1, <2>1, ItemShape DEF Busy
    <3>2. QED
      BY <2>1, <3>1 DEF NewEntry, Entry, Request
  <2>3. /\ \A n \in DOMAIN log : log'[n] = log[n]
        /\ DOMAIN log' = DOMAIN log \cup {Len(log) + 1}
        /\ log'[Len(log) + 1] = NewEntry(r)
    BY <1>1, <1>8, <2>2, Appended DEF Commit, Shape
  <2>4. Coherent(NewEntry(r).before) /\ Coherent(NewEntry(r).after)
    BY DEF NewEntry, AllCoherent
  <2>5. \A n \in DOMAIN log' : Coherent(log'[n].before) /\ Coherent(log'[n].after)
    BY <2>3, <2>4 DEF AllCoherent
  <2>6. \A p \in Problems : row'[p] # NoRow => Coherent(row'[p])
    BY <1>1, <1>8 DEF Commit, Shape, AllCoherent
  <2>7. \A o \in Requests : req'[o] = req[o] \/ req'[o] = Advance(r)
    BY <1>1, <1>8 DEF Commit
  <2>8. \A o \in Requests : Coherent(req'[o].base) /\ Coherent(req'[o].next)
    BY <1>1, <2>7, AdvanceCoherent DEF AllCoherent
  <2>9. QED
    BY <2>5, <2>6, <2>8 DEF AllCoherent, Coherent
<1>9. ASSUME NEW r \in Requests, NEW p \in Problems, NEW s \in OverrideStates,
             Override(r, p, s)
      PROVE  AllCoherent'
  <2>1. /\ UNCHANGED <<row, log>> /\ \A o \in Requests \ {r} : req'[o] = req[o]
        /\ req'[r].base = row[p] /\ req'[r].next = s
    BY <1>1, <1>9 DEF Override, Free
  <2>2. Coherent(row[p]) /\ Coherent(s)
    BY <1>9 DEF Override, AllCoherent, StaffCoherent
  <2>3. QED
    BY <1>1, <2>1, <2>2, CoherentMoves
<1>10. CASE \/ \E p \in Problems : VerifyAttempt(p)
            \/ \E g \in {"open", "ended", "shut"} : SetGate(g)
            \/ UNCHANGED vars
  BY <1>10 DEF VerifyAttempt, SetGate, vars, AllCoherent, Coherent
<1>11. QED
  BY <1>2, <1>3, <1>4, <1>5, <1>6, <1>7, <1>8, <1>9, <1>10 DEF Next, RequestStep

\* What the scorers read is coherent as long as staff assert coherent states,
\* also after an undo that restored what a concurrent request had outdated
\* (computeNewState, applyOne, OverrideAttempt).
THEOREM ScoresAreCoherent == Spec => []ScoresCoherent
<1> DEFINE Inv == CardInv /\ (StaffCoherent => AllCoherent)
<1>1. Init => Inv
  <2>1. Init => CardInv
    BY ShapeInit, RecordedInit DEF CardInv
  <2>2. Init => AllCoherent
    BY ZeroCoherent DEF Init, AllCoherent, Free
  <2>3. QED
    BY <2>1, <2>2
<1>2. Inv /\ [Next]_vars => Inv'
  <2>1. StaffCoherent' <=> StaffCoherent
    BY DEF StaffCoherent, Coherent
  <2>2. QED
    BY <2>1, CardInvStep, CoherentStep
<1>3. Inv => ScoresCoherent
  BY DEF ScoresCoherent, StaffCoherent, AllCoherent
<1>4. QED
  BY <1>1, <1>2, <1>3, PTL DEF Spec
-----------------------------------------------------------------------------
(* The history, without races. *)

Working == {"read", "history", "write", "tx"}

Current(p) == IF row[p] = NoRow THEN Zero ELSE row[p]

\* What a request has read still stands, and the log is older than its
\* transaction.
Grounded(r) ==
    /\ req[r].pc \in {"history", "write", "tx"}
       => req[r].base = Current(Item(r).problem)
    /\ req[r].pc \in {"write", "tx"} /\ Item(r).type = "undo"
       => \E n \in DOMAIN log : /\ IsLast(Item(r).problem, n)
                                /\ req[r].next = log[n].before
    /\ req[r].pc = "tx" => \A n \in DOMAIN log : log[n].at < req[r].at

Alone == \A q, r \in Requests :
            req[q].pc \in Working /\ req[r].pc \in Working => q = r

Ordered == \A m, n \in DOMAIN log : m < n => log[m].at < log[n].at

Chained == /\ Alone
           /\ \A r \in Requests : Grounded(r)
           /\ Ordered /\ LogIsChained /\ UndoReturns

\* The entries of a problem have a last one as soon as there are any, and in a
\* log ordered by time it is the one LatestLogForAttempt finds.
LEMMA LastEntry ==
    ASSUME CardInv, NEW p \in Problems, Entries(p) # {} \/ row[p] # NoRow
    PROVE  \E n \in DOMAIN log : /\ IsLast(p, n)
                                 /\ row[p] # NoRow /\ row[p] = log[n].after
                                 /\ LastWrite(p) = n
                                 /\ Ordered => LatestLog(p) = n
<1>1. PICK n \in DOMAIN log : IsLast(p, n) /\ row[p] = log[n].after
  BY DEF CardInv, Recorded, Written
<1>2. row[p] # NoRow
  BY DEF CardInv, Recorded, Written
<1>3. \A m \in Entries(p) : m \in DOMAIN log /\ m \in Nat /\ log[m].at \in Nat
  BY DEF Entries, CardInv, Shape
<1>4. LastWrite(p) = n
  BY <1>1, <1>3 DEF LastWrite, IsLast
<1>5. ASSUME Ordered
      PROVE  LatestLog(p) = n
  <2>1. \A m \in Entries(p) \ {n} : log[m].at < log[n].at
    <3>1. ASSUME NEW m \in Entries(p) \ {n}
          PROVE  log[m].at < log[n].at
      <4>1. m < n
        BY <1>1, <1>3 DEF IsLast
      <4>2. QED
        BY <1>3, <1>5, <4>1 DEF Ordered
    <3>2. QED
      BY <3>1
  <2>2. n \in Entries(p) /\ \A m \in Entries(p) : log[m].at <= log[n].at
    BY <1>1, <1>3, <2>1 DEF IsLast
  <2>3. \A l \in Entries(p) : (\A m \in Entries(p) : log[m].at <= log[l].at) => l = n
    <3>1. ASSUME NEW l \in Entries(p), l # n
          PROVE  ~(log[n].at <= log[l].at)
      <4>1. log[l].at < log[n].at /\ log[l].at \in Nat /\ log[n].at \in Nat
        BY <1>3, <2>1, <2>2, <3>1
      <4>2. QED
        BY <4>1
    <3>2. QED
      BY <2>2, <3>1
  <2>4. QED
    BY <2>2, <2>3 DEF LatestLog
<1>6. QED
  BY <1>1, <1>2, <1>4, <1>5

\* A step of one request that commits nothing.
LEMMA ChainMoves ==
    ASSUME CardInv, Chained, NEW r \in Requests, UNCHANGED <<row, log>>,
           \A o \in Requests \ {r} : req'[o] = req[o],
           req'[r].pc \in Working
              => \/ req[r].pc \in Working
                 \/ \A o \in Requests \ {r} : req[o].pc \notin Working,
           Grounded(r)'
    PROVE  Chained'
<1>1. Alone'
  BY DEF Chained, Alone
<1>2. ASSUME NEW o \in Requests
      PROVE  Grounded(o)'
  <2>1. CASE o # r
    <3>1. Item(o)' = Item(o) /\ req'[o] = req[o]
      BY <2>1 DEF Item
    <3>2. QED
      BY <3>1 DEF Chained, Grounded, Current, IsLast, Entries
  <2>2. QED
    BY <2>1
<1>3. Ordered' /\ LogIsChained' /\ UndoReturns'
  BY DEF Chained, Ordered, LogIsChained, UndoReturns
<1>4. QED
  BY <1>1, <1>2, <1>3 DEF Chained

\* A commit of the only request at work appends an entry that starts at the row
\* and is younger than the log.
LEMMA CommitChains ==
    ASSUME CardInv, Chained, NEW r \in Requests, Commit(r)
    PROVE  Chained'
<1>0. PICK p, e, last : /\ p = Item(r).problem /\ e = NewEntry(r)
                        /\ last = Len(log) + 1
  OBVIOUS
<1>1. /\ req[r] \in Request /\ Placed(req[r]) /\ req[r].pc = "tx"
      /\ req \in [Requests -> Request]
  BY DEF CardInv, Shape, Commit, At
<1>2. /\ p \in Problems
      /\ Item(r).type \in Actions /\ Item(r).key \in Keys
  BY <1>0, <1>1, ItemShape DEF Busy, CardInv
<1>3. /\ e \in Entry /\ e.problem = p /\ e.after = req[r].next
      /\ e.before = req[r].base /\ e.at = req[r].at /\ e.action = Item(r).type
  BY <1>0, <1>1, <1>2 DEF NewEntry, Entry, Request
<1>4. /\ log \in Seq(Entry)
      /\ Len(log) \in Nat
      /\ DOMAIN log = 1 .. Len(log)
      /\ DOMAIN log' = 1 .. last
      /\ \A n \in DOMAIN log : log'[n] = log[n]
      /\ log'[last] = e
  BY <1>0, <1>3, Appended DEF CardInv, Shape, Commit
<1>5. Grounded(r)
  BY DEF Chained
<1>6. Ordered'
  <2>1. \A n \in DOMAIN log : log[n].at < e.at
    BY <1>1, <1>3, <1>5 DEF Grounded
  <2>2. ASSUME NEW m \in DOMAIN log', NEW n \in DOMAIN log', m < n
        PROVE  log'[m].at < log'[n].at
    <3>1. m \in DOMAIN log /\ log'[m] = log[m]
      BY <1>0, <1>4, <2>2
    <3>2. CASE n \in DOMAIN log
      BY <1>4, <2>2, <3>1, <3>2 DEF Chained, Ordered
    <3>3. CASE n = last
      BY <1>4, <2>1, <3>1, <3>3
    <3>4. QED
      BY <1>0, <1>4, <3>2, <3>3
  <2>3. QED
    BY <2>2 DEF Ordered
<1>7. LogIsChained'
  <2> SUFFICES ASSUME NEW m \in DOMAIN log', NEW n \in DOMAIN log', m < n,
                      log'[m].problem = log'[n].problem,
                      \A k \in m + 1 .. n - 1 : log'[k].problem # log'[n].problem
               PROVE  log'[n].before = log'[m].after
    BY DEF LogIsChained
  <2>1. m \in DOMAIN log /\ log'[m] = log[m]
    BY <1>0, <1>4
  <2>2. CASE n \in DOMAIN log
    <3>1. \A k \in m + 1 .. n - 1 : k \in DOMAIN log /\ log'[k] = log[k]
      BY <1>4, <2>2
    <3>2. QED
      BY <1>4, <2>1, <2>2, <3>1 DEF Chained, LogIsChained
  <2>3. CASE n = last
    <3>1. m \in Entries(p)
      BY <1>3, <1>4, <2>1, <2>3 DEF Entries
    <3>2. PICK l \in DOMAIN log : IsLast(p, l) /\ row[p] # NoRow /\ row[p] = log[l].after
      BY <1>2, <3>1, LastEntry
    <3>3. l \in Entries(p) /\ m <= l /\ log[l].problem = p /\ log'[l] = log[l]
      BY <1>4, <3>1, <3>2 DEF IsLast, Entries
    <3>4. ~(l \in m + 1 .. n - 1)
      BY <1>3, <1>4, <2>3, <3>3
    <3>5. l = m
      BY <1>0, <1>4, <2>1, <2>3, <3>2, <3>3, <3>4
    <3>6. e.before = row[p]
      BY <1>0, <1>1, <1>3, <1>5, <3>2 DEF Grounded, Current
    <3>7. QED
      BY <1>4, <2>1, <2>3, <3>2, <3>5, <3>6
  <2>4. QED
    BY <1>0, <1>4, <2>2, <2>3
<1>8. UndoReturns'
  <2>0. log' \in Seq(Entry) /\ Len(log') = last
    BY <1>0, <1>3, <1>4 DEF Commit
  <2> SUFFICES ASSUME NEW n \in 2 .. last, log'[n].action = "undo",
                      log'[n - 1].problem = log'[n].problem
               PROVE  log'[n].after = log'[n - 1].before
    BY <2>0 DEF UndoReturns
  <2>1. n - 1 \in DOMAIN log /\ log'[n - 1] = log[n - 1]
    BY <1>0, <1>4
  <2>2. CASE n \in DOMAIN log
    BY <1>4, <2>1, <2>2 DEF Chained, UndoReturns
  <2>3. CASE n = last
    <3>1. n - 1 = Len(log) /\ Len(log) \in Entries(p)
      BY <1>0, <1>3, <1>4, <2>1, <2>3 DEF Entries
    <3>2. Item(r).type = "undo"
      BY <1>3, <1>4, <2>3
    <3>3. PICK l \in DOMAIN log : IsLast(p, l) /\ req[r].next = log[l].before
      BY <1>0, <1>1, <1>5, <3>2 DEF Grounded
    <3>4. l = Len(log)
      BY <1>4, <3>1, <3>3 DEF IsLast
    <3>5. QED
      BY <1>3, <1>4, <2>1, <2>3, <3>1, <3>3, <3>4
  <2>4. QED
    BY <1>0, <1>4, <2>2, <2>3
<1>9. \A o \in Requests : req'[o].pc \notin Working
  <2>1. req'[r].pc = "item" /\ \A o \in Requests \ {r} : req'[o] = req[o]
    BY <1>1 DEF Commit, Advance, Request
  <2>2. \A o \in Requests \ {r} : req[o].pc \notin Working
    BY <1>1 DEF Chained, Alone, Working
  <2>3. QED
    BY <2>1, <2>2 DEF Working
<1>10. Alone' /\ \A o \in Requests : Grounded(o)'
  BY <1>9 DEF Alone, Grounded, Working
<1>11. QED
  BY <1>6, <1>7, <1>8, <1>10 DEF Chained

\* As long as nobody raced, every step keeps the chain.
LEMMA ChainStep ==
    CardInv /\ (raced \/ Chained) /\ [Next]_vars => raced' \/ Chained'
<1> SUFFICES ASSUME CardInv, raced \/ Chained, [Next]_vars, ~raced'
             PROVE  Chained'
  OBVIOUS
<1>0. ~raced /\ Chained /\ Shape /\ req \in [Requests -> Request]
  <2>1. raced' = raced \/ \E r \in Requests : Race(r)
    BY DEF Next, RequestStep, Submit, ReplayIfCached, Reject, Accept, ReadRow,
           ReadForUndo, ReadHistory, BeginTx, Commit, RollBack, ReplayWinner,
           Fail, End, Override, VerifyAttempt, SetGate, vars
  <2>2. QED
    BY <2>1 DEF Race, CardInv, Shape
<1>1. ASSUME NEW r \in Requests,
             \/ ReplayIfCached(r) \/ Reject(r) \/ ReplayWinner(r) \/ Fail(r)
             \/ End(r) \/ RollBack(r) \/ \E b \in Batches : Submit(r, b)
      PROVE  Chained'
  <2>1. /\ UNCHANGED <<row, log>> /\ \A o \in Requests \ {r} : req'[o] = req[o]
        /\ req'[r].pc \in {"item", "free", "replay"}
    <3>1. CASE ReplayIfCached(r) \/ Reject(r) \/ ReplayWinner(r) \/ Fail(r)
      BY <1>0, <3>1 DEF ReplayIfCached, Reject, ReplayWinner, Fail, Advance, Request
    <3>2. CASE End(r) \/ RollBack(r)
      BY <1>0, <3>2 DEF End, RollBack, Free, Request
    <3>3. CASE \E b \in Batches : Submit(r, b)
      BY <1>0, <3>3 DEF Submit, Free
    <3>4. QED
      BY <1>1, <3>1, <3>2, <3>3
  <2>2. Grounded(r)' /\ req'[r].pc \notin Working
    BY <2>1 DEF Grounded, Working
  <2>3. QED
    BY <1>0, <2>1, <2>2, ChainMoves
<1>2. ASSUME NEW r \in Requests, Accept(r)
      PROVE  Chained'
  <2>1. /\ UNCHANGED <<row, log>> /\ \A o \in Requests \ {r} : req'[o] = req[o]
        /\ req'[r].pc = "read"
    BY <1>0, <1>2 DEF Accept, Request
  <2>2. \A o \in Requests \ {r} : req[o].pc \notin Working
    BY <1>2 DEF Accept, Race, Working
  <2>3. Grounded(r)'
    BY <2>1 DEF Grounded
  <2>4. QED
    BY <1>0, <2>1, <2>2, <2>3, ChainMoves
<1>3. ASSUME NEW r \in Requests, ReadRow(r)
      PROVE  Chained'
  <2>1. /\ UNCHANGED <<row, log>> /\ \A o \in Requests \ {r} : req'[o] = req[o]
        /\ req'[r].pc = "write" /\ req'[r].base = Current(Item(r).problem)
        /\ req[r].pc = "read" /\ Item(r)' = Item(r) /\ Item(r).type # "undo"
    BY <1>0, <1>3 DEF ReadRow, At, Item, Request, Current
  <2>2. Grounded(r)'
    BY <2>1 DEF Grounded, Current
  <2>3. QED
    BY <1>0, <2>1, <2>2, ChainMoves DEF Working
<1>4. ASSUME NEW r \in Requests, ReadForUndo(r)
      PROVE  Chained'
  <2>1. /\ UNCHANGED <<row, log>> /\ \A o \in Requests \ {r} : req'[o] = req[o]
        /\ req[r].pc = "read"
        /\ \/ req'[r].pc = "item"
           \/ /\ req'[r].pc = "history" /\ Item(r)' = Item(r)
              /\ req'[r].base = Current(Item(r).problem)
    BY <1>0, <1>4 DEF ReadForUndo, At, Item, Request, Current, Advance
  <2>2. Grounded(r)'
    BY <2>1 DEF Grounded, Current
  <2>3. QED
    BY <1>0, <2>1, <2>2, ChainMoves DEF Working
<1>5. ASSUME NEW r \in Requests, ReadHistory(r)
      PROVE  Chained'
  <2> DEFINE p == Item(r).problem
  <2>1. /\ UNCHANGED <<row, log>> /\ \A o \in Requests \ {r} : req'[o] = req[o]
        /\ req[r].pc = "history" /\ req'[r].pc = "write" /\ Item(r)' = Item(r)
        /\ req'[r].base = req[r].base /\ req'[r].next = log[LatestLog(p)].before
    BY <1>0, <1>5 DEF ReadHistory, At, Item, Request
  <2>2. p \in Problems /\ row[p] # NoRow /\ req[r].base = Current(p)
    BY <1>0, <2>1, ItemShape DEF Busy, CardInv, Recorded, At, Chained, Grounded
  <2>3. PICK n \in DOMAIN log : IsLast(p, n) /\ LatestLog(p) = n
    BY <1>0, <2>2, LastEntry DEF Chained
  <2>4. IsLast(p, n)'
    BY <2>1, <2>3 DEF IsLast, Entries
  <2>5. Grounded(r)'
    BY <2>1, <2>2, <2>3, <2>4 DEF Grounded, Current
  <2>6. QED
    BY <1>0, <2>1, <2>5, ChainMoves DEF Working
<1>6. ASSUME NEW r \in Requests, BeginTx(r)
      PROVE  Chained'
  <2>1. /\ UNCHANGED <<row, log>> /\ \A o \in Requests \ {r} : req'[o] = req[o]
        /\ req[r].pc = "write" /\ req'[r].pc = "tx" /\ Item(r)' = Item(r)
        /\ req'[r].base = req[r].base /\ req'[r].next = req[r].next
        /\ req'[r].at = clock + 1
    BY <1>0, <1>6 DEF BeginTx, At, Item, Request
  <2>2. \A n \in DOMAIN log : log[n].at < clock + 1
    BY <1>0, CompAttemptsAssumption DEF Shape
  <2>3. Grounded(r)
    BY <1>0 DEF Chained
  <2>4. Grounded(r)'
    BY <2>1, <2>2, <2>3 DEF Grounded, Current, IsLast, Entries
  <2>5. QED
    BY <1>0, <2>1, <2>4, ChainMoves DEF Working
<1>7. ASSUME NEW r \in Requests, Commit(r)
      PROVE  Chained'
  BY <1>0, <1>7, CommitChains
<1>8. ASSUME NEW r \in Requests, NEW p \in Problems, NEW s \in OverrideStates,
             Override(r, p, s)
      PROVE  Chained'
  <2>1. /\ UNCHANGED <<row, log>> /\ \A o \in Requests \ {r} : req'[o] = req[o]
        /\ req'[r].pc = "write" /\ req'[r].base = Current(p)
        /\ Item(r)'.problem = p /\ Item(r)'.type = "override"
    BY <1>0, <1>8 DEF Override, Free, Item, Current
  <2>2. \A o \in Requests \ {r} : req[o].pc \notin Working
    BY <1>8 DEF Override, Race, Working
  <2>3. Grounded(r)'
    BY <2>1 DEF Grounded, Current
  <2>4. QED
    BY <1>0, <2>1, <2>2, <2>3, ChainMoves
<1>9. CASE \/ \E p \in Problems : VerifyAttempt(p)
           \/ \E g \in {"open", "ended", "shut"} : SetGate(g)
           \/ UNCHANGED vars
  <2>1. UNCHANGED <<row, log, req>>
    BY <1>9 DEF VerifyAttempt, SetGate, vars
  <2>2. ASSUME NEW r \in Requests
        PROVE  Grounded(r)'
    <3>1. Item(r)' = Item(r) /\ req'[r] = req[r]
      BY <2>1 DEF Item
    <3>2. QED
      BY <1>0, <2>1, <3>1 DEF Chained, Grounded, Current, IsLast, Entries
  <2>3. Alone' /\ Ordered' /\ LogIsChained' /\ UndoReturns'
    BY <1>0, <2>1 DEF Chained, Alone, Ordered, LogIsChained, UndoReturns
  <2>4. QED
    BY <2>2, <2>3 DEF Chained
<1>10. QED
  BY <1>1, <1>2, <1>3, <1>4, <1>5, <1>6, <1>7, <1>8, <1>9 DEF Next, RequestStep

\* As long as no two requests were between look-up and commit at once, the log
\* of a problem is a chain, undo finds its last write and returns to where the
\* row was (applyOne, OverrideAttempt, LatestLogForAttempt).
THEOREM UnracedLogIsAChain == Spec => []UnracedLogHolds
<1> DEFINE Inv == CardInv /\ (raced \/ Chained)
<1>1. Init => Inv
  <2>1. Init => CardInv
    BY ShapeInit, RecordedInit DEF CardInv
  <2>2. ASSUME Init
        PROVE  Chained
    <3>1. log = <<>> /\ DOMAIN log = {} /\ Len(log) = 0
      BY <2>2 DEF Init
    <3>2. \A r \in Requests : req[r].pc = "free"
      BY <2>2 DEF Init, Free
    <3>3. QED
      BY <3>1, <3>2 DEF Chained, Alone, Working, Grounded, Ordered, LogIsChained,
                        UndoReturns
  <2>3. QED
    BY <2>1, <2>2
<1>2. Inv /\ [Next]_vars => Inv'
  BY CardInvStep, ChainStep
<1>3. Inv => UnracedLogHolds
  <2> SUFFICES ASSUME CardInv, Chained
               PROVE  LogIsChained /\ LatestLogIsLastWrite /\ UndoReturns
    BY DEF UnracedLogHolds
  <2>1. \A p \in Problems : Entries(p) # {} => LatestLog(p) = LastWrite(p)
    BY LastEntry DEF Chained
  <2>2. QED
    BY <2>1 DEF Chained, LatestLogIsLastWrite
<1>4. QED
  BY <1>1, <1>2, <1>3, PTL DEF Spec
=============================================================================
