------------------------ MODULE LeaderboardStreamProofs ------------------------
(***************************************************************************)
(* The hub and the staleness of LeaderboardStream for any number of pages, *)
(* writers and instances, and channels of any size.                        *)
(***************************************************************************)
EXTENDS LeaderboardStream, TLAPS

Page == [pc : {"away", "connect", "dead"} \cup Serving, at : Instances,
         roster : 0 .. MaxRoster, board : Board \cup {NoBoard},
         shown : Board \cup {NoBoard}, begun : 0 .. MaxScores, due : 0 .. MaxScores]

Writing == [pc : {"idle", "committed", "busted"}, at : Instances,
            level : 0 .. MaxScores]

\* A page that its handler has not subscribed yet is owed nothing.
PageHolds(v) ==
    /\ v \in hub => viewer[v].pc \in Serving \ {"sent"}
    /\ At(v, "open") => v \in hub
    /\ viewer[v].pc \in Serving /\ v \notin hub => viewer[v].due = 0

\* Whatever is owed to a page, its instance's cache has been busted for: a build
\* that begins now is new enough.
Owed ==
    /\ \A w \in Writers : writer[w].pc = "busted"
                          => writer[w].level <= busted[writer[w].at]
    /\ \A v \in hub : viewer[v].due <= busted[viewer[v].at]

HubInv == /\ TypeOK
          /\ \A v \in Viewers : PageHolds(v)
          /\ Owed
          /\ NoLostWakeup

-----------------------------------------------------------------------------

LEMMA Bounds ==
    /\ 0 \in 0 .. MaxScores /\ 0 \in 0 .. MaxRoster /\ 0 \in 0 .. MaxFaults
    /\ 0 \in 0 .. Buffer /\ {MaxScores, MaxRoster, MaxFaults, Buffer} \subseteq Nat
    /\ Buffer >= 1
  BY LeaderboardStreamAssumption

LEMMA AwayPage == Away \in Page /\ Away.pc = "away" /\ Away.due = 0
  BY Bounds, LeaderboardStreamAssumption DEF Away, Page

LEMMA IdleWriting == Idle \in Writing /\ Idle.pc = "idle"
  BY Bounds, LeaderboardStreamAssumption DEF Idle, Writing

LEMMA LargerOf ==
    ASSUME NEW m \in 0 .. MaxScores, NEW n \in 0 .. MaxScores
    PROVE  /\ Larger(m, n) \in 0 .. MaxScores
           /\ Larger(m, n) >= m /\ Larger(m, n) >= n
           /\ Larger(m, n) = m \/ Larger(m, n) = n
  BY Bounds DEF Larger

LEMMA HubInit == Init => HubInv
<1> SUFFICES ASSUME Init
             PROVE  HubInv
  OBVIOUS
<1>1. TypeOK
  <2>1. viewer \in [Viewers -> Page] /\ writer \in [Writers -> Writing]
    BY AwayPage, IdleWriting DEF Init
  <2>2. db \in Board
    BY Bounds DEF Init, Board
  <2>3. QED
    BY <2>1, <2>2, Bounds DEF Init, TypeOK, Page, Writing
<1>2. \A v \in Viewers : viewer[v] = Away /\ v \notin hub
  BY DEF Init
<1>3. \A w \in Writers : writer[w].pc = "idle"
  BY DEF Init, Idle
<1>4. ASSUME NEW v \in Viewers
      PROVE  PageHolds(v)
  <2>1. viewer[v].pc = "away" /\ viewer[v].due = 0 /\ v \notin hub
    BY <1>2, AwayPage
  <2>2. QED
    BY <2>1 DEF PageHolds, At, Serving
<1>5. QED
  BY <1>1, <1>2, <1>3, <1>4 DEF HubInv, Owed, NoLostWakeup, Init

\* A step of one page, of which the rest of the system sees nothing.
LEMMA PageMoves ==
    ASSUME HubInv, NEW v \in Viewers, NEW q \in Page, Step(v, q),
           UNCHANGED <<db, writer, hub, inbox, busted>>,
           cache' \in [Instances -> Board \cup {NoBoard}],
           faults' \in 0 .. MaxFaults,
           v \in hub => /\ q.pc \in Serving \ {"sent"}
                        /\ q.at = viewer[v].at /\ q.due = viewer[v].due
                        /\ q.begun = viewer[v].begun,
           v \notin hub => q.pc # "open" /\ (q.pc \in Serving => q.due = 0)
    PROVE  HubInv'
<1>1. viewer' = [viewer EXCEPT ![v] = q] /\ viewer \in [Viewers -> Page]
  BY DEF Step, HubInv, TypeOK, Page
<1>2. viewer' \in [Viewers -> Page] /\ viewer'[v] = q
      /\ \A o \in Viewers \ {v} : viewer'[o] = viewer[o]
  BY <1>1
<1>3. TypeOK'
  BY <1>2 DEF HubInv, TypeOK, Page
<1>4. \A o \in Viewers : PageHolds(o)'
  BY <1>2 DEF HubInv, PageHolds, At
<1>5. Owed' /\ NoLostWakeup'
  BY <1>2 DEF HubInv, Owed, NoLostWakeup, TypeOK
<1>6. QED
  BY <1>3, <1>4, <1>5 DEF HubInv

\* A page leaves its handler, and with it the hub.
LEMMA PageEnds ==
    ASSUME HubInv, NEW v \in Viewers, NEW q \in Page, Step(v, q), q.pc \notin Serving,
           Unsubscribe({v}), UNCHANGED <<db, cache, writer, busted>>,
           faults' \in 0 .. MaxFaults
    PROVE  HubInv'
<1>1. viewer' = [viewer EXCEPT ![v] = q] /\ viewer \in [Viewers -> Page]
  BY DEF Step, HubInv, TypeOK, Page
<1>2. viewer' \in [Viewers -> Page] /\ viewer'[v] = q
      /\ \A o \in Viewers \ {v} : viewer'[o] = viewer[o]
  BY <1>1
<1>3. /\ hub' = hub \ {v} /\ inbox' \in [Viewers -> 0 .. Buffer]
      /\ \A o \in Viewers \ {v} : inbox'[o] = inbox[o]
  BY Bounds DEF Unsubscribe, HubInv, TypeOK
<1>4. TypeOK'
  BY <1>2, <1>3 DEF HubInv, TypeOK, Page
<1>5. \A o \in Viewers : PageHolds(o)'
  BY <1>2, <1>3 DEF HubInv, PageHolds, At, Serving
<1>6. Owed' /\ NoLostWakeup'
  BY <1>2, <1>3 DEF HubInv, Owed, NoLostWakeup, TypeOK
<1>7. QED
  BY <1>4, <1>5, <1>6 DEF HubInv

LEMMA HubStep == HubInv /\ [Next]_vars => HubInv'
<1> SUFFICES ASSUME HubInv, [Next]_vars
             PROVE  HubInv'
  OBVIOUS
<1>0. /\ viewer \in [Viewers -> Page] /\ writer \in [Writers -> Writing]
      /\ db \in Board /\ db.scores \in 0 .. MaxScores /\ db.roster \in 0 .. MaxRoster
      /\ cache \in [Instances -> Board \cup {NoBoard}]
      /\ busted \in [Instances -> 0 .. MaxScores] /\ faults \in 0 .. MaxFaults
      /\ inbox \in [Viewers -> 0 .. Buffer] /\ hub \subseteq Viewers
  BY DEF HubInv, TypeOK, Page, Writing, Board
<1>1. ASSUME NEW w \in Writers, NEW i \in Instances, Commit(w, i) \/ CommitNothing(w, i)
      PROVE  HubInv'
  <2>1. db' \in Board
    BY <1>0, <1>1, Bounds DEF Commit, CommitNothing, Board
  <2>2. /\ writer' \in [Writers -> Writing] /\ writer'[w].pc # "busted"
        /\ \A o \in Writers \ {w} : writer'[o] = writer[o]
    <3>1. ASSUME NEW level \in 0 .. MaxScores
          PROVE  [pc |-> "committed", at |-> i, level |-> level] \in Writing
      BY DEF Writing
    <3>2. CASE Commit(w, i)
      <4>1. db.scores + 1 \in 0 .. MaxScores
        BY <1>0, <3>2, Bounds DEF Commit
      <4>2. QED
        BY <1>0, <3>1, <3>2, <4>1 DEF Commit
    <3>3. CASE CommitNothing(w, i)
      BY <1>0, <3>1, <3>3, Bounds DEF CommitNothing
    <3>4. QED
      BY <1>1, <3>2, <3>3
  <2>3. UNCHANGED <<cache, viewer, hub, inbox, busted, faults>>
    BY <1>1 DEF Commit, CommitNothing
  <2>4. QED
    BY <2>1, <2>2, <2>3 DEF HubInv, TypeOK, Writing, PageHolds, At, Owed, NoLostWakeup
<1>2. ASSUME NEW w \in Writers, Invalidate(w)
      PROVE  HubInv'
  <2> DEFINE i == writer[w].at
  <2>1. i \in Instances /\ writer[w].level \in 0 .. MaxScores
    BY <1>0 DEF Writing
  <2>2. /\ busted' = [busted EXCEPT ![i] = Larger(busted[i], writer[w].level)]
        /\ cache' = [cache EXCEPT ![i] = NoBoard]
        /\ writer' = [writer EXCEPT ![w].pc = "busted"]
        /\ UNCHANGED <<db, viewer, hub, inbox, faults>>
    BY <1>2 DEF Invalidate
  <2>3. /\ busted' \in [Instances -> 0 .. MaxScores]
        /\ \A j \in Instances : busted'[j] >= busted[j]
        /\ busted'[i] >= writer[w].level
    BY <1>0, <2>1, <2>2, LargerOf, Bounds
  <2>4. /\ writer' \in [Writers -> Writing]
        /\ writer'[w].at = i /\ writer'[w].level = writer[w].level
        /\ \A o \in Writers \ {w} : writer'[o] = writer[o]
    BY <1>0, <2>2 DEF Writing
  <2>5. cache' \in [Instances -> Board \cup {NoBoard}]
    BY <1>0, <2>2
  <2>6. TypeOK'
    BY <1>0, <2>2, <2>3, <2>4, <2>5 DEF TypeOK, Page, Writing
  <2>7. Owed'
    <3>1. \A o \in Writers : writer[o].level \in Nat /\ writer[o].at \in Instances
      BY <1>0, Bounds DEF Writing
    <3>2. \A v \in Viewers : viewer[v].due \in Nat /\ viewer[v].at \in Instances
      BY <1>0, Bounds DEF Page
    <3>3. \A j \in Instances : busted[j] \in Nat /\ busted'[j] \in Nat
      BY <1>0, <2>3, Bounds
    <3>4. \A o \in Writers : writer'[o].pc = "busted"
                             => writer'[o].level <= busted'[writer'[o].at]
      <4>1. ASSUME NEW o \in Writers, o # w, writer[o].pc = "busted"
            PROVE  writer[o].level <= busted'[writer[o].at]
        BY <4>1, <2>3, <3>1, <3>3 DEF HubInv, Owed
      <4>2. QED
        BY <4>1, <2>3, <2>4
    <3>5. \A v \in hub : viewer[v].due <= busted'[viewer[v].at]
      BY <1>0, <2>3, <3>2, <3>3 DEF HubInv, Owed
    <3>6. QED
      BY <2>2, <3>4, <3>5 DEF Owed
  <2>8. QED
    BY <2>2, <2>6, <2>7 DEF HubInv, PageHolds, At, NoLostWakeup
<1>3. ASSUME NEW w \in Writers, Publish(w)
      PROVE  HubInv'
  <2> DEFINE i == writer[w].at
             l == writer[w].level
  <2>1. /\ i \in Instances /\ l \in 0 .. MaxScores /\ l <= busted[i]
        /\ UNCHANGED <<db, cache, hub, busted, faults>>
    BY <1>0, <1>3 DEF Publish, Writing, HubInv, Owed
  <2>2. /\ writer' \in [Writers -> Writing] /\ writer'[w].pc # "busted"
        /\ \A o \in Writers \ {w} : writer'[o] = writer[o]
    <3>1. writer' = [writer EXCEPT ![w] = Idle]
      BY <1>3 DEF Publish
    <3>2. QED
      BY <1>0, <3>1, IdleWriting DEF Idle
  <2>3. ASSUME NEW v \in Viewers
        PROVE  /\ viewer'[v] \in Page
               /\ viewer'[v].pc = viewer[v].pc /\ viewer'[v].at = viewer[v].at
               /\ viewer'[v].begun = viewer[v].begun
               /\ v \notin Listening(i) => viewer'[v].due = viewer[v].due
               /\ viewer'[v].due = viewer[v].due \/ viewer'[v].due = l
    <3>1. viewer'[v] = IF v \in Listening(i)
                       THEN [viewer[v] EXCEPT !.due = Larger(viewer[v].due, l)]
                       ELSE viewer[v]
      BY <1>3 DEF Publish
    <3>2. viewer[v] \in Page /\ viewer[v].due \in 0 .. MaxScores
      BY <1>0 DEF Page
    <3>3. /\ Larger(viewer[v].due, l) \in 0 .. MaxScores
          /\ Larger(viewer[v].due, l) = viewer[v].due \/ Larger(viewer[v].due, l) = l
      BY <2>1, <3>2, LargerOf
    <3>4. QED
      BY <3>1, <3>2, <3>3 DEF Page
  <2>4. ASSUME NEW v \in Viewers
        PROVE  /\ inbox'[v] \in 0 .. Buffer
               /\ v \in Listening(i) => inbox'[v] # 0
               /\ v \notin Listening(i) => inbox'[v] = inbox[v]
    <3>1. inbox'[v] = IF v \in Delivered(i) THEN inbox[v] + 1 ELSE inbox[v]
      BY <1>3 DEF Publish
    <3>2. inbox[v] \in 0 .. Buffer
      BY <1>0
    <3>3. QED
      BY <3>1, <3>2, Bounds DEF Delivered
  <2>5. viewer' \in [Viewers -> Page] /\ inbox' \in [Viewers -> 0 .. Buffer]
    <3>1. /\ viewer' = [v \in Viewers |-> viewer'[v]]
          /\ inbox' = [v \in Viewers |-> inbox'[v]]
      BY <1>3 DEF Publish
    <3>2. QED
      BY <3>1, <2>3, <2>4
  <2>6. TypeOK'
    BY <1>0, <2>1, <2>2, <2>5 DEF TypeOK, Page, Writing
  <2>7. \A v \in Viewers : PageHolds(v)'
    BY <2>1, <2>3 DEF HubInv, PageHolds, At, Listening
  <2>8. Owed'
    <3>1. ASSUME NEW v \in hub
          PROVE  viewer'[v].due <= busted[viewer'[v].at]
      <4>1. v \in Viewers /\ viewer[v].due <= busted[viewer[v].at]
        BY <1>0 DEF HubInv, Owed
      <4>2. QED
        BY <4>1, <2>1, <2>3 DEF Listening
    <3>2. QED
      BY <2>1, <2>2, <3>1 DEF HubInv, Owed
  <2>9. NoLostWakeup'
    BY <1>0, <2>1, <2>3, <2>4 DEF HubInv, NoLostWakeup
  <2>10. QED
    BY <2>6, <2>7, <2>8, <2>9 DEF HubInv
<1>4. CASE CommitUnheard \/ ChangeRoster
  <2>1. db' \in Board
    BY <1>0, <1>4, Bounds DEF CommitUnheard, ChangeRoster, Board
  <2>2. QED
    BY <1>4, <2>1
       DEF CommitUnheard, ChangeRoster, HubInv, TypeOK, PageHolds, At, Owed, NoLostWakeup
<1>5. ASSUME NEW v \in Viewers, Visit(v)
      PROVE  HubInv'
  <2>1. v \notin hub /\ ~(viewer[v].pc \in Serving)
    BY <1>5 DEF Visit, At, HubInv, PageHolds, Serving
  <2> DEFINE q == [Away EXCEPT !.pc = "connect"]
  <2>2. q \in Page /\ q.pc = "connect"
    BY AwayPage DEF Page, Away
  <2>3. QED
    BY <1>0, <1>5, <2>1, <2>2, PageMoves DEF Visit, Serving
<1>6. ASSUME NEW v \in Viewers, NEW i \in Instances, Connect(v, i)
      PROVE  HubInv'
  <2> DEFINE q == [viewer[v] EXCEPT !.pc = IF CanFlush THEN "build" ELSE "dead",
                                    !.at = i, !.begun = busted[i], !.due = 0]
  <2>1. v \notin hub
    BY <1>6 DEF Connect, At, HubInv, PageHolds, Serving
  <2>2. busted[i] \in 0 .. MaxScores /\ viewer[v] \in Page
    BY <1>0
  <2>3. q \in Page /\ q.pc \in {"build", "dead"} /\ q.due = 0
    BY <2>2, Bounds DEF Page, Serving
  <2>4. Step(v, q)
    BY <1>6 DEF Connect
  <2> HIDE DEF q
  <2>5. QED
    BY <1>0, <1>6, <2>1, <2>3, <2>4, PageMoves DEF Connect
<1>7. ASSUME NEW v \in Viewers, CacheHit(v)
      PROVE  HubInv'
  <2> DEFINE c == cache[viewer[v].at]
             q == [viewer[v] EXCEPT !.pc = "send", !.board = c]
  <2>1. c \in Board \cup {NoBoard} /\ viewer[v] \in Page
    BY <1>0 DEF Page
  <2>2. Step(v, q) /\ viewer[v].pc \in Serving
    BY <1>7 DEF CacheHit, At, Serving
  <2> HIDE DEF c
  <2>3. /\ q \in Page /\ q.pc = "send" /\ q.at = viewer[v].at
        /\ q.due = viewer[v].due /\ q.begun = viewer[v].begun
    BY <2>1 DEF Page, Serving
  <2> HIDE DEF q
  <2>4. QED
    BY <1>0, <1>7, <2>2, <2>3, PageMoves DEF CacheHit, Serving, HubInv, PageHolds
<1>8. ASSUME NEW v \in Viewers, ReadRoster(v)
      PROVE  HubInv'
  <2> DEFINE q == [viewer[v] EXCEPT !.pc = "scores", !.roster = db.roster]
  <2>1. Step(v, q) /\ viewer[v].pc \in Serving /\ viewer[v] \in Page
    BY <1>0, <1>8 DEF ReadRoster, At, Serving
  <2>2. /\ q \in Page /\ q.pc = "scores" /\ q.at = viewer[v].at
        /\ q.due = viewer[v].due /\ q.begun = viewer[v].begun
    BY <1>0, <2>1 DEF Page, Serving
  <2> HIDE DEF q
  <2>3. QED
    BY <1>0, <1>8, <2>1, <2>2, PageMoves DEF ReadRoster, Serving, HubInv, PageHolds
<1>9. ASSUME NEW v \in Viewers, ReadScores(v)
      PROVE  HubInv'
  <2> DEFINE b == [roster |-> viewer[v].roster, scores |-> db.scores]
             q == [viewer[v] EXCEPT !.pc = "put", !.board = b]
  <2>1. Step(v, q) /\ viewer[v].pc \in Serving /\ viewer[v] \in Page
    BY <1>0, <1>9 DEF ReadScores, At, Serving
  <2>2. b \in Board
    BY <1>0, <2>1 DEF Page, Board
  <2> HIDE DEF b
  <2>3. /\ q \in Page /\ q.pc = "put" /\ q.at = viewer[v].at
        /\ q.due = viewer[v].due /\ q.begun = viewer[v].begun
    BY <2>1, <2>2 DEF Page, Serving
  <2> HIDE DEF q
  <2>4. QED
    BY <1>0, <1>9, <2>1, <2>3, PageMoves DEF ReadScores, Serving, HubInv, PageHolds
<1>10. ASSUME NEW v \in Viewers, Put(v)
       PROVE  HubInv'
  <2> DEFINE q == [viewer[v] EXCEPT !.pc = "send"]
  <2>1. Step(v, q) /\ viewer[v].pc \in Serving /\ viewer[v] \in Page
    BY <1>0, <1>10 DEF Put, At, Serving
  <2>2. /\ q \in Page /\ q.pc = "send" /\ q.at = viewer[v].at
        /\ q.due = viewer[v].due /\ q.begun = viewer[v].begun
    BY <2>1 DEF Page, Serving
  <2>3. cache' \in [Instances -> Board \cup {NoBoard}]
    BY <1>0, <1>10, <2>1 DEF Put, Page
  <2> HIDE DEF q
  <2>4. QED
    BY <1>0, <1>10, <2>1, <2>2, <2>3, PageMoves DEF Put, Serving, HubInv, PageHolds
<1>11. ASSUME NEW v \in Viewers, BuildFails(v)
       PROVE  HubInv'
  <2> DEFINE q == [viewer[v] EXCEPT !.pc = IF v \in hub THEN "open" ELSE "dead",
                                    !.roster = 0]
  <2>1. Step(v, q) /\ viewer[v] \in Page
    BY <1>0, <1>11 DEF BuildFails
  <2>2. /\ q \in Page /\ q.pc = (IF v \in hub THEN "open" ELSE "dead")
        /\ q.at = viewer[v].at
        /\ q.due = viewer[v].due /\ q.begun = viewer[v].begun
    BY <2>1, Bounds DEF Page, Serving
  <2>3. faults' \in 0 .. MaxFaults
    BY <1>0, <1>11, Bounds DEF BuildFails
  <2> HIDE DEF q
  <2>4. QED
    BY <1>0, <1>11, <2>1, <2>2, <2>3, PageMoves DEF BuildFails, Serving
<1>12. ASSUME NEW v \in Viewers, Send(v)
       PROVE  HubInv'
  <2> DEFINE q == [viewer[v] EXCEPT !.pc = IF v \in hub THEN "open" ELSE "sent",
                                    !.shown = viewer[v].board,
                                    !.board = NoBoard, !.roster = 0]
  <2>1. Step(v, q) /\ viewer[v].pc \in Serving /\ viewer[v] \in Page
    BY <1>0, <1>12 DEF Send, At, Serving
  <2>2. /\ q \in Page /\ q.pc = (IF v \in hub THEN "open" ELSE "sent")
        /\ q.at = viewer[v].at
        /\ q.due = viewer[v].due /\ q.begun = viewer[v].begun
    BY <2>1, Bounds DEF Page, Serving
  <2> HIDE DEF q
  <2>3. QED
    BY <1>0, <1>12, <2>1, <2>2, PageMoves DEF Send, Serving, HubInv, PageHolds
<1>13. ASSUME NEW v \in Viewers, Subscribe(v)
       PROVE  HubInv'
  <2> DEFINE q == [viewer[v] EXCEPT !.pc = "open"]
  <2>1. /\ viewer' = [viewer EXCEPT ![v] = q] /\ viewer[v] \in Page
        /\ viewer[v].pc = "sent" /\ hub' = hub \cup {v}
        /\ UNCHANGED <<db, cache, writer, inbox, busted, faults>>
    BY <1>0, <1>13 DEF Subscribe, At, Step
  <2>2. v \notin hub /\ viewer[v].due = 0
    BY <2>1 DEF HubInv, PageHolds, Serving
  <2>3. /\ q \in Page /\ q.pc = "open" /\ q.at = viewer[v].at
        /\ q.due = 0 /\ q.begun = viewer[v].begun
    BY <2>1, <2>2 DEF Page, Serving
  <2> HIDE DEF q
  <2>4. /\ viewer' \in [Viewers -> Page] /\ viewer'[v] = q
        /\ \A o \in Viewers \ {v} : viewer'[o] = viewer[o]
    BY <1>0, <2>1, <2>3
  <2>5. TypeOK'
    BY <1>0, <2>1, <2>4 DEF TypeOK, Page, Writing
  <2>6. \A o \in Viewers : PageHolds(o)'
    BY <2>1, <2>3, <2>4 DEF HubInv, PageHolds, At, Serving
  <2>7. q.begun >= q.due /\ q.due <= busted[q.at]
    BY <1>0, <2>1, <2>3, Bounds DEF Page
  <2>8. Owed' /\ NoLostWakeup'
    BY <1>0, <2>1, <2>4, <2>7 DEF HubInv, Owed, NoLostWakeup
  <2>9. QED
    BY <2>5, <2>6, <2>8 DEF HubInv
<1>14. ASSUME NEW v \in Viewers, Receive(v)
       PROVE  HubInv'
  <2> DEFINE q == [viewer[v] EXCEPT !.pc = "build", !.begun = busted[viewer[v].at]]
  <2>1. /\ viewer' = [viewer EXCEPT ![v] = q] /\ viewer[v] \in Page
        /\ viewer[v].pc = "open" /\ inbox' = [inbox EXCEPT ![v] = inbox[v] - 1]
        /\ inbox[v] > 0
        /\ UNCHANGED <<db, cache, writer, hub, busted, faults>>
    BY <1>0, <1>14 DEF Receive, At, Step
  <2>2. v \in hub /\ busted[viewer[v].at] \in 0 .. MaxScores
    BY <1>0, <2>1 DEF HubInv, PageHolds, At, Page
  <2>3. /\ q \in Page /\ q.pc = "build" /\ q.at = viewer[v].at
        /\ q.due = viewer[v].due /\ q.begun = busted[viewer[v].at]
    BY <2>1, <2>2 DEF Page, Serving
  <2> HIDE DEF q
  <2>4. /\ viewer' \in [Viewers -> Page] /\ viewer'[v] = q
        /\ \A o \in Viewers \ {v} : viewer'[o] = viewer[o]
    BY <1>0, <2>1, <2>3
  <2>5. /\ inbox' \in [Viewers -> 0 .. Buffer]
        /\ \A o \in Viewers \ {v} : inbox'[o] = inbox[o]
    BY <1>0, <2>1, Bounds
  <2>6. TypeOK'
    BY <1>0, <2>1, <2>4, <2>5 DEF TypeOK, Page, Writing
  <2>7. \A o \in Viewers : PageHolds(o)'
    BY <2>1, <2>2, <2>3, <2>4 DEF HubInv, PageHolds, At, Serving
  <2>8. q.begun >= q.due /\ q.due <= busted[q.at]
    BY <1>0, <2>2, <2>3, Bounds DEF Page, HubInv, Owed
  <2>9. Owed' /\ NoLostWakeup'
    BY <1>0, <2>1, <2>4, <2>5, <2>8 DEF HubInv, Owed, NoLostWakeup
  <2>10. QED
    BY <2>6, <2>7, <2>9 DEF HubInv
<1>15. ASSUME NEW v \in Viewers, Deadline(v)
       PROVE  HubInv'
  <2> DEFINE q == [viewer[v] EXCEPT !.pc = "connect"]
  <2>1. q \in Page /\ q.pc \notin Serving
    BY <1>0 DEF Page, Serving
  <2>2. Step(v, q)
    BY <1>15 DEF Deadline
  <2> HIDE DEF q
  <2>3. QED
    BY <1>0, <1>15, <2>1, <2>2, PageEnds DEF Deadline
<1>16. ASSUME NEW v \in Viewers, WriteFails(v)
       PROVE  HubInv'
  <2> DEFINE q == [viewer[v] EXCEPT !.pc = "connect", !.board = NoBoard, !.roster = 0]
  <2>1. q \in Page /\ q.pc \notin Serving
    BY <1>0, Bounds DEF Page, Serving
  <2>2. Step(v, q) /\ faults' \in 0 .. MaxFaults
    BY <1>0, <1>16, Bounds DEF WriteFails
  <2> HIDE DEF q
  <2>3. QED
    BY <1>16, <2>1, <2>2, PageEnds DEF WriteFails
<1>17. ASSUME NEW v \in Viewers, Leave(v)
       PROVE  HubInv'
  <2>1. Away \in Page /\ Away.pc \notin Serving
    BY AwayPage DEF Away, Serving
  <2>2. QED
    BY <1>0, <1>17, <2>1, PageEnds DEF Leave
<1>18. ASSUME NEW i \in Instances, Expire(i)
       PROVE  HubInv'
  <2>1. cache' \in [Instances -> Board \cup {NoBoard}]
    BY <1>0, <1>18 DEF Expire
  <2>2. QED
    BY <1>18, <2>1 DEF Expire, HubInv, TypeOK, PageHolds, At, Owed, NoLostWakeup
<1>19. ASSUME NEW i \in Instances, Restart(i)
       PROVE  HubInv'
  <2> DEFINE lost == {v \in Viewers : viewer[v].at = i /\ viewer[v].pc \in Serving}
  <2>1. /\ UNCHANGED db /\ faults' \in 0 .. MaxFaults
        /\ cache' \in [Instances -> Board \cup {NoBoard}]
        /\ busted' \in [Instances -> 0 .. MaxScores]
        /\ \A j \in Instances \ {i} : busted'[j] = busted[j]
    <3>1. UNCHANGED db /\ faults' = faults + 1 /\ faults < MaxFaults
      BY <1>19 DEF Restart
    <3>2. faults' \in 0 .. MaxFaults
      BY <1>0, <3>1, Bounds
    <3>3. cache' = [cache EXCEPT ![i] = NoBoard]
      BY <1>19 DEF Restart
    <3>4. cache' \in [Instances -> Board \cup {NoBoard}]
      BY <1>0, <3>3
    <3>5. busted' = [busted EXCEPT ![i] = 0] /\ 0 \in 0 .. MaxScores
      BY <1>19, Bounds DEF Restart
    <3>6. QED
      BY <1>0, <3>1, <3>2, <3>4, <3>5
  <2>2. \A w \in Writers : writer'[w] = IF writer[w].at = i THEN Idle ELSE writer[w]
    BY <1>19 DEF Restart
  <2>3. writer' \in [Writers -> Writing]
    <3>1. writer' = [w \in Writers |-> IF writer[w].at = i THEN Idle ELSE writer[w]]
      BY <1>19 DEF Restart
    <3>2. QED
      BY <1>0, <3>1, IdleWriting
  <2>4. \A v \in Viewers :
           viewer'[v] = IF v \in lost
                        THEN [viewer[v] EXCEPT !.pc = "connect", !.board = NoBoard,
                                               !.roster = 0]
                        ELSE viewer[v]
    BY <1>19 DEF Restart
  <2>5. viewer' \in [Viewers -> Page] /\ \A v \in lost : viewer'[v].pc = "connect"
    <3>1. viewer' = [v \in Viewers |-> viewer'[v]]
      BY <1>19 DEF Restart
    <3>2. ASSUME NEW v \in Viewers
          PROVE  viewer'[v] \in Page /\ (v \in lost => viewer'[v].pc = "connect")
      BY <1>0, <2>4, Bounds DEF Page
    <3>3. QED
      BY <3>1, <3>2
  <2>6. hub' = hub \ lost /\ \A v \in Viewers \ lost : inbox'[v] = inbox[v]
    BY <1>19 DEF Restart, Unsubscribe
  <2>7. inbox' \in [Viewers -> 0 .. Buffer]
    BY <1>0, <1>19, Bounds DEF Restart, Unsubscribe
  <2>8. TypeOK'
    BY <1>0, <2>1, <2>3, <2>5, <2>6, <2>7 DEF TypeOK, Page, Writing
  <2>9. \A v \in hub' : /\ v \in Viewers \ lost /\ v \in hub
                        /\ viewer[v].at \in Instances \ {i}
                        /\ viewer'[v] = viewer[v]
    BY <1>0, <2>4, <2>6 DEF HubInv, PageHolds, Page
  <2>10. \A v \in Viewers : PageHolds(v)'
    BY <2>4, <2>5, <2>6 DEF HubInv, PageHolds, At, Serving
  <2>11. Owed'
    <3>1. ASSUME NEW w \in Writers, writer'[w].pc = "busted"
          PROVE  writer'[w].level <= busted'[writer'[w].at]
      <4>1. writer[w].at # i /\ writer'[w] = writer[w]
        BY <2>2, <3>1, IdleWriting
      <4>2. writer[w].at \in Instances \ {i}
        BY <1>0, <4>1 DEF Writing
      <4>3. busted'[writer'[w].at] = busted[writer[w].at]
        BY <2>1, <4>1, <4>2
      <4>4. QED
        BY <3>1, <4>1, <4>3 DEF HubInv, Owed
    <3>2. QED
      BY <2>1, <2>9, <3>1 DEF HubInv, Owed
  <2>12. NoLostWakeup'
    BY <2>6, <2>9 DEF HubInv, NoLostWakeup
  <2>13. QED
    BY <2>8, <2>10, <2>11, <2>12 DEF HubInv
<1>20. CASE UNCHANGED vars
  BY <1>20 DEF vars, HubInv, TypeOK, PageHolds, At, Owed, NoLostWakeup
<1>21. QED
  BY <1>1, <1>2, <1>3, <1>4, <1>5, <1>6, <1>7, <1>8, <1>9, <1>10, <1>11, <1>12,
     <1>13, <1>14, <1>15, <1>16, <1>17, <1>18, <1>19, <1>20 DEF Next, StreamStep

LEMMA HubInvAlways == Spec => []HubInv
  BY HubInit, HubStep, PTL DEF Spec

\* The channels in the hub are those of running handlers, on whatever path a
\* handler returned (the deferred unsubscribe of comp_sse.go, hub.go).
THEOREM SubscriptionsAreServed == Spec => []SubscribedWhileServed
<1>1. HubInv => SubscribedWhileServed
  BY DEF HubInv, PageHolds, SubscribedWhileServed
<1>2. QED
  BY <1>1, HubInvAlways, PTL

\* A page whose frame was dropped because its channel was full has another one
\* waiting, or has begun to build after the bust (Publish of hub.go).
THEOREM NoWakeupIsLost == Spec => []NoLostWakeup
<1>1. HubInv => NoLostWakeup
  BY DEF HubInv
<1>2. QED
  BY <1>1, HubInvAlways, PTL
-----------------------------------------------------------------------------
(* Why pages converge: what is stale comes from what is stale upstream.      *)

Behind(board) == board \notin {NoBoard, db}

\* Builds that have read a table before its last write and have yet to fill the cache.
StaleReaders == {v \in Viewers : \/ At(v, "scores") /\ viewer[v].roster # db.roster
                                 \/ At(v, "put") /\ Behind(viewer[v].board)}

StaleCaches == {i \in Instances : Behind(cache[i])}

StaleFrames == {v \in Viewers : At(v, "send") /\ Behind(viewer[v].board)}

StalePages == {v \in Viewers : Behind(viewer[v].shown)}

\* Without a write no build becomes stale; a cache becomes stale by such a build only, a
\* frame by a build or a cache, and a page by a frame; and a page that stays is not blanked.
StalenessFlowsDown ==
    db' = db =>
        /\ StaleReaders' \subseteq StaleReaders
        /\ StaleReaders = {} => StaleCaches' \subseteq StaleCaches
        /\ StaleReaders = {} /\ StaleCaches = {} => StaleFrames' \subseteq StaleFrames
        /\ StaleFrames = {} => StalePages' \subseteq StalePages
        /\ \A v \in Viewers : Stays(v) /\ Stays(v)' /\ viewer[v].shown # NoBoard
                              => viewer'[v].shown # NoBoard

\* What a page and a cache have of it in one step.
PageFlows(v) ==
    /\ v \in StaleReaders' => v \in StaleReaders
    /\ v \in StaleFrames' => v \in StaleFrames \/ StaleReaders # {} \/ StaleCaches # {}
    /\ v \in StalePages' => v \in StalePages \cup StaleFrames
    /\ Stays(v) /\ Stays(v)' /\ viewer[v].shown # NoBoard => viewer'[v].shown # NoBoard
CacheFlows(i) == i \in StaleCaches' => i \in StaleCaches \/ StaleReaders # {}

\* A board is at hand wherever one is put into the cache or sent.
BoardsAtHand == \A v \in Viewers : At(v, "put") \/ At(v, "send") => viewer[v].board # NoBoard

LEMMA FlowsTogether ==
    ASSUME \A v \in Viewers : PageFlows(v), \A i \in Instances : CacheFlows(i)
    PROVE  StalenessFlowsDown
<1>1. StaleReaders' \subseteq Viewers /\ StaleFrames' \subseteq Viewers /\ StalePages' \subseteq Viewers
      /\ StaleCaches' \subseteq Instances
  BY DEF StaleReaders, StaleFrames, StalePages, StaleCaches
<1>2. QED
  BY <1>1 DEF StalenessFlowsDown, PageFlows, CacheFlows

\* A page of which nothing changes that a build has to do with.
LEMMA PageRests ==
    ASSUME NEW v \in Viewers, db' = db,
           viewer'[v].pc = viewer[v].pc, viewer'[v].roster = viewer[v].roster,
           viewer'[v].board = viewer[v].board, viewer'[v].shown = viewer[v].shown
    PROVE  PageFlows(v) /\ (BoardsAtHand => (At(v, "put") \/ At(v, "send") => viewer[v].board # NoBoard)')
  BY DEF PageFlows, StaleReaders, StaleFrames, StalePages, Behind, At, BoardsAtHand

LEMMA CacheRests ==
    ASSUME NEW i \in Instances, db' = db, cache'[i] \in {cache[i], NoBoard}
    PROVE  CacheFlows(i)
  BY DEF CacheFlows, StaleCaches, Behind

\* A page that is not building any more, or not yet.
LEMMA PageLeaves ==
    ASSUME NEW v \in Viewers, db' = db, viewer'[v].pc \notin {"scores", "put", "send"},
           \/ viewer'[v].shown = viewer[v].shown
           \/ viewer'[v].shown = NoBoard /\ ~(Stays(v) /\ Stays(v)')
    PROVE  PageFlows(v) /\ ~At(v, "put")' /\ ~At(v, "send")'
  BY DEF PageFlows, StaleReaders, StaleFrames, StalePages, Behind, At

\* Every step of a page alone.
LEMMA OnePageFlows ==
    ASSUME TypeOK, BoardsAtHand, NEW v \in Viewers, NEW q, Step(v, q), db' = db,
           cache' = cache,
           q.pc \notin {"scores", "put", "send"},
           \/ q.shown = viewer[v].shown
           \/ q.shown = NoBoard /\ "away" \in {q.pc, viewer[v].pc}
    PROVE  StalenessFlowsDown /\ BoardsAtHand'
<1>1. viewer'[v] = q /\ \A o \in Viewers \ {v} : viewer'[o] = viewer[o]
  BY DEF Step, TypeOK
<1>2. PageFlows(v) /\ ~At(v, "put")' /\ ~At(v, "send")'
  <2>1. "away" \in {q.pc, viewer[v].pc} => ~(Stays(v) /\ Stays(v)')
    BY <1>1 DEF Stays, At
  <2>2. QED
    BY <1>1, <2>1, PageLeaves
<1>3. ASSUME NEW o \in Viewers \ {v}
      PROVE  PageFlows(o) /\ (At(o, "put") \/ At(o, "send") => viewer[o].board # NoBoard)'
  BY <1>1, <1>3, PageRests
<1>4. \A i \in Instances : CacheFlows(i)
  BY CacheRests
<1>5. QED
  BY <1>2, <1>3, <1>4, FlowsTogether DEF BoardsAtHand

\* A step of a page that builds.
LEMMA OneBuildFlows ==
    ASSUME TypeOK, BoardsAtHand, NEW v \in Viewers, NEW q, Step(v, q), db' = db,
           \A i \in Instances : CacheFlows(i), PageFlows(v),
           q.pc \in {"put", "send"} => q.board # NoBoard
    PROVE  StalenessFlowsDown /\ BoardsAtHand'
<1>1. viewer'[v] = q /\ \A o \in Viewers \ {v} : viewer'[o] = viewer[o]
  BY DEF Step, TypeOK
<1>2. (At(v, "put") \/ At(v, "send") => viewer[v].board # NoBoard)'
  BY <1>1 DEF At
<1>3. ASSUME NEW o \in Viewers \ {v}
      PROVE  PageFlows(o) /\ (At(o, "put") \/ At(o, "send") => viewer[o].board # NoBoard)'
  BY <1>1, <1>3, PageRests
<1>4. QED
  BY <1>2, <1>3, FlowsTogether DEF BoardsAtHand

LEMMA StalenessStep ==
    ASSUME TypeOK, BoardsAtHand, [Next]_vars
    PROVE  StalenessFlowsDown /\ BoardsAtHand'
<1>0. /\ viewer \in [Viewers -> Page] /\ db \in Board
      /\ db.scores \in Int /\ db.roster \in Int /\ db.scores + 1 # db.scores /\ db.roster + 1 # db.roster
      /\ cache \in [Instances -> Board \cup {NoBoard}]
  <2>1. db.scores \in 0 .. MaxScores /\ db.roster \in 0 .. MaxRoster
    BY DEF TypeOK, Board
  <2>2. QED
    BY <2>1 DEF TypeOK, Page
<1>1. CASE db' # db /\ viewer' = viewer
  BY <1>1 DEF StalenessFlowsDown, BoardsAtHand, At
<1>2. CASE /\ db' = db /\ cache' \in [Instances -> Board \cup {NoBoard}]
           /\ \A i \in Instances : cache'[i] \in {cache[i], NoBoard}
           /\ \A v \in Viewers : /\ viewer'[v].pc = viewer[v].pc
                                 /\ viewer'[v].roster = viewer[v].roster
                                 /\ viewer'[v].board = viewer[v].board
                                 /\ viewer'[v].shown = viewer[v].shown
  <2>1. ASSUME NEW v \in Viewers
        PROVE  PageFlows(v) /\ (At(v, "put") \/ At(v, "send") => viewer[v].board # NoBoard)'
    BY <1>2, PageRests
  <2>2. \A i \in Instances : CacheFlows(i)
    BY <1>2, CacheRests
  <2>3. QED
    BY <2>1, <2>2, FlowsTogether DEF BoardsAtHand
<1>3. ASSUME NEW w \in Writers, NEW i \in Instances, Commit(w, i)
      PROVE  StalenessFlowsDown /\ BoardsAtHand'
  <2>1. db' # db /\ viewer' = viewer
    BY <1>0, <1>3 DEF Commit, Board
  <2>2. QED
    BY <1>1, <2>1
<1>4. ASSUME CommitUnheard \/ ChangeRoster
      PROVE  StalenessFlowsDown /\ BoardsAtHand'
  <2>1. db' # db /\ viewer' = viewer
    BY <1>0, <1>4 DEF CommitUnheard, ChangeRoster, Board
  <2>2. QED
    BY <1>1, <2>1
<1>5. ASSUME NEW w \in Writers, (\E i \in Instances : CommitNothing(w, i)) \/ Invalidate(w)
      PROVE  StalenessFlowsDown /\ BoardsAtHand'
  BY <1>0, <1>2, <1>5 DEF CommitNothing, Invalidate
<1>6. ASSUME NEW w \in Writers, Publish(w)
      PROVE  StalenessFlowsDown /\ BoardsAtHand'
  <2>1. db' = db /\ cache' = cache
    BY <1>6 DEF Publish
  <2>2. ASSUME NEW v \in Viewers
        PROVE  /\ viewer'[v].pc = viewer[v].pc /\ viewer'[v].roster = viewer[v].roster
               /\ viewer'[v].board = viewer[v].board /\ viewer'[v].shown = viewer[v].shown
    <3>1. viewer[v] \in Page
      BY <1>0
    <3>2. \/ viewer'[v] = viewer[v]
          \/ \E d : viewer'[v] = [viewer[v] EXCEPT !.due = d]
      BY <1>6 DEF Publish
    <3>3. QED
      BY <3>1, <3>2 DEF Page
  <2>3. QED
    BY <1>0, <1>2, <2>1, <2>2
<1>7. ASSUME NEW v \in Viewers, Visit(v)
      PROVE  StalenessFlowsDown /\ BoardsAtHand'
  <2> DEFINE q == [Away EXCEPT !.pc = "connect"]
  <2>1. /\ Step(v, q) /\ db' = db /\ cache' = cache /\ viewer[v].pc = "away"
        /\ q.pc = "connect" /\ q.shown = NoBoard
    BY <1>7 DEF Visit, At, Away
  <2> HIDE DEF q
  <2>2. QED
    BY <2>1, OnePageFlows
<1>8. ASSUME NEW v \in Viewers, Leave(v)
      PROVE  StalenessFlowsDown /\ BoardsAtHand'
  <2>1. /\ Step(v, Away) /\ db' = db /\ cache' = cache
        /\ Away.pc = "away" /\ Away.shown = NoBoard
    BY <1>8 DEF Leave, Away
  <2>2. QED
    BY <2>1, OnePageFlows
<1>9. ASSUME NEW v \in Viewers, NEW i \in Instances, Connect(v, i)
      PROVE  StalenessFlowsDown /\ BoardsAtHand'
  <2> DEFINE q == [viewer[v] EXCEPT !.pc = IF CanFlush THEN "build" ELSE "dead",
                                    !.at = i, !.begun = busted[i], !.due = 0]
  <2>1. viewer[v] \in Page
    BY <1>0
  <2>2. /\ Step(v, q) /\ db' = db /\ cache' = cache
        /\ q.pc \in {"build", "dead"} /\ q.shown = viewer[v].shown
    BY <1>9, <2>1 DEF Connect, Page
  <2> HIDE DEF q
  <2>3. QED
    BY <2>2, OnePageFlows
<1>10. ASSUME NEW v \in Viewers, CacheHit(v)
       PROVE  StalenessFlowsDown /\ BoardsAtHand'
  <2> DEFINE i == viewer[v].at
             q == [viewer[v] EXCEPT !.pc = "send", !.board = cache[i]]
  <2>1. viewer[v] \in Page /\ i \in Instances
    BY <1>0 DEF Page
  <2>2. /\ Step(v, q) /\ db' = db /\ cache' = cache /\ cache[i] # NoBoard
        /\ q.pc = "send" /\ q.shown = viewer[v].shown /\ q.board = cache[i]
    BY <1>10, <2>1 DEF CacheHit, Page
  <2> HIDE DEF q
  <2>3. viewer'[v] = q
    BY <1>0, <2>2 DEF Step
  <2>4. Behind(cache[i]) => i \in StaleCaches
    BY <2>1 DEF StaleCaches
  <2>5. PageFlows(v)
    BY <2>2, <2>3, <2>4 DEF PageFlows, StaleReaders, StaleFrames, StalePages, Behind, At
  <2>6. QED
    BY <2>2, <2>5, CacheRests, OneBuildFlows
<1>11. ASSUME NEW v \in Viewers, ReadRoster(v)
       PROVE  StalenessFlowsDown /\ BoardsAtHand'
  <2> DEFINE q == [viewer[v] EXCEPT !.pc = "scores", !.roster = db.roster]
  <2>1. viewer[v] \in Page
    BY <1>0
  <2>2. /\ Step(v, q) /\ db' = db /\ cache' = cache
        /\ q.pc = "scores" /\ q.shown = viewer[v].shown /\ q.roster = db.roster
    BY <1>11, <2>1 DEF ReadRoster, Page
  <2> HIDE DEF q
  <2>3. viewer'[v] = q
    BY <1>0, <2>2 DEF Step
  <2>4. PageFlows(v)
    BY <2>2, <2>3 DEF PageFlows, StaleReaders, StaleFrames, StalePages, Behind, At
  <2>5. QED
    BY <2>2, <2>4, CacheRests, OneBuildFlows
<1>12. ASSUME NEW v \in Viewers, ReadScores(v)
       PROVE  StalenessFlowsDown /\ BoardsAtHand'
  <2> DEFINE board == [roster |-> viewer[v].roster, scores |-> db.scores]
             q == [viewer[v] EXCEPT !.pc = "put", !.board = board]
  <2>1. viewer[v] \in Page
    BY <1>0
  <2>2. board \in Board /\ (viewer[v].roster = db.roster => board = db)
    BY <1>0, <2>1 DEF Page, Board
  <2> HIDE DEF board
  <2>3. /\ Step(v, q) /\ db' = db /\ cache' = cache /\ viewer[v].pc = "scores"
        /\ q.pc = "put" /\ q.shown = viewer[v].shown /\ q.board = board
    BY <1>12, <2>1 DEF ReadScores, Page, At, board
  <2> HIDE DEF q
  <2>4. viewer'[v] = q
    BY <1>0, <2>3 DEF Step
  <2>5. board # NoBoard
    BY <2>2, NoBoardAssumption
  <2>6. PageFlows(v)
    BY <2>2, <2>3, <2>4 DEF PageFlows, StaleReaders, StaleFrames, StalePages, Behind, At
  <2>7. QED
    BY <2>3, <2>5, <2>6, CacheRests, OneBuildFlows
<1>13. ASSUME NEW v \in Viewers, Put(v)
       PROVE  StalenessFlowsDown /\ BoardsAtHand'
  <2> DEFINE q == [viewer[v] EXCEPT !.pc = "send"]
  <2>1. viewer[v] \in Page /\ viewer[v].at \in Instances
    BY <1>0 DEF Page
  <2>2. /\ Step(v, q) /\ db' = db /\ viewer[v].pc = "put"
        /\ cache' = [cache EXCEPT ![viewer[v].at] = viewer[v].board]
        /\ q.pc = "send" /\ q.shown = viewer[v].shown /\ q.board = viewer[v].board
    BY <1>13, <2>1 DEF Put, Page, At
  <2> HIDE DEF q
  <2>3. viewer'[v] = q /\ viewer[v].board # NoBoard
    BY <1>0, <2>2 DEF Step, BoardsAtHand, At
  <2>4. Behind(viewer[v].board) => v \in StaleReaders
    BY <2>2 DEF StaleReaders, At
  <2>5. PageFlows(v)
    BY <2>2, <2>3, <2>4 DEF PageFlows, StaleReaders, StaleFrames, StalePages, Behind, At
  <2>6. ASSUME NEW i \in Instances
        PROVE  CacheFlows(i)
    <3>1. CASE i = viewer[v].at
      <4>1. cache'[i] = viewer[v].board
        BY <1>0, <2>2, <3>1
      <4>2. QED
        BY <2>2, <2>4, <4>1 DEF CacheFlows, StaleCaches, Behind
    <3>2. CASE i # viewer[v].at
      <4>1. cache'[i] = cache[i]
        BY <1>0, <2>2, <3>2
      <4>2. QED
        BY <2>2, <4>1, CacheRests
    <3>3. QED
      BY <3>1, <3>2
  <2>7. QED
    BY <2>2, <2>3, <2>5, <2>6, OneBuildFlows
<1>14. ASSUME NEW v \in Viewers, Send(v)
       PROVE  StalenessFlowsDown /\ BoardsAtHand'
  <2> DEFINE q == [viewer[v] EXCEPT !.pc = IF v \in hub THEN "open" ELSE "sent",
                                    !.shown = viewer[v].board,
                                    !.board = NoBoard, !.roster = 0]
  <2>1. viewer[v] \in Page
    BY <1>0
  <2>2. /\ Step(v, q) /\ db' = db /\ cache' = cache /\ viewer[v].pc = "send"
        /\ q.pc \in {"open", "sent"} /\ q.shown = viewer[v].board
    BY <1>14, <2>1 DEF Send, Page, At
  <2> HIDE DEF q
  <2>3. viewer'[v] = q /\ viewer[v].board # NoBoard
    BY <1>0, <2>2 DEF Step, BoardsAtHand, At
  <2>4. Behind(viewer[v].board) => v \in StaleFrames
    BY <2>2 DEF StaleFrames, At
  <2>5. PageFlows(v)
    BY <2>2, <2>3, <2>4 DEF PageFlows, StaleReaders, StaleFrames, StalePages, Behind, At
  <2>6. QED
    BY <2>2, <2>5, CacheRests, OneBuildFlows
<1>15. ASSUME NEW v \in Viewers, Subscribe(v) \/ Deadline(v) \/ BuildFails(v) \/ WriteFails(v)
       PROVE  StalenessFlowsDown /\ BoardsAtHand'
  <2>1. viewer[v] \in Page
    BY <1>0
  <2>2. PICK q : /\ Step(v, q) /\ db' = db /\ cache' = cache
                 /\ q.pc \notin {"scores", "put", "send"} /\ q.shown = viewer[v].shown
    <3>1. CASE Subscribe(v)
      BY <2>1, <3>1 DEF Subscribe, Page
    <3>2. CASE Deadline(v)
      BY <2>1, <3>2 DEF Deadline, Page
    <3>3. CASE BuildFails(v)
      <4> DEFINE q == [viewer[v] EXCEPT !.pc = IF v \in hub THEN "open" ELSE "dead",
                                        !.roster = 0]
      <4>1. /\ Step(v, q) /\ db' = db /\ cache' = cache
            /\ q.pc \in {"open", "dead"} /\ q.shown = viewer[v].shown
        BY <2>1, <3>3 DEF BuildFails, Page
      <4> HIDE DEF q
      <4>2. QED
        BY <4>1
    <3>4. CASE WriteFails(v)
      <4> DEFINE q == [viewer[v] EXCEPT !.pc = "connect", !.board = NoBoard, !.roster = 0]
      <4>1. /\ Step(v, q) /\ db' = db /\ cache' = cache
            /\ q.pc = "connect" /\ q.shown = viewer[v].shown
        BY <2>1, <3>4 DEF WriteFails, Page
      <4> HIDE DEF q
      <4>2. QED
        BY <4>1
    <3>5. QED
      BY <1>15, <3>1, <3>2, <3>3, <3>4
  <2>3. QED
    BY <2>2, OnePageFlows
<1>16. ASSUME NEW v \in Viewers, Receive(v)
       PROVE  StalenessFlowsDown /\ BoardsAtHand'
  <2> DEFINE q == [viewer[v] EXCEPT !.pc = "build", !.begun = busted[viewer[v].at]]
  <2>1. viewer[v] \in Page
    BY <1>0
  <2>2. /\ Step(v, q) /\ db' = db /\ cache' = cache
        /\ q.pc = "build" /\ q.shown = viewer[v].shown
    BY <1>16, <2>1 DEF Receive, Page
  <2> HIDE DEF q
  <2>3. QED
    BY <2>2, OnePageFlows
<1>17. ASSUME NEW i \in Instances, Expire(i)
       PROVE  StalenessFlowsDown /\ BoardsAtHand'
  BY <1>0, <1>2, <1>17 DEF Expire
<1>18. ASSUME NEW i \in Instances, Restart(i)
       PROVE  StalenessFlowsDown /\ BoardsAtHand'
  <2> DEFINE lost == {v \in Viewers : viewer[v].at = i /\ viewer[v].pc \in Serving}
  <2>1. /\ db' = db /\ cache' = [cache EXCEPT ![i] = NoBoard]
        /\ \A v \in Viewers : viewer'[v] = IF v \in lost
                                           THEN [viewer[v] EXCEPT !.pc = "connect",
                                                   !.board = NoBoard, !.roster = 0]
                                           ELSE viewer[v]
    BY <1>18 DEF Restart
  <2> HIDE DEF lost
  <2>2. ASSUME NEW v \in Viewers
        PROVE  PageFlows(v) /\ (At(v, "put") \/ At(v, "send") => viewer[v].board # NoBoard)'
    <3>1. CASE v \in lost
      <4>1. viewer[v] \in Page
        BY <1>0
      <4>2. viewer'[v].pc = "connect" /\ viewer'[v].shown = viewer[v].shown
        BY <2>1, <3>1, <4>1 DEF Page
      <4>3. QED
        BY <2>1, <4>2, PageLeaves
    <3>2. CASE v \notin lost
      BY <2>1, <3>2, PageRests
    <3>3. QED
      BY <3>1, <3>2
  <2>3. ASSUME NEW j \in Instances
        PROVE  CacheFlows(j)
    BY <1>0, <2>1, CacheRests
  <2>4. QED
    BY <2>2, <2>3, FlowsTogether DEF BoardsAtHand
<1>19. CASE UNCHANGED vars
  BY <1>0, <1>2, <1>19 DEF vars
<1>20. QED
  BY <1>3, <1>4, <1>5, <1>6, <1>7, <1>8, <1>9, <1>10, <1>11, <1>12, <1>13, <1>14, <1>15,
     <1>16, <1>17, <1>18, <1>19 DEF Next, StreamStep

\* For any number of pages, writers and instances: what is stale comes from what is stale
\* upstream.  While nothing is written no further build is behind; a cache falls behind by
\* such a build only, a frame by a build or a cache, a page by a frame; and a page that
\* stays keeps a board.  So once the builds that read too early are over, the entries they
\* cached (two seconds, or until a bust) and the frames on their way, in this order, none
\* comes back, and a page that is current stays so (comp_leaderboard.go, comp_sse.go).
THEOREM StalenessRunsDry == Spec => [][StalenessFlowsDown]_vars
<1>1. Init => BoardsAtHand
  BY DEF Init, BoardsAtHand, At, Away
<1>2. HubInv => TypeOK
  BY DEF HubInv
<1>3. TypeOK /\ BoardsAtHand /\ [Next]_vars => StalenessFlowsDown /\ BoardsAtHand'
  BY StalenessStep
<1>4. QED
  BY <1>1, <1>2, <1>3, HubInvAlways, PTL DEF Spec
=============================================================================
