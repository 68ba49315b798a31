-------------------------- MODULE LeaderboardStream --------------------------
(***************************************************************************)
(* The live leaderboard of one competition: the writers that bust the      *)
(* cache and publish (comp_action.go, comp_verify.go), the cached builder  *)
(* and the event stream (comp_leaderboard.go, comp_sse.go), the hub        *)
(* (internal/sse/hub.go), the request deadline of the API                  *)
(* (internal/middleware/security.go) and the EventSource of the page       *)
(* (web/spa/src/lib/stores/leaderboard.svelte.ts).                         *)
(*                                                                         *)
(* A board is the pair of versions it was computed from: the roster (the   *)
(* competition, its problems and its registrations) and the scores (the    *)
(* attempts).  The cache and the hub live in the memory of one instance.   *)
(* GET /leaderboard is a viewer that leaves after its first board.         *)
(* The router installs Wrappers = {"Collect", "Logger"}, under which no    *)
(* stream is ever served; {} is the writer the handler's tests give it.    *)
(***************************************************************************)
EXTENDS Integers, FiniteSets

CONSTANTS
    Viewers,      \* pages that show the leaderboard
    Writers,      \* requests that score, verify or override
    Wrappers,     \* middleware whose ResponseWriter passes no Flush on
    Instances,    \* server processes
    NoBoard,      \* an empty cache slot, an empty page
    Buffer,       \* SubscriberBufferSize
    MaxScores,    \* bound on the commits of scores
    MaxRoster,    \* bound on the changes of the roster
    MaxFaults     \* bound on failed builds, broken connections and restarts

ASSUME LeaderboardStreamAssumption ==
    /\ Instances # {}
    /\ Buffer \in Nat \ {0}
    /\ {MaxScores, MaxRoster, MaxFaults} \subseteq Nat

Board == [roster : 0 .. MaxRoster, scores : 0 .. MaxScores]

ASSUME NoBoardAssumption == NoBoard \notin Board

VARIABLES
    db,        \* the committed roster and scores
    cache,     \* leaderboardCache of each instance
    writer,    \* the writing requests
    viewer,    \* pages with the handler of their stream
    hub,       \* the viewers subscribed at their instance's hub
    inbox,     \* frames in the channel of each subscriber
    busted,    \* history: newest scores whose writer busted the cache
    faults

vars == <<db, cache, writer, viewer, hub, inbox, busted, faults>>

Larger(m, n) == IF m > n THEN m ELSE n

Away == [pc |-> "away", at |-> CHOOSE i \in Instances : TRUE, roster |-> 0,
         board |-> NoBoard, shown |-> NoBoard, begun |-> 0, due |-> 0]

Idle == [pc |-> "idle", at |-> CHOOSE i \in Instances : TRUE, level |-> 0]

At(v, s) == viewer[v].pc = s

\* The handler of StreamLeaderboard runs for these.
Serving == {"build", "scores", "put", "send", "sent", "open"}

-----------------------------------------------------------------------------

Init ==
    /\ db = [roster |-> 0, scores |-> 0]
    /\ cache = [i \in Instances |-> NoBoard]
    /\ writer = [w \in Writers |-> Idle]
    /\ viewer = [v \in Viewers |-> Away]
    /\ hub = {}
    /\ inbox = [v \in Viewers |-> 0]
    /\ busted = [i \in Instances |-> 0]
    /\ faults = 0

(* Writers. *)

\* An item of a batch, or an override, commits.
Commit(w, i) ==
    /\ \/ writer[w].pc = "idle"
       \/ writer[w].pc = "committed" /\ writer[w].at = i
    /\ db.scores < MaxScores
    /\ db' = [db EXCEPT !.scores = @ + 1]
    /\ writer' = [writer EXCEPT ![w] = [pc |-> "committed", at |-> i,
                                        level |-> db.scores + 1]]
    /\ UNCHANGED <<cache, viewer, hub, inbox, busted, faults>>

\* A verification, or a batch that was only replayed, changes no score; it
\* busts and publishes all the same.
CommitNothing(w, i) ==
    /\ writer[w].pc = "idle"
    /\ writer' = [writer EXCEPT ![w] = [pc |-> "committed", at |-> i,
                                        level |-> 0]]
    /\ UNCHANGED <<db, cache, viewer, hub, inbox, busted, faults>>

\* The commit is done but its answer is lost to the deadline: the item is
\* reported as a server error and counts as not applied.
CommitUnheard ==
    /\ db.scores < MaxScores
    /\ db' = [db EXCEPT !.scores = @ + 1]
    /\ UNCHANGED <<cache, writer, viewer, hub, inbox, busted, faults>>

\* cache.invalidate, at the end of the batch.
Invalidate(w) ==
    LET i == writer[w].at
    IN  /\ writer[w].pc = "committed"
        /\ cache' = [cache EXCEPT ![i] = NoBoard]
        /\ busted' = [busted EXCEPT ![i] = Larger(@, writer[w].level)]
        /\ writer' = [writer EXCEPT ![w].pc = "busted"]
        /\ UNCHANGED <<db, viewer, hub, inbox, faults>>

Listening(i) == {v \in hub : viewer[v].at = i}

\* Mutant of Delivered: a frame is sent though the channel is full.
DeliveredAlways(i) == Listening(i)

\* Mutant of Delivered: a frame reaches only a handler that waits for it.
DeliveredToWaiting(i) == {v \in Listening(i) : At(v, "open") /\ inbox[v] = 0}

\* Publish skips the subscribers whose channel is full.
Delivered(i) == {v \in Listening(i) : inbox[v] < Buffer}

\* publishLeaderboardChange.
Publish(w) ==
    LET i == writer[w].at
    IN  /\ writer[w].pc = "busted"
        /\ inbox' = [v \in Viewers |->
                       IF v \in Delivered(i) THEN inbox[v] + 1 ELSE inbox[v]]
        /\ viewer' = [v \in Viewers |->
                        IF v \in Listening(i)
                        THEN [viewer[v] EXCEPT
                                !.due = Larger(@, writer[w].level)]
                        ELSE viewer[v]]
        /\ writer' = [writer EXCEPT ![w] = Idle]
        /\ UNCHANGED <<db, cache, hub, busted, faults>>

\* Registrations, withdrawals, edits of problems and of the competition
\* neither bust the cache nor publish.
ChangeRoster ==
    /\ db.roster < MaxRoster
    /\ db' = [db EXCEPT !.roster = @ + 1]
    /\ UNCHANGED <<cache, writer, viewer, hub, inbox, busted, faults>>

-----------------------------------------------------------------------------
(* Streams. *)

Step(v, upd) == viewer' = [viewer EXCEPT ![v] = upd]

\* The page is opened.
Visit(v) ==
    /\ At(v, "away")
    /\ Step(v, [Away EXCEPT !.pc = "connect"])
    /\ UNCHANGED <<db, cache, writer, hub, inbox, busted, faults>>

\* The writer the handler is given is an http.Flusher: metricsResponseWriter
\* and responseWriter embed the interface, which has no Flush.
CanFlush == Wrappers = {}

\* EventSource connects, to any instance; without a Flusher it is answered
\* 500 and gives up.
Connect(v, i) ==
    /\ At(v, "connect")
    /\ Step(v, [viewer[v] EXCEPT !.pc = IF CanFlush THEN "build" ELSE "dead",
                                 !.at = i,
                                 !.begun = busted[i], !.due = 0])
    /\ UNCHANGED <<db, cache, writer, hub, inbox, busted, faults>>

\* buildLeaderboard finds the board in the cache...
CacheHit(v) ==
    LET c == cache[viewer[v].at]
    IN  /\ At(v, "build")
        /\ c # NoBoard
        /\ Step(v, [viewer[v] EXCEPT !.pc = "send", !.board = c])
        /\ UNCHANGED <<db, cache, writer, hub, inbox, busted, faults>>

\* ... or reads competition, events, problems and registrations...
ReadRoster(v) ==
    /\ At(v, "build")
    /\ cache[viewer[v].at] = NoBoard
    /\ Step(v, [viewer[v] EXCEPT !.pc = "scores", !.roster = db.roster])
    /\ UNCHANGED <<db, cache, writer, hub, inbox, busted, faults>>

\* ... and then the attempts...
ReadScores(v) ==
    /\ At(v, "scores")
    /\ Step(v, [viewer[v] EXCEPT !.pc = "put",
                                 !.board = [roster |-> viewer[v].roster,
                                            scores |-> db.scores]])
    /\ UNCHANGED <<db, cache, writer, hub, inbox, busted, faults>>

\* ... and puts what it computed in the cache, whatever happened meanwhile.
Put(v) ==
    /\ At(v, "put")
    /\ cache' = [cache EXCEPT ![viewer[v].at] = viewer[v].board]
    /\ Step(v, [viewer[v] EXCEPT !.pc = "send"])
    /\ UNCHANGED <<db, writer, hub, inbox, busted, faults>>

\* A query fails or the deadline cuts it.  An open stream waits for the next
\* frame; a new one is answered 500, after which EventSource gives up.
BuildFails(v) ==
    /\ At(v, "scores")
    /\ faults < MaxFaults
    /\ faults' = faults + 1
    /\ Step(v, [viewer[v] EXCEPT !.pc = IF v \in hub THEN "open" ELSE "dead",
                                 !.roster = 0])
    /\ UNCHANGED <<db, cache, writer, hub, inbox, busted>>

\* The frame reaches the page.
Send(v) ==
    /\ At(v, "send")
    /\ Step(v, [viewer[v] EXCEPT !.pc = IF v \in hub THEN "open" ELSE "sent",
                                 !.shown = viewer[v].board,
                                 !.board = NoBoard, !.roster = 0])
    /\ UNCHANGED <<db, cache, writer, hub, inbox, busted, faults>>

\* After the first frame the handler subscribes.
Subscribe(v) ==
    /\ At(v, "sent")
    /\ hub' = hub \cup {v}
    /\ Step(v, [viewer[v] EXCEPT !.pc = "open"])
    /\ UNCHANGED <<db, cache, writer, inbox, busted, faults>>

\* A frame wakes the handler: it builds the board again.
Receive(v) ==
    /\ At(v, "open")
    /\ inbox[v] > 0
    /\ inbox' = [inbox EXCEPT ![v] = @ - 1]
    /\ Step(v, [viewer[v] EXCEPT !.pc = "build",
                                 !.begun = busted[viewer[v].at]])
    /\ UNCHANGED <<db, cache, writer, hub, busted, faults>>

\* The deferred unsubscribe.
Unsubscribe(vs) ==
    /\ hub' = hub \ vs
    /\ inbox' = [v \in Viewers |-> IF v \in vs THEN 0 ELSE inbox[v]]

\* Mutant of Deadline: the handler returns without unsubscribing.
DeadlineKeepsChannel(v) ==
    /\ At(v, "open")
    /\ Step(v, [viewer[v] EXCEPT !.pc = "connect"])
    /\ UNCHANGED <<db, cache, writer, hub, inbox, busted, faults>>

\* RequestTimeout, which wraps every API route, or a broken connection ends
\* the request's context and the handler returns; EventSource reconnects.
Deadline(v) ==
    /\ At(v, "open")
    /\ Unsubscribe({v})
    /\ Step(v, [viewer[v] EXCEPT !.pc = "connect"])
    /\ UNCHANGED <<db, cache, writer, busted, faults>>

\* The connection breaks under a frame: writeSSEEvent fails, the handler
\* returns, and EventSource reconnects.
WriteFails(v) ==
    /\ At(v, "send")
    /\ faults < MaxFaults
    /\ faults' = faults + 1
    /\ Unsubscribe({v})
    /\ Step(v, [viewer[v] EXCEPT !.pc = "connect", !.board = NoBoard,
                                 !.roster = 0])
    /\ UNCHANGED <<db, cache, writer, busted>>

\* The page is closed.  A build past its last query still fills the cache.
Leave(v) ==
    /\ ~At(v, "away") /\ ~At(v, "put")
    /\ Unsubscribe({v})
    /\ Step(v, Away)
    /\ UNCHANGED <<db, cache, writer, busted, faults>>

-----------------------------------------------------------------------------
(* Instances. *)

\* Mutant of Expire: an entry lives until it is busted.
NeverExpire(i) == cache[i] # NoBoard /\ FALSE

\* leaderboardCacheTTL is over.
Expire(i) ==
    /\ cache[i] # NoBoard
    /\ cache' = [cache EXCEPT ![i] = NoBoard]
    /\ UNCHANGED <<db, writer, viewer, hub, inbox, busted, faults>>

\* An instance dies, with its cache, its hub and its requests.
Restart(i) ==
    LET lost == {v \in Viewers : viewer[v].at = i /\ viewer[v].pc \in Serving}
    IN  /\ faults < MaxFaults
        /\ faults' = faults + 1
        /\ cache' = [cache EXCEPT ![i] = NoBoard]
        /\ busted' = [busted EXCEPT ![i] = 0]
        /\ writer' = [w \in Writers |->
                        IF writer[w].at = i THEN Idle ELSE writer[w]]
        /\ viewer' = [v \in Viewers |->
                        IF v \in lost
                        THEN [viewer[v] EXCEPT !.pc = "connect",
                                               !.board = NoBoard, !.roster = 0]
                        ELSE viewer[v]]
        /\ Unsubscribe(lost)
        /\ UNCHANGED db

-----------------------------------------------------------------------------

StreamStep(v) ==
    \/ \E i \in Instances : Connect(v, i)
    \/ CacheHit(v)
    \/ ReadRoster(v)
    \/ ReadScores(v)
    \/ Put(v)
    \/ Send(v)
    \/ Subscribe(v)
    \/ Receive(v)
    \/ Deadline(v)

Next ==
    \/ \E w \in Writers :
          \/ \E i \in Instances : Commit(w, i) \/ CommitNothing(w, i)
          \/ Invalidate(w)
          \/ Publish(w)
    \/ CommitUnheard
    \/ ChangeRoster
    \/ \E v \in Viewers :
          \/ Visit(v)
          \/ StreamStep(v)
          \/ BuildFails(v)
          \/ WriteFails(v)
          \/ Leave(v)
    \/ \E i \in Instances : Expire(i) \/ Restart(i)

Spec == Init /\ [][Next]_vars

\* Handlers run, the deadline passes, the TTL runs out.  Nobody has to visit,
\* to write, to fail or to restart.
FairSpec ==
    /\ Spec
    /\ \A v \in Viewers : WF_vars(StreamStep(v))
    /\ \A i \in Instances : WF_vars(Expire(i))

-----------------------------------------------------------------------------

TypeOK ==
    /\ db \in Board
    /\ cache \in [Instances -> Board \cup {NoBoard}]
    /\ writer \in [Writers -> [pc : {"idle", "committed", "busted"},
                               at : Instances, level : 0 .. MaxScores]]
    /\ viewer \in [Viewers ->
                     [pc : {"away", "connect", "dead"} \cup Serving,
                      at : Instances, roster : 0 .. MaxRoster,
                      board : Board \cup {NoBoard},
                      shown : Board \cup {NoBoard},
                      begun : 0 .. MaxScores, due : 0 .. MaxScores]]
    /\ hub \subseteq Viewers
    /\ inbox \in [Viewers -> 0 .. Buffer]
    /\ busted \in [Instances -> 0 .. MaxScores]
    /\ faults \in 0 .. MaxFaults

\* A dropped frame is never missed: for every score published to a stream a
\* build has begun after its bust, or a frame is still waiting, or the stream
\* is about to build (Publish's non-blocking send with a full channel).
NoLostWakeup ==
    \A v \in hub : inbox[v] = 0 => viewer[v].begun >= viewer[v].due

\* The hub holds the channel of no handler that has returned, on whatever
\* path, and no handler waits without one (the deferred unsubscribe).
SubscribedWhileServed ==
    /\ TypeOK
    /\ \A v \in Viewers : /\ v \in hub => viewer[v].pc \in Serving \ {"sent"}
                          /\ At(v, "open") => v \in hub

Stays(v) == ~At(v, "away")

\* A page that stays and whose stream is not dead ends up showing the current
\* board: despite the frames published before it subscribed, boards cached
\* after their bust, changes that are not published, and writes handled by
\* other instances (the TTL with RequestTimeout and the reconnect).
Converges ==
    \A v \in Viewers :
        <>[](Stays(v) /\ ~At(v, "dead")) => <>[](viewer[v].shown = db)

-----------------------------------------------------------------------------
(* Statements of the documentation that the code does not keep. *)

\* "The server (handler/comp_sse.go) emits a `leaderboard` event on connect
\* (initial snapshot)" (leaderboard.svelte.ts:6-7): a page that stays is shown
\* a board.
ShownOnConnect == \A v \in Viewers : <>[]Stays(v) => <>(viewer[v].shown # NoBoard)

=============================================================================
