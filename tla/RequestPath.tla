---------------------------- MODULE RequestPath ----------------------------
(***************************************************************************)
(* What every request passes on its way in and out (internal/router's      *)
(* global chain): Metrics.Collect, Logger and Recovery, and for the pages  *)
(* Gzip inside them.  A handler writes a header and a body, or panics      *)
(* before, between or after; each wrapper of the response sees the calls   *)
(* of the one inside it.                                                   *)
(*                                                                         *)
(* The counters of Metrics are atomics that the end of each request bumps  *)
(* one by one, and that the three readers (JSON, Prometheus text, admin    *)
(* page) load one by one while requests go on.                             *)
(*                                                                         *)
(* A body is the sequence of the codings of its writes.                    *)
(***************************************************************************)
EXTENDS Integers, Sequences, FiniteSetsExt, Functions

CONSTANTS
    Slots,          \* requests that can be in flight at once
    Patterns,       \* route patterns; "" is a request that matches none
    Zipped,         \* those behind Gzip
    Answers,        \* status codes that handlers answer
    LatencyBounds,  \* bucketBounds, ascending
    Durations,      \* milliseconds a request may take
    MaxServed       \* bound: requests of one run

ASSUME RequestPathAssumption ==
    /\ Zipped \subseteq Patterns
    /\ Answers \subseteq {200, 404, 500}
    /\ IsFiniteSet(Slots)
    /\ LatencyBounds \in Seq(Nat) /\ Durations \subseteq Nat /\ MaxServed \in Nat
    /\ \A i \in 2 .. Len(LatencyBounds) : LatencyBounds[i - 1] < LatencyBounds[i]

VARIABLES
    served,    \* the requests in flight, by slot
    figures,   \* the atomics of Metrics
    reading,   \* the reader of the figures: what it has loaded so far
    answer,    \* the response the last step has completed, if it did
    ended      \* history: finished requests by status code

pathVars == <<served, figures, reading, answer, ended>>

Codes == Answers \cup {200, 500, 503}
Faces == {"text", "image", "encoded"}   \* Content-Type and -Encoding set
Fields == {"total", "inf", "active", "errors", "rejects", "codes", "latency", "routes"}
NotReading == [reader |-> "none", next |-> 1, got |-> [f \in Fields |-> 0]]
NoAnswer == <<>>
Latencies == 1 .. Len(LatencyBounds)

Fresh == [stage |-> "free", pattern |-> "", status |-> 0, ms |-> 0, found |-> 0]

Begun(p) == [stage |-> "handler", pattern |-> p, status |-> 0, ms |-> 0, found |-> 0]

\* A status nobody has had has no counter yet, a route no figures of its own:
\* stored and requests are 0.
PathInit ==
    /\ served = [s \in Slots |-> Fresh]
    /\ figures = [total |-> 0, active |-> 0, errors |-> 0, rejects |-> 0,
                  codes |-> [c \in Codes |-> [count |-> 0, stored |-> 0]],
                  latency |-> [i \in Latencies |-> 0],
                  routes |-> [p \in Patterns |->
                                [requests |-> 0, errors |-> 0,
                                 latency |-> [i \in Latencies |-> 0]]]]
    /\ reading = NotReading
    /\ answer = NoAnswer
    /\ ended = [c \in Codes |-> 0]

InFlight == {s \in Slots : served[s].stage # "free"}
In(s, stage) == served[s].stage = stage

-----------------------------------------------------------------------------
(* The way in, and the handler.                                            *)

\* Collect counts the request before it passes it on.
Arrive(s) ==
    /\ s \notin InFlight /\ figures.total < MaxServed
    /\ \E p \in Patterns :
          served' = [served EXCEPT ![s] = Begun(p)]
    /\ figures' = [figures EXCEPT !.active = @ + 1, !.total = @ + 1]
    /\ answer' = NoAnswer
    /\ UNCHANGED <<reading, ended>>

\* A response as its wrappers hold it: status is what Collect and Logger
\* have noted, sent what net/http has told the client.
Response(gzip, face) ==
    [gzip |-> gzip, face |-> face, wrote |-> FALSE, stream |-> FALSE,
     status |-> 200, sent |-> 0, body |-> <<>>, cut |-> FALSE]

\* Mutant of Decide: what the handler has encoded is compressed again.
DecideAgain(r) == r.gzip /\ r.face # "image"

\* decide: text that no handler has encoded is compressed.
Decide(r) == r.gzip /\ r.face = "text"

\* WriteHeader through Gzip, to the wrappers outside it and to net/http,
\* which sends the first code it gets.
Headed(r, code) ==
    [r EXCEPT !.wrote  = TRUE,
              !.stream = IF r.wrote THEN r.stream ELSE Decide(r),
              !.status = code,
              !.sent   = IF r.sent = 0 THEN code ELSE r.sent]

\* Write: a first one sends 200, and goes to the stream if there is one.
Coding(r) == IF r.stream THEN "zip" ELSE IF r.face = "encoded" THEN "own" ELSE "plain"
BodyWritten(r) ==
    LET h == IF r.wrote THEN r ELSE Headed(r, 200)
    IN  [h EXCEPT !.body = Append(h.body, Coding(h))]

\* Recovery writes to the response it was given, outside Gzip, whose stream
\* Close has ended: its header is noted even when another one has been sent.
Recovered(r) ==
    LET h == Headed([r EXCEPT !.gzip = FALSE], 500)
    IN  [h EXCEPT !.body = Append(h.body, "plain"), !.cut = r.wrote]

\* HealthHandler.Check answers 503 only for its database.
HealthStatus(database, storage) == IF database THEN 200 ELSE 503

\* The header a handler writes: none, its own, or that of a health check.
Headers == {0} \cup Answers
           \cup {HealthStatus(d, st) : d, st \in BOOLEAN}

\* A handler that writes a header or not and a body of up to two pieces,
\* and then returns or panics.
Handle(s) ==
    /\ In(s, "handler")
    /\ \E face \in Faces, gzip \in BOOLEAN, code \in Headers, writes \in 0 .. 2, panics \in BOOLEAN :
          LET opened == Response(gzip, face)
              begun  == IF code = 0 THEN opened ELSE Headed(opened, code)
              body   == IF writes = 0 THEN begun ELSE
                        IF writes = 1 THEN BodyWritten(begun) ELSE BodyWritten(BodyWritten(begun))
          IN  /\ gzip => served[s].pattern \in Zipped
              /\ answer' = IF panics THEN Recovered(body) ELSE body
    /\ served' = [served EXCEPT ![s].stage = "collect", ![s].status = answer'.status]
    /\ UNCHANGED <<figures, reading, ended>>

-----------------------------------------------------------------------------
(* The way out: Collect after ServeHTTP, one atomic at a time.             *)

\* The bucket a duration falls in, none for one beyond the last bound.
Bucket(ms) ==
    LET fitting == {i \in Latencies : ms <= LatencyBounds[i]}
    IN  IF fitting = {} THEN {} ELSE {Min(fitting)}

Bumped(histogram, ms) ==
    [i \in Latencies |-> histogram[i] + IF i \in Bucket(ms) THEN 1 ELSE 0]

Finish(s) ==
    /\ In(s, "collect")
    /\ figures' = [figures EXCEPT !.active = @ - 1]
    /\ \E ms \in Durations :
          served' = [served EXCEPT ![s].stage = "latency", ![s].ms = ms]
    /\ answer' = NoAnswer
    /\ UNCHANGED <<reading, ended>>

NoteLatency(s) ==
    /\ In(s, "latency")
    /\ figures' = [figures EXCEPT !.latency = Bumped(figures.latency, served[s].ms)]
    /\ served' = [served EXCEPT ![s].stage = "errors"]
    /\ answer' = NoAnswer
    /\ UNCHANGED <<reading, ended>>

\* Mutant of Serious: the gateway errors are somebody else's.
SeriousOnly(code) == code = 500

Serious(code) == code >= 500

\* With the look-up of incrementStatusCode, which comes next: found is the
\* counter it finds.
NoteError(s) ==
    LET code == served[s].status
    IN  /\ In(s, "errors")
        /\ figures' = IF Serious(code) THEN [figures EXCEPT !.errors = @ + 1]
                      ELSE IF code >= 400 THEN [figures EXCEPT !.rejects = @ + 1]
                      ELSE figures
        /\ served' = [served EXCEPT ![s].stage = "code", ![s].found = figures.codes[code].stored]
        /\ answer' = NoAnswer
        /\ UNCHANGED <<reading, ended>>

\* incrementStatusCode: a code that was not in the map when it looked is
\* stored with a counter of its own, over the one that another request may
\* have stored since; one that was adds to the counter it found, even one
\* that has been stored over.  stored tells the counters of a code apart.
Incremented(held, found) ==
    IF found = 0 THEN [count |-> 1, stored |-> held.stored + 1]
    ELSE IF found = held.stored THEN [held EXCEPT !.count = @ + 1] ELSE held

NoteCode(s) ==
    LET code == served[s].status
    IN  /\ In(s, "code")
        /\ figures' = [figures EXCEPT !.codes =
                         [figures.codes EXCEPT ![code] = Incremented(@, served[s].found)]]
        /\ ended' = [ended EXCEPT ![code] = @ + 1]
        /\ served' = [served EXCEPT ![s].stage = "route"]
        /\ answer' = NoAnswer
        /\ UNCHANGED <<reading>>

\* getOrCreateRouteMetrics stores only what nobody else has (LoadOrStore).
Routed(had, status, ms) ==
    [requests |-> had.requests + 1,
     errors   |-> had.errors + IF Serious(status) THEN 1 ELSE 0,
     latency  |-> Bumped(had.latency, ms)]

NoteRoute(s) ==
    LET p == served[s].pattern
    IN  /\ In(s, "route")
        /\ figures' = IF p = "" THEN figures
                      ELSE [figures EXCEPT !.routes =
                              [figures.routes EXCEPT ![p] = Routed(@, served[s].status, served[s].ms)]]
        /\ served' = [served EXCEPT ![s] = Fresh]
        /\ answer' = NoAnswer
        /\ UNCHANGED <<reading, ended>>

-----------------------------------------------------------------------------
(* The readers.                                                            *)

\* Mutant of Loads: the total is loaded once, with the text's first lines, and
\* closes the histogram too.
LoadsEarly ==
    [json |-> <<"codes", "latency", "routes", "total", "active", "errors",
                "rejects">>,
     prometheus |-> <<"total", "inf", "active", "errors", "rejects", "codes",
                      "latency", "routes">>,
     snapshot |-> <<"total", "errors", "active", "rejects", "codes",
                    "latency", "routes">>]

\* What each of them loads, in its order.  The text loads the total twice: it
\* begins with it (requests_total) and ends its histogram with it (le="+Inf").
Loads ==
    [json |-> <<"codes", "latency", "routes", "total", "active", "errors",
                "rejects">>,
     prometheus |-> <<"total", "active", "errors", "rejects", "codes", "latency",
                      "inf", "routes">>,
     snapshot |-> <<"total", "errors", "active", "rejects", "codes",
                    "latency", "routes">>]

\* The entries a function adds up to.
Tally(f) == SumFunction(f)

Counts == [c \in Codes |-> figures.codes[c].count]

\* What the model keeps of a load: the sum of the counters it reads.  The
\* routes and the requests in flight are loaded and compared with nothing.
Loaded ==
    [codes |-> Tally(Counts), latency |-> Tally(figures.latency),
     total |-> figures.total, inf |-> figures.total, errors |-> figures.errors, rejects |-> figures.rejects,
     routes |-> 0, active |-> 0]

Read(reader) ==
    /\ reading = NotReading
    /\ reading' = [NotReading EXCEPT !.reader = reader]
    /\ answer' = NoAnswer
    /\ UNCHANGED <<served, figures, ended>>

Done == reading.next > Len(Loads[reading.reader])

Load ==
    /\ reading # NotReading /\ ~Done
    /\ LET field == Loads[reading.reader][reading.next]
       IN  reading' = [reading EXCEPT !.next = @ + 1,
                                      !.got = [reading.got EXCEPT ![field] = Loaded[field]]]
    /\ answer' = NoAnswer
    /\ UNCHANGED <<served, figures, ended>>

AnswerRequest ==
    /\ reading # NotReading /\ Done
    /\ reading' = NotReading
    /\ answer' = NoAnswer
    /\ UNCHANGED <<served, figures, ended>>

PathNext ==
    \/ \E s \in Slots :
          \/ Arrive(s) \/ Handle(s) \/ Finish(s) \/ NoteLatency(s) \/ NoteError(s) \/ NoteCode(s)
          \/ NoteRoute(s)
    \/ \E reader \in DOMAIN Loads : Read(reader)
    \/ Load
    \/ AnswerRequest

PathSpec == PathInit /\ [][PathNext]_pathVars

-----------------------------------------------------------------------------

PathTypeOK ==
    /\ figures.total \in 0 .. MaxServed
    /\ figures.active \in 0 .. Cardinality(Slots)
    /\ DOMAIN figures.codes = Codes /\ DOMAIN figures.routes = Patterns
    /\ \A s \in InFlight : ~In(s, "handler") => served[s].status \in Codes

\* With nothing in flight the figures account for every request: by status,
\* and by route.
AllAccounted ==
    InFlight = {} =>
        /\ figures.active = 0
        /\ figures.total = Tally(ended)
        /\ figures.errors = ended[500] + ended[503]
        /\ figures.rejects = IF 404 \in Codes THEN ended[404] ELSE 0
        /\ \A c \in Codes : ended[c] > 0 => Counts[c] \in 1 .. ended[c]
        /\ \A p \in Patterns : figures.routes[p].errors <= figures.routes[p].requests

\* The load of the total that ends what a reader shows of the requests.
Closing(reader) == IF reader = "prometheus" THEN "inf" ELSE "total"

\* A reading taken while requests go on.  In the JSON the codes and the histogram
\* stay within the total, which is loaded after them.  In the text they, the errors
\* and the rejections stay within the +Inf of the histogram, and so does the
\* requests_total of its first line, which they may exceed; the page of the admin
\* loads the total first and promises nothing (jsonHandler, prometheusHandler).
ReadingHolds ==
    (reading # NotReading /\ Done /\ reading.reader # "snapshot") =>
        LET got == reading.got
            last == got[Closing(reading.reader)]
        IN  /\ got["latency"] <= last /\ got["codes"] <= last
            /\ reading.reader = "prometheus" =>
                  got["errors"] + got["rejects"] <= last /\ got["total"] <= last

\* The counters of the request path stay true to what was served, at rest
\* and to whoever reads them one by one (Metrics).
FiguresAddUp == AllAccounted /\ ReadingHolds

\* An answer has one coding and the status that was noted for it is the one
\* the client was sent, whoever wrote it; only a handler that panics after
\* its first byte leaves the two apart (Gzip, Recovery, Logger).
AnswerIsWhole ==
    (answer # NoAnswer /\ ~answer.cut) =>
        /\ Cardinality(Range(answer.body)) <= 1
        /\ answer.status = IF answer.sent = 0 THEN 200 ELSE answer.sent
        /\ answer.stream => /\ answer.face = "text"
                            /\ Range(answer.body) \subseteq {"zip"}
        /\ "zip" \in Range(answer.body) => answer.stream
=============================================================================
