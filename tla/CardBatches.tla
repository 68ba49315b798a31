------------------------------ MODULE CardBatches ------------------------------
(***************************************************************************)
(* Print batches of route cards at one gym: a batch is a list of routes, a *)
(* sheet is rendered from the live routes whenever it is downloaded        *)
(* (internal/handler/card_batch.go, internal/service/cardbatch,            *)
(* internal/repository/card_batch.go; the links to sheet, preview and      *)
(* single cards also in internal/handler/web).  The creator or a head      *)
(* setter edits, retries and deletes.                                      *)
(***************************************************************************)
EXTENDS Naturals, FiniteSets, SequencesExt

CONSTANTS
    Setters, Heads,   \* who works here, and who of them is a head setter
    Cards,            \* the routes of the gym that cards are made of
    Batches,          \* ids to give out
    MaxBatchCards,    \* routes per batch, 200 in the code
    PrintSlots,       \* capacity of the web handler's uploadSem
    MaxBatchEdits     \* bound on edits and retries

ASSUME BatchesAssumption ==
    Heads \subseteq Setters /\ MaxBatchCards \in Nat /\ MaxBatchEdits \in Nat

VARIABLES
    batch,            \* id -> the row, or NoBatch
    live,             \* routes not deleted
    printer,          \* setter -> request
    batchEdits

batchVars == <<batch, live, printer, batchEdits>>

-----------------------------------------------------------------------------
NoBatch == [status |-> "none"]
NoJob == [op |-> "none"]
\* the lists a setter posts; no list names a route twice
CardLists == {list \in BoundedSeq(Cards, MaxBatchCards) : IsInjective(list)}
BatchRows == [by : Setters, routes : CardLists \ {<<>>}, status : {"pending", "failed"}]

BatchesTypeOK ==
    /\ batch \in [Batches -> BatchRows \cup {NoBatch}]
    /\ live \subseteq Cards
    /\ \A s \in Setters : printer[s].op \in {"none", "create", "update", "print", "card"}
    /\ batchEdits \in 0 .. MaxBatchEdits

BatchesInit ==
    /\ batch = [b \in Batches |-> NoBatch]
    /\ live = Cards
    /\ printer = [s \in Setters |-> NoJob]
    /\ batchEdits = 0

Put(s, job) == printer' = [printer EXCEPT ![s] = job]
BatchesStay == UNCHANGED <<batch, live, batchEdits>>

CanDeleteCardBatch(s, b) == batch[b] # NoBatch /\ (batch[b].by = s \/ s \in Heads)

Printed(s) == printer[s].op = "print" /\ printer[s].step = "printed"
Printing(s) == printer[s].op = "print" /\ printer[s].step # "printed"

-----------------------------------------------------------------------------
\* Mutant of Resolved: a deleted route is printed as well.
ResolvedAnyway(list) == list

\* ListByIDs and the walk over the list: its order, without what is gone.
Among(list, there) ==
    LET upTo[n \in 0 .. Len(list)] ==
            IF n = 0 THEN <<>>
            ELSE IF list[n] \in there THEN Append(upTo[n - 1], list[n]) ELSE upTo[n - 1]
    IN  upTo[Len(list)]
Resolved(list) == Among(list, live)

\* Create up to ValidateRouteIDs.
CreateBatch(s, list) ==
    /\ printer[s] = NoJob /\ list # <<>> /\ Resolved(list) # <<>>
    /\ Put(s, [op |-> "create", routes |-> Resolved(list)])
    /\ BatchesStay

InsertBatch(s, b) ==
    /\ printer[s].op = "create" /\ batch[b] = NoBatch
    /\ batch' = [batch EXCEPT ![b] =
                    [by |-> s, routes |-> printer[s].routes, status |-> "pending"]]
    /\ Put(s, NoJob)
    /\ UNCHANGED <<live, batchEdits>>

UpdateBatch(s, b, list) ==
    /\ printer[s] = NoJob /\ CanDeleteCardBatch(s, b) /\ batchEdits < MaxBatchEdits
    /\ list # <<>> /\ Resolved(list) # <<>>
    /\ Put(s, [op |-> "update", batch |-> b, routes |-> Resolved(list)])
    /\ BatchesStay

\* Of a batch deleted meanwhile the statement finds no row.
UpdateRouteIDs(s) ==
    LET b == printer[s].batch IN
    /\ printer[s].op = "update" /\ batchEdits < MaxBatchEdits
    /\ IF batch[b] = NoBatch THEN UNCHANGED <<batch, batchEdits>>
       ELSE /\ batch' = [batch EXCEPT ![b].routes = printer[s].routes, ![b].status = "pending"]
            /\ batchEdits' = batchEdits + 1
    /\ printer' = [t \in Setters |->
          IF t = s THEN NoJob
          ELSE IF Printing(t) /\ printer[t].batch = b THEN [printer[t] EXCEPT !.of = @ \cup {printer[s].routes}]
          ELSE printer[t]]
    /\ UNCHANGED live

\* Retry: InvalidateStorageKey.
RetryBatch(s, b) ==
    /\ printer[s] = NoJob /\ CanDeleteCardBatch(s, b) /\ batchEdits < MaxBatchEdits
    /\ batch' = [batch EXCEPT ![b].status = "pending"] /\ batchEdits' = batchEdits + 1
    /\ UNCHANGED <<live, printer>>

\* A print that has loaded the row goes on with it.
DeleteBatch(s, b) ==
    /\ printer[s] = NoJob /\ CanDeleteCardBatch(s, b)
    /\ batch' = [batch EXCEPT ![b] = NoBatch]
    /\ UNCHANGED <<live, printer, batchEdits>>

-----------------------------------------------------------------------------
\* The row is loaded; history: the lists the batch has had since then, the
\* routes that have been there all the time, and those there at the start.
Sheet(b, via, step) ==
    [op |-> "print", batch |-> b, via |-> via, step |-> step, routes |-> batch[b].routes,
     of |-> {batch[b].routes}, ever |-> live, always |-> live]

\* The API renders at once.
DownloadBatch(s, b) ==
    /\ printer[s] = NoJob /\ batch[b] # NoBatch
    /\ Put(s, Sheet(b, "api", "render"))
    /\ BatchesStay

\* The web waits for a slot of uploadSem.
CardBatchDownload(s, b) ==
    /\ printer[s] = NoJob /\ batch[b] # NoBatch
    /\ Put(s, Sheet(b, "web", "wait"))
    /\ BatchesStay

\* RouteCardPrintPNG and the other single cards of the web.
RouteCard(s) ==
    /\ printer[s] = NoJob
    /\ Put(s, [op |-> "card", step |-> "wait", routes |-> <<>>])
    /\ BatchesStay

\* The thumbnail tries the routes of the list in turn.
CardBatchPreview(s, b) ==
    /\ printer[s] = NoJob /\ batch[b] # NoBatch
    /\ Put(s, [op |-> "card", step |-> "wait", routes |-> batch[b].routes])
    /\ BatchesStay

HasSlot(s) == \/ printer[s].op = "card" /\ printer[s].step = "render"
              \/ printer[s].op = "print" /\ printer[s].via = "web" /\ printer[s].step = "render"

acquireUploadSem(s) ==
    /\ printer[s].op \in {"print", "card"} /\ printer[s].step = "wait"
    /\ Cardinality({t \in Setters : HasSlot(t)}) < PrintSlots
    /\ printer' = [printer EXCEPT ![s].step = "render"]
    /\ BatchesStay

\* A route that is gone, or fails to render, is skipped; the first that does
\* not ends the request, as does the end of the list.
RenderPreviewPNG(s) ==
    /\ printer[s].op = "card" /\ printer[s].step = "render" /\ Len(printer[s].routes) > 1
    /\ printer' = [printer EXCEPT ![s].routes = Tail(@)]
    /\ BatchesStay

\* Without a route left it is an error.
RenderBatch(s) ==
    LET routes == Resolved(printer[s].routes) IN
    /\ printer[s].op = "print" /\ printer[s].step = "render"
    /\ printer' = [printer EXCEPT ![s].step = IF routes = <<>> THEN "failed" ELSE "printed",
                                  ![s].routes = routes]
    /\ BatchesStay

RenderFails(s) ==
    /\ printer[s].op = "print" /\ printer[s].step = "render"
    /\ printer' = [printer EXCEPT ![s].step = "failed"]
    /\ BatchesStay

MarkFailed(s) ==
    LET b == printer[s].batch IN
    /\ printer[s].op = "print" /\ printer[s].step = "failed"
    /\ batch' = IF batch[b] = NoBatch THEN batch ELSE [batch EXCEPT ![b].status = "failed"]
    /\ Put(s, NoJob)
    /\ UNCHANGED <<live, batchEdits>>

\* A card is drawn, a statement fails, the deadline passes: the slot is returned.
PrintEnds(s) ==
    /\ printer[s] # NoJob
    /\ Put(s, NoJob)
    /\ BatchesStay

-----------------------------------------------------------------------------
\* A draft goes with its setting session, the only way a route is deleted.
DeleteCardRoute(r) ==
    /\ r \in live /\ live' = live \ {r}
    /\ printer' = [s \in Setters |-> IF Printing(s)
                       THEN [printer[s] EXCEPT !.always = @ \ {r}] ELSE printer[s]]
    /\ UNCHANGED <<batch, batchEdits>>

BatchesNext ==
    \/ \E s \in Setters :
          \/ \E list \in CardLists :
                CreateBatch(s, list) \/ \E b \in Batches : UpdateBatch(s, b, list)
          \/ \E b \in Batches :
                \/ InsertBatch(s, b) \/ DownloadBatch(s, b) \/ CardBatchDownload(s, b)
                \/ CardBatchPreview(s, b) \/ RetryBatch(s, b) \/ DeleteBatch(s, b)
          \/ UpdateRouteIDs(s) \/ RouteCard(s) \/ acquireUploadSem(s) \/ RenderPreviewPNG(s)
          \/ RenderBatch(s) \/ RenderFails(s) \/ MarkFailed(s) \/ PrintEnds(s)
    \/ \E r \in Cards : DeleteCardRoute(r)

BatchesSpec == BatchesInit /\ [][BatchesNext]_batchVars

-----------------------------------------------------------------------------
\* A sheet shows a list its batch had while it was printed, in that list's
\* order, with every route that was there all the time and none that was gone
\* before ("every call re-reads routes fresh from the DB so reprints always
\* reflect current route state", service/cardbatch/cardbatch.go).
SheetIsCurrent ==
    \A s \in Setters : Printed(s) =>
        \E list \in printer[s].of, there \in SUBSET Cards :
            /\ printer[s].always \subseteq there /\ there \subseteq printer[s].ever
            /\ printer[s].routes = Among(list, there)
=============================================================================
