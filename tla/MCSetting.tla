----------------------------- MODULE MCSetting ------------------------------
(***************************************************************************)
(* The components around setting and its cards, on a small instance.  They *)
(* share no state, so a run looks at one of them at a time: the others     *)
(* stay in an initial state of theirs.                                     *)
(***************************************************************************)
EXTENDS RowSets, Playbook, SessionPlan, Photos, CardBatches, CardSheet, TLC

VARIABLE focus    \* the component the behaviour is of

\* Names of one to five words, the words given by their length.
MCNames == {<<>>, <<7, 5>>, <<7, 5, 6>>, <<40>>, <<3, 40>>, <<40, 3>>, <<7, 5, 6, 5, 3>>}
MCTags == {<<>>, <<6, 8, 11>>, <<30, 30, 30>>}

\* Requests are alike, whoever sends them, and so are the routes of a batch.
Alike == Permutations(Savers) \cup Permutations(Cards)

\* Out of focus one kind of row set and one blank card are enough.
SettingInit ==
    /\ focus \in {"sets", "playbook", "plan", "photos", "batches", "sheets", "faces"}
    /\ PlaybookInit /\ PlanInit /\ PhotosInit /\ BatchesInit /\ SheetInit
    /\ RowSetsInit /\ (focus # "sets" => family = "tags" /\ rows = {})
    /\ FaceInit /\ (focus # "faces" => card.name = <<>> /\ card.tags = <<>> /\ card.circuit
                                       /\ \A n \in LabelLengths : card.label <= n)

SettingNext ==
    \/ /\ focus = "sets" /\ RowSetsNext
       /\ UNCHANGED <<focus, playbookVars, planVars, photoVars, batchVars, sheetVars, faceVars>>
    \/ /\ focus = "playbook" /\ PlaybookNext
       /\ UNCHANGED <<focus, setVars, planVars, photoVars, batchVars, sheetVars, faceVars>>
    \/ /\ focus = "plan" /\ PlanNext
       /\ UNCHANGED <<focus, setVars, playbookVars, photoVars, batchVars, sheetVars, faceVars>>
    \/ /\ focus = "photos" /\ PhotosNext
       /\ UNCHANGED <<focus, setVars, playbookVars, planVars, batchVars, sheetVars, faceVars>>
    \/ /\ focus = "batches" /\ BatchesNext
       /\ UNCHANGED <<focus, setVars, playbookVars, planVars, photoVars, sheetVars, faceVars>>
    \/ /\ focus = "sheets" /\ SheetNext
       /\ UNCHANGED <<focus, setVars, playbookVars, planVars, photoVars, batchVars, faceVars>>
    \/ /\ focus = "faces" /\ FaceNext
       /\ UNCHANGED <<focus, setVars, playbookVars, planVars, photoVars, batchVars, sheetVars>>

SettingSpec ==
    SettingInit
    /\ [][SettingNext]_<<focus, setVars, playbookVars, planVars, photoVars, batchVars,
                         sheetVars, faceVars>>

\* The lists a setter edits come out as asked: a set replaced by one request at a
\* time is what it sent, playbook steps never share a place, a plan keeps what it
\* promises of its session and its strips, and a sheet shows a list its batch had
\* while it was printed (repository/session.go, tag.go, service/cardbatch).
ListsStayWhole ==
    /\ RowSetsTypeOK /\ SetIsWholeAlone
    /\ PlaybookTypeOK /\ PlacesAreDistinct
    /\ PlanTypeOK /\ PlanHolds
    /\ SheetIsCurrent

\* The photos of a route exceed the cap by fewer than the uploads under way, and no
\* upload or delete takes the object of a row that stays, unless two uploads shared a
\* millisecond (handler/routephoto.go, service/storage.go).  Of the URL on the row of
\* the route nothing is claimed: it can outlive its photo.
PhotosHold == [][PhotosTypeOK' /\ CapHolds' /\ ObjectsOutliveRows]_photoVars

\* A sheet of any size has every card once, whole, and is cut where the marks say
\* (service/cardsheet).
SheetsHold == SheetTypeOK /\ SheetsComeOutWhole

\* A batch is a row as the code writes it.  On a card every text that is truncated to
\* fit stays between the left and the right edge, a name excepted whose first word alone
\* is wider than its line and is followed by another; the label, which is not shrunk
\* below a smallest size, and what is drawn as it is (the texts of a circuit card, the
\* setter of a digital one) may be wider.  On the faces printed for the wall, the QR code
\* and the setter's line are clear of every other text but the label
\* (handler/route_card_batches.go, service/card_draw.go, service/cardgen.go).
CardsHold == BatchesTypeOK /\ FaceTypeOK /\ FaceReads
=============================================================================
