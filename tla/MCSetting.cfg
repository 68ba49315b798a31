\* One behaviour is of one of seven components, each at the bounds below.
SPECIFICATION SettingSpec
CONSTANTS
    \* RowSets
    Savers = {v1, v2}
    Keys = {k1, k2, k3}
    People = {p1, p2}
    MaxSaves = 3
    \* Playbook
    Editors = {v1, v2}
    MaxSteps = 4
    MaxSessions = 1
    \* SessionPlan
    Planners = {v1, v2}
    Plans = {s1}
    SettersOf = {u1}
    Spots = {w1}
    Anywhere = "anywhere"
    Grades = {"V3", "V5"}
    MaxRows = 2
    NoPlan = NoPlan
    \* Photos
    Uploaders = {c1, c2}
    PhotoStaff = {c1}
    PhotoCap = 1
    UploadSlots = 1
    MaxMillis = 2
    MaxPhotos = 3
    \* CardBatches
    Setters = {s1, h1}
    Heads = {h1}
    Cards = {r1, r2}
    Batches = {b1}
    MaxBatchCards = 2
    PrintSlots = 1
    MaxBatchEdits = 1
    \* CardSheet
    MaxSheetCards = 17
    BleedsAsked = {0, 20, 100}
    \* CardSheet, the faces
    CardNames <- MCNames
    TextLengths = {5, 8, 40}
    LabelLengths = {2, 6, 20}
    TagLengths <- MCTags
SYMMETRY Alike
INVARIANTS
    ListsStayWhole
    SheetsHold
    CardsHold
PROPERTIES
    PhotosHold
\* Every component stops at its bound.
CHECK_DEADLOCK FALSE
