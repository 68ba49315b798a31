\* One behaviour is of one of seven components, each at the bounds below.
SPECIFICATION OperationsSpec
CONSTANTS
    \* RequestPath
    Slots = {s1, s2}
    Patterns = {"/login"}
    Zipped = {"/login"}
    Answers = {200}
    LatencyBounds <- MCBounds
    Durations = {3}
    MaxServed = 2
    \* SettingsCache
    Instances = {i1, i2}
    Editors = {e1, e2}
    Sections = {a1, a2}
    MaxEdits = 2
    Palette = {a1}
    NotCached = NotCached
    \* Backups
    Machines = {"m1", "m2"}
    Shell = "admin"
    OnBoot = {"m2"}
    RetentionDays = 1
    MaxDays = 3
    MaxRuns = 2
    \* Migrations
    Servers = {"old", "new"}
    Operator = "admin"
    Image <- MCImage
    AllowForce = {"new"}
    Rerunnable = {1}
    MaxBoots = 5
    \* Notices
    Notes = {n1}
    Mails = {l1}
    Changes = {c1}
    Jobs = {n1, l1, c1}
    MaxBegun = 2
    MaxCopies = 2
    MaxToggles = 1
    \* CompBoard
    p1 = p1
    p2 = p2
    Climbers = {u1, u2, u3}
    BoardProblems = {p1, p2}
    BoardEvents = {ev1}
    Results <- MCResults
    Points <- MCPoints
    FlashBonus = 5
    DecayBase = 66
    DecayRate = 1
    RateUnit = 10
    Tier = 1000
    Overrides = {"none"}
    NoEvent = NoEvent
    \* CompSetup
    Directors = {"d1", "d2"}
    Entrants = {"u1", "u2"}
    Competitions = {"c1"}
    Events = {"e1"}
    Problems = {"p1"}
    Labels = {"A"}
    Bibs = {1}
    MaxTime = 3
    MaxPatches = 2
SYMMETRY Alike
INVARIANTS
    RequestsHold
    EditsHold
    OperationsHold
    TellingHolds
    CompetitionHolds
\* Every component stops at its bound.
CHECK_DEADLOCK FALSE
