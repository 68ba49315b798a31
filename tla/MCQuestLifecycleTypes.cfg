CONSTANTS
    q1 = q1
    e1 = e1
    e2 = e2
    b1 = b1
    Requests = {r1, r2}
    Workers = {w1}
    Quests = {q1}
    Enrollments = {e1, e2}
    QuestOf <- MCQuestOf
    TargetOf <- MCTargetOf
    BadgeOf <- MCBadgeOf
    RequestTypes = {"route_climbed", "general"}
    NoTarget = NoTarget
    NoBadge = NoBadge
    None = None
    MaxLogs = 2
    MaxFaults = 1

SPECIFICATION Spec

INVARIANT
    EntriesAreRecorded

SYMMETRY Alike
