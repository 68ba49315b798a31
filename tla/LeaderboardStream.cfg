CONSTANTS
    Viewers = {v1}
    Writers = {w1}
    Wrappers = {}
    Instances = {i1, i2}
    NoBoard = NoBoard
    Buffer = 1
    MaxScores = 2
    MaxRoster = 1
    MaxFaults = 1

SPECIFICATION FairSpec

INVARIANTS
    NoLostWakeup
    SubscribedWhileServed

PROPERTY
    Converges
