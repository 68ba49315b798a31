CONSTANTS
    Viewers = {v1}
    Writers = {w1}
    Wrappers = {"Collect", "Logger"}
    Instances = {i1}
    NoBoard = NoBoard
    Buffer = 1
    MaxScores = 1
    MaxRoster = 0
    MaxFaults = 0

SPECIFICATION FairSpec

PROPERTIES
    ShownOnConnect
