CONSTANTS
    p1 = p1
    foreign = foreign
    k1 = k1
    k2 = k2
    Requests = {r1, r2}
    Problems = {p1}
    Batches <- MCBatches
    OverrideStates <- MCOverrideStates
    NoKey = NoKey
    NoRow = NoRow
    MaxTx = 3

SPECIFICATION Spec

INVARIANTS
    RowsHold
    KeyTakesEffectOnce
    ScoresCoherent
    UnracedLogHolds

SYMMETRY RequestSymmetry
