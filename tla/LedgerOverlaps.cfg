CONSTANTS
    a = a
    Asset = {a}
    NoAsset = NoAsset
    q1 = q1
    q2 = q2
    q3 = q3
    Request = {q1, q2, q3}
    NoRequest = NoRequest
    Past <- Pasts
    Inputs <- SomeInputs
    MaxEvents = 3
SYMMETRY Symmetry
SPECIFICATION Spec
INVARIANTS TypeOK SharesAddUp LotsOfActiveEvents LatestMissesOnlyOverlaps AdviceNamesItsInputs CreatesWaitInOrder
CHECK_DEADLOCK FALSE
