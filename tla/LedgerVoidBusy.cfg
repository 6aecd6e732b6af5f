CONSTANTS
    a = a
    other = other
    Asset = {a, other}
    NoAsset = NoAsset
    Inputs <- PairInputs
    MaxEvents = 4
    MaxVoids = 2
    ConnBusy = TRUE
SPECIFICATION Spec
INVARIANTS VoidNeverBusy
