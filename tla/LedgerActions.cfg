CONSTANTS
    a = a
    other = other
    Asset = {a, other}
    NoAsset = NoAsset
    Inputs <- ActionInputs
    MaxEvents = 4
    MaxVoids = 2
    ConnBusy = FALSE
SPECIFICATION Spec
INVARIANTS TypeOK RebuildReproducesBook OriginalCostConserved ProceedsFullyAllocated HistoryAgreesWithLots FirstInFirstOut DerivedFromActiveEvents
PROPERTIES CorporateActionsKeepTotals PositionSpec
