SPECIFICATION FairSpec
CONSTANTS
    MaxRequests = 3
    Operation <- Operations
    ByKey <- WithKeys
    PoolSize = 2
INVARIANTS TypeOK OnlyReconciliationsStarve KeysAreAccountedFor
PROPERTY EveryRequestEnds
CHECK_DEADLOCK FALSE
