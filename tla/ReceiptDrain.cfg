SPECIFICATION FairSpec
CONSTANTS
    None = None
    Capacity = 2
    MaxMessages = 5
INVARIANTS
    TypeOK
    SettlementIsComplete
PROPERTIES
    TimeoutNamesLatest
    NobodyIsStuck
CHECK_DEADLOCK FALSE
