SPECIFICATION FairSpec
CONSTANTS
    None = None
    x = x  y = y
    k = k  l = l  m = m
    Clients = {x, y}
    Leaders = {k, l}
    ConfirmsHolder = TRUE
    MaxSelfSpawn = 2
    MaxEvictAttempts = 1
INVARIANTS
    TypeOK
    HandoffIsClean
PROPERTY
    ClientsSettle
CHECK_DEADLOCK FALSE
