SPECIFICATION Spec
CONSTANTS
    None = None
    x = x  y = y
    k = k  l = l  m = m
    Clients = {x, y}
    Leaders = {k, l, m}
    ConfirmsHolder = TRUE
    MaxSelfSpawn = 2
    MaxEvictAttempts = 1
INVARIANT
    SingleLeader
CHECK_DEADLOCK FALSE
