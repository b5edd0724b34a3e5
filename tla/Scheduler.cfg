SPECIFICATION FairSpec
CONSTANTS
    None = None
    a = a  b = b  c = c
    Tasks = {a, b, c}
    Recurring = {a, b}
    Durable = {a}
    MaxTasks = 2
    MaxRevision = 2
    MaxGenerations = 2
    MaxQueued = 2
INVARIANTS
    TypeOK
    TombstoneIsFinal
PROPERTIES
    ClockIsSound
    ActorReturns
CHECK_DEADLOCK FALSE
