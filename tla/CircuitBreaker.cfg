SPECIFICATION FairSpec
CONSTANTS
    t1 = t1  t2 = t2
    Threads = {t1, t2}
    MinSamples = 1
    RatePercent = 50
    MaxWindow = 1
    MaxProbes = 1
    OpenDuration = 2
    MaxDelay = 1
    MaxLost = 1
    Words = 5
INVARIANTS
    TypeOK
    MirrorExact
PROPERTIES
    HalfOpensCleanly
    OneExtraProbe
    HalfOpenLeaves
