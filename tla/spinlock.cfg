CONSTANTS
    c1 = c1
    c2 = c2
    c3 = c3
    CPU = {c1, c2, c3}
    Careless = {c1, c2, c3}
    NoCpu = NoCpu
SPECIFICATION LockFairSpec
INVARIANTS MutualExclusion HoldingIsExact PanicIffMisuse
PROPERTIES ImplementsMutex LockNeverLost
