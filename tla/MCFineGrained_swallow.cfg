\* Two holes, two workers; only PD lookups fail.
CONSTANTS
    s1 = s1  s2 = s2  w1 = w1  w2 = w2
    NoStore = NoStore  NoRange = NoRange  NoResp = NoResp
    Stores <- MCStores
    Workers <- MCWorkers
    LockWaits = {0, 500}
    N = 3
    PushDownResults = {{1}}
    ChanCap = 4
    RetryTimes = 1
    MaxSleeps = 1
    MaxLocks = 0
    MaxTransfers = 0
    Faults = {"pd"}
SPECIFICATION Spec
INVARIANT ErrorsSurface
CHECK_DEADLOCK FALSE
